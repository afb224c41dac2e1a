---------------------------- MODULE RecordsProofs ----------------------------
(***************************************************************************)
(* What TLAPS proves of the services of module Records, for any values of  *)
(* their constants within the limits stated with each.                     *)
(***************************************************************************)
EXTENDS Records, Sequences, FiniteSets, FiniteSetTheorems, WellFoundedInduction, TLAPS

\* A non-empty set of natural numbers has a least element.
LEMMA LeastNatural ==
  ASSUME NEW T, T \subseteq Nat, T # {}
  PROVE  \E n \in T : \A m \in T : n <= m
<1>1. IsWellFoundedOn({ss \in Nat \X Nat : ss[1] < ss[2]}, Nat)
  BY NatLessThanWellFounded DEF OpToRel
<1>2. PICK Less : Less = {ss \in Nat \X Nat : ss[1] < ss[2]}
  OBVIOUS
<1>3. \E n \in T : \A m \in T : ~ (<<m, n>> \in Less)
  BY <1>1, <1>2, WFMin
<1>4. \A m, n \in Nat : m < n => <<m, n>> \in Less
  <2> SUFFICES ASSUME NEW m \in Nat, NEW n \in Nat, m < n PROVE <<m, n>> \in Less
    OBVIOUS
  <2>1. <<m, n>> \in Nat \X Nat /\ <<m, n>>[1] = m /\ <<m, n>>[2] = n
    OBVIOUS
  <2> QED  BY <1>2, <2>1
<1>5. \A m, n \in Nat : m < n \/ n <= m
  OBVIOUS
<1> QED  BY <1>3, <1>4, <1>5

-----------------------------------------------------------------------------
(* EscrowWallet.  A payout names at least one recipient, and its amounts are *)
(* natural numbers (PayoutsAreLists).                                        *)

PayoutsAreLists == Payouts \subseteq Seq(Nat) \ {<<>>} /\ MaxCrashes \in Nat /\ MaxFunds \in Nat

Positions == Nat \ {0}
WalletCall == [op : Wallets!Ops, pc : Wallets!Steps \cup {"new"}, todo : Seq(Nat), next : Positions]
WalletTx == [call : WalletCalls, i : Positions, amount : Nat, mined : {"no", "ok", "reverted"}]
WalletRecord == [call : WalletCalls, i : Positions, status : {"PENDING", "CONFIRMED", "FAILED"},
                 tx : Nat]

\* A request that pays is at one of its recipients.
WalletCallsOK ==
    /\ walletCalls \in [WalletCalls -> WalletCall]
    /\ \A c \in WalletCalls : walletCalls[c].op = "payout" /\ walletCalls[c].pc # "new" =>
          walletCalls[c].next <= Len(walletCalls[c].todo)

WalletBooksOK ==
    /\ txs \in Seq(WalletTx) /\ transactions \in Seq(WalletRecord)
    /\ \A r \in DOMAIN transactions : transactions[r].tx <= Len(txs)
    /\ watchers \subseteq DOMAIN transactions
    /\ \A r \in watchers : transactions[r].tx \in DOMAIN txs

\* A transaction is for a recipient that its call has come to, and for the current one
\* only once the call is past sending.
TxFits(tx) ==
    LET call == walletCalls[tx.call] IN
    /\ call.op = "payout" /\ call.pc # "new"
    /\ tx.i <= call.next
    /\ tx.i = call.next => call.pc \in {"record", "recordFailed", "done", "thrown", "lost"}
TxsFit == \A n \in DOMAIN txs : TxFits(txs[n])

\* A record is for a recipient that its call has left behind, or could not record.
Behind(call, i) == i < call.next \/ (i = call.next /\ call.pc = "done")
Tried(call, i) ==
    i < call.next \/ (i = call.next /\ call.pc \in {"recordFailed", "done", "thrown", "lost"})
RecordFits(made) ==
    LET call == walletCalls[made.call] IN call.pc # "new" /\ Tried(call, made.i)
RecordsFit == \A r \in DOMAIN transactions : RecordFits(transactions[r])

Same(x, y) == x.call = y.call /\ x.i = y.i
OnceSent == \A n, m \in DOMAIN txs : Same(txs[n], txs[m]) => n = m
HashFits(made) == made.tx # 0 => made.tx \in DOMAIN txs /\ Same(txs[made.tx], made)
HashesFit == \A r \in DOMAIN transactions : HashFits(transactions[r])

\* A save whose answer was lost leaves a record that nobody follows: the only one its
\* request may have for the recipient it records a failure of, and the first of any two.
Unfollowed(r) ==
    transactions[r].status = "PENDING" /\ transactions[r].tx # 0 /\ r \notin watchers
Unsaved(r) ==
    LET call == walletCalls[transactions[r].call] IN
    transactions[r].i = call.next /\ call.pc = "recordFailed" => Unfollowed(r)
AllUnsaved == \A r \in DOMAIN transactions : Unsaved(r)
Twice(r, q) ==
    Unfollowed(r) /\ transactions[q].status = "FAILED" /\ transactions[q].tx = 0
OnceRecorded ==
    \A r, q \in DOMAIN transactions :
        r < q /\ Same(transactions[r], transactions[q]) => Twice(r, q)

\* Every recipient left behind has a record.
HasRecord(c, i) == \E r \in DOMAIN transactions : transactions[r].call = c /\ transactions[r].i = i
AllRecorded ==
    \A c \in WalletCalls, i \in Positions :
        walletCalls[c].op = "payout" /\ Behind(walletCalls[c], i) => HasRecord(c, i)

ConfirmedIsMined ==
    \A r \in DOMAIN transactions : transactions[r].status = "CONFIRMED" =>
        transactions[r].tx \in DOMAIN txs /\ txs[transactions[r].tx].mined = "ok"

\* A call about to record a payment has a last transaction.
IsLast(c, n) ==
    n \in DOMAIN txs /\ txs[n].call = c /\ \A m \in DOMAIN txs : txs[m].call = c => m <= n
JustSent == \A c \in WalletCalls : walletCalls[c].pc = "record" =>
                \E n \in DOMAIN txs : IsLast(c, n) /\ txs[n].i = walletCalls[c].next

WalletCore ==
    /\ WalletCallsOK /\ WalletBooksOK /\ TxsFit /\ RecordsFit /\ OnceSent /\ OnceRecorded
    /\ AllRecorded /\ ConfirmedIsMined /\ JustSent /\ HashesFit /\ AllUnsaved

\* What is left of the types.
WalletRest ==
    /\ wallet \in {"none", "active", "inactive"} /\ cached \in BOOLEAN
    /\ balance \in Nat /\ funded \in Nat /\ balance <= funded
    /\ deposits \subseteq {"PENDING", "CONFIRMED"}

WalletsInv == WalletCore /\ WalletRest

-----------------------------------------------------------------------------
(* One lemma for each way a step changes calls, transactions and records.    *)

LEMMA WalletFacts ==
  ASSUME WalletCore
  PROVE  /\ WalletCallsOK /\ WalletBooksOK /\ TxsFit /\ RecordsFit /\ OnceSent /\ OnceRecorded
         /\ AllRecorded /\ ConfirmedIsMined /\ JustSent /\ HashesFit /\ AllUnsaved
         /\ \A c \in WalletCalls : walletCalls[c] \in WalletCall
         /\ \A n \in DOMAIN txs : txs[n] \in WalletTx
         /\ \A r \in DOMAIN transactions : transactions[r] \in WalletRecord
BY DEF WalletCore, WalletCallsOK, WalletBooksOK

LEMMA WalletCallFields ==
  ASSUME NEW call \in WalletCall
  PROVE  /\ call.op \in Wallets!Ops /\ call.pc \in Wallets!Steps \cup {"new"}
         /\ call.todo \in Seq(Nat)
         /\ call.next \in Nat /\ call.next # 0
BY DEF WalletCall, Positions

LEMMA RecordFields ==
  ASSUME NEW x \in WalletTx, NEW y \in WalletRecord
  PROVE  /\ x.call \in WalletCalls /\ x.i \in Positions /\ x.amount \in Nat
         /\ x.mined \in {"no", "ok", "reverted"}
         /\ y.call \in WalletCalls /\ y.i \in Positions /\ y.tx \in Nat
         /\ y.status \in {"PENDING", "CONFIRMED", "FAILED"}
BY DEF WalletTx, WalletRecord

LEMMA WalletSame ==
  ASSUME WalletCore, UNCHANGED <<walletCalls, txs, transactions, watchers>>
  PROVE  WalletCore'
BY DEF WalletCore, WalletCallsOK, WalletBooksOK, TxsFit, TxFits, RecordsFit, RecordFits,
       OnceSent, OnceRecorded, Twice, Unfollowed, AllRecorded, HasRecord, ConfirmedIsMined,
       JustSent, IsLast, HashesFit, HashFits, AllUnsaved, Unsaved

\* A call moves on without sending or recording anything.
LEMMA WalletMove ==
  ASSUME WalletCore, NEW c \in WalletCalls, NEW step \in Wallets!Steps, Wallets!Goto(c, step),
         UNCHANGED <<txs, transactions, watchers>>,
         ~Wallets!Ended(c), step # "record", step = "done" => walletCalls[c].op # "payout",
         walletCalls[c].pc \in {"record", "recordFailed"} =>
             step \in {"recordFailed", "thrown", "lost"}
  PROVE  WalletCore'
<1> DEFINE call == [walletCalls[c] EXCEPT !.pc = step]
<1>1. walletCalls[c] \in WalletCall /\ walletCalls \in [WalletCalls -> WalletCall]
  BY WalletFacts DEF WalletCallsOK
<1>2. /\ call \in WalletCall /\ call.pc = step /\ call.op = walletCalls[c].op
      /\ call.todo = walletCalls[c].todo
      /\ call.next = walletCalls[c].next
  BY <1>1 DEF WalletCall
<1>3. walletCalls' = [walletCalls EXCEPT ![c] = call]
  BY DEF Wallets!Goto
<1> HIDE DEF call
<1>4. \A d \in WalletCalls : walletCalls'[d] = IF d = c THEN call ELSE walletCalls[d]
  BY <1>1, <1>3
<1>5. walletCalls[c].pc \notin {"new", "done", "thrown", "lost"} /\ step # "new"
  BY DEF Wallets!Ended, Wallets!Steps
<1>6. WalletCallsOK'
  BY WalletFacts, <1>1, <1>2, <1>3, <1>4, <1>5 DEF WalletCallsOK
<1>7. WalletBooksOK' /\ OnceSent' /\ OnceRecorded' /\ ConfirmedIsMined'
  BY WalletFacts DEF WalletBooksOK, OnceSent, OnceRecorded, Twice, Unfollowed, ConfirmedIsMined
<1>8. TxsFit'
  <2> SUFFICES ASSUME NEW n \in DOMAIN txs PROVE TxFits(txs[n])'
    BY DEF TxsFit
  <2>1. TxFits(txs[n]) /\ txs[n].call \in WalletCalls
    BY WalletFacts, RecordFields DEF TxsFit, WalletTx
  <2> QED  BY <1>2, <1>4, <1>5, <2>1 DEF TxFits
<1>9. RecordsFit'
  <2> SUFFICES ASSUME NEW r \in DOMAIN transactions PROVE RecordFits(transactions[r])'
    BY DEF RecordsFit
  <2>1. RecordFits(transactions[r]) /\ transactions[r].call \in WalletCalls
    BY WalletFacts DEF RecordsFit, WalletRecord
  <2> QED  BY <1>2, <1>4, <1>5, <2>1 DEF RecordFits, Tried
<1>10. AllRecorded'
  BY WalletFacts, <1>2, <1>4, <1>5 DEF AllRecorded, Behind, HasRecord
<1>11. JustSent'
  BY WalletFacts, <1>2, <1>4 DEF JustSent, IsLast
<1>12. HashesFit'
  BY WalletFacts DEF HashesFit, HashFits
<1>13. AllUnsaved'
  <2> SUFFICES ASSUME NEW r \in DOMAIN transactions PROVE Unsaved(r)'
    BY DEF AllUnsaved
  <2>1. Unsaved(r) /\ RecordFits(transactions[r]) /\ transactions[r].call \in WalletCalls
    BY WalletFacts DEF RecordsFit, WalletRecord, AllUnsaved
  <2>2. /\ transactions[r].i \in Nat
        /\ walletCalls[transactions[r].call].next \in Nat
    BY WalletFacts, WalletCallFields, <2>1 DEF WalletRecord, Positions
  <2> QED  BY <1>2, <1>4, <1>5, <2>1, <2>2 DEF Unsaved, Unfollowed, RecordFits, Tried
<1> QED  BY <1>6, <1>7, <1>8, <1>9, <1>10, <1>11, <1>12, <1>13 DEF WalletCore

\* A request arrives.  No transaction and no record is its.
LEMMA RequestCore ==
  ASSUME PayoutsAreLists, WalletCore, NEW c \in WalletCalls, NEW op \in Wallets!Ops,
         NEW todo \in Payouts \cup {<<>>}, op = "payout" => todo \in Payouts,
         Wallets!Request(c, op, todo)
  PROVE  WalletCore'
<1> DEFINE call == [op |-> op, pc |-> "begin", todo |-> todo, next |-> 1]
<1>1. walletCalls \in [WalletCalls -> WalletCall]
  BY WalletFacts DEF WalletCallsOK
<1>2. /\ call \in WalletCall /\ call.pc = "begin" /\ call.op = op /\ call.next = 1
      /\ op = "payout" => call.next <= Len(call.todo)
  <2>0. <<>> \in Seq(Nat)
    OBVIOUS
  <2>1. todo \in Seq(Nat) /\ (op = "payout" => todo # <<>>)
    BY <2>0 DEF PayoutsAreLists
  <2>2. op = "payout" => 1 <= Len(todo)
    BY <2>1
  <2> QED  BY <2>1, <2>2 DEF WalletCall, Positions, Wallets!Steps
<1>3. /\ walletCalls[c].pc = "new" /\ walletCalls' = [walletCalls EXCEPT ![c] = call]
      /\ UNCHANGED <<txs, transactions, watchers>>
  BY DEF Wallets!Request, Wallets!chain, Wallets!books
<1> HIDE DEF call
<1>4. \A d \in WalletCalls : walletCalls'[d] = IF d = c THEN call ELSE walletCalls[d]
  BY <1>1, <1>3
<1>5. WalletCallsOK'
  BY WalletFacts, <1>1, <1>2, <1>3, <1>4 DEF WalletCallsOK
<1>6. WalletBooksOK' /\ OnceSent' /\ OnceRecorded' /\ ConfirmedIsMined'
  BY WalletFacts, <1>3
     DEF WalletBooksOK, OnceSent, OnceRecorded, Twice, Unfollowed, ConfirmedIsMined
<1>7. TxsFit'
  <2> SUFFICES ASSUME NEW n \in DOMAIN txs PROVE TxFits(txs[n])'
    BY <1>3 DEF TxsFit
  <2>1. TxFits(txs[n]) /\ txs[n].call \in WalletCalls
    BY WalletFacts DEF TxsFit, WalletTx
  <2> QED  BY <1>3, <1>4, <2>1 DEF TxFits
<1>8. RecordsFit'
  <2> SUFFICES ASSUME NEW r \in DOMAIN transactions PROVE RecordFits(transactions[r])'
    BY <1>3 DEF RecordsFit
  <2>1. RecordFits(transactions[r]) /\ transactions[r].call \in WalletCalls
    BY WalletFacts DEF RecordsFit, WalletRecord
  <2> QED  BY <1>3, <1>4, <2>1 DEF RecordFits
<1>9. AllRecorded'
  <2>1. \A i \in Positions : ~Behind(call, i)
    BY <1>2 DEF Behind, Positions
  <2> QED  BY WalletFacts, <1>3, <1>4, <2>1 DEF AllRecorded, HasRecord
<1>10. JustSent'
  BY WalletFacts, <1>2, <1>3, <1>4 DEF JustSent, IsLast
<1>11. HashesFit'
  BY WalletFacts, <1>3 DEF HashesFit, HashFits
<1>12. AllUnsaved'
  <2> SUFFICES ASSUME NEW r \in DOMAIN transactions PROVE Unsaved(r)'
    BY <1>3 DEF AllUnsaved
  <2>1. Unsaved(r) /\ transactions[r].call \in WalletCalls
    BY WalletFacts DEF WalletRecord, AllUnsaved
  <2> QED  BY <1>2, <1>3, <1>4, <2>1 DEF Unsaved, Unfollowed
<1> QED  BY <1>5, <1>6, <1>7, <1>8, <1>9, <1>10, <1>11, <1>12 DEF WalletCore

\* The node takes a transaction.
LEMMA SendCore ==
  ASSUME WalletCore, NEW c \in WalletCalls, NEW step \in {"record", "recordFailed"},
         Wallets!Goto(c, step),
         Wallets!At(c, "payout", "send"), UNCHANGED <<transactions, watchers>>,
         txs' = Append(txs, [call |-> c, i |-> walletCalls[c].next,
                             amount |-> walletCalls[c].todo[walletCalls[c].next], mined |-> "no"])
  PROVE  WalletCore'
<1> DEFINE old == walletCalls[c]
           call == [old EXCEPT !.pc = step]
           tx == [call |-> c, i |-> old.next, amount |-> old.todo[old.next], mined |-> "no"]
           last == Len(txs) + 1
<1>1. old \in WalletCall /\ walletCalls \in [WalletCalls -> WalletCall] /\ txs \in Seq(WalletTx)
  BY WalletFacts DEF WalletCallsOK, WalletBooksOK
<1>2. /\ call \in WalletCall /\ call.pc = step /\ call.op = "payout" /\ call.todo = old.todo
      /\ call.next = old.next /\ old.pc = "send" /\ old.op = "payout"
  BY <1>1 DEF WalletCall, Wallets!At, Wallets!Steps
<1>3. walletCalls' = [walletCalls EXCEPT ![c] = call]
  BY DEF Wallets!Goto
<1>4. tx \in WalletTx
  <2>1. old.next \in 1 .. Len(old.todo) /\ old.todo \in Seq(Nat)
    BY WalletFacts, <1>1, <1>2, WalletCallFields DEF WalletCallsOK
  <2>2. old.todo[old.next] \in Nat
    BY <2>1
  <2> QED  BY <1>1, <2>2 DEF WalletTx, WalletCall
<1>5. tx.call = c /\ tx.i = old.next /\ tx.mined = "no"
  OBVIOUS
<1> HIDE DEF call, tx, old
<1>6. \A d \in WalletCalls : walletCalls'[d] = IF d = c THEN call ELSE walletCalls[d]
  BY <1>1, <1>3
<1>7. /\ txs' \in Seq(WalletTx) /\ Len(txs') = last /\ DOMAIN txs' = DOMAIN txs \cup {last}
      /\ txs'[last] = tx /\ \A n \in DOMAIN txs : txs'[n] = txs[n] /\ n < last /\ n # last
      /\ Len(txs) \in Nat
  BY <1>1, <1>4 DEF tx, old
<1> HIDE DEF last
<1>8. WalletCallsOK'
  BY WalletFacts, <1>1, <1>2, <1>3, <1>6 DEF WalletCallsOK, old
<1>9. WalletBooksOK'
  <2>1. \A r \in DOMAIN transactions : transactions[r].tx <= Len(txs')
    <3> SUFFICES ASSUME NEW r \in DOMAIN transactions PROVE transactions[r].tx <= Len(txs')
      OBVIOUS
    <3>1. transactions[r].tx <= Len(txs) /\ transactions[r].tx \in Nat
      BY WalletFacts DEF WalletBooksOK, WalletRecord
    <3> QED  BY <1>7, <3>1 DEF last
  <2> QED  BY WalletFacts, <1>7, <2>1 DEF WalletBooksOK
<1>10. TxsFit'
  <2> SUFFICES ASSUME NEW n \in DOMAIN txs' PROVE TxFits(txs[n])'
    BY DEF TxsFit
  <2>1. CASE n = last
    <3>1. old.next <= old.next
      BY <1>1, WalletCallFields
    <3> QED  BY <1>2, <1>5, <1>6, <1>7, <2>1, <3>1 DEF TxFits
  <2>2. CASE n \in DOMAIN txs
    <3>1. TxFits(txs[n]) /\ txs[n].call \in WalletCalls
      BY WalletFacts, <2>2 DEF TxsFit, WalletTx
    <3> QED  BY <1>2, <1>6, <1>7, <2>2, <3>1 DEF TxFits, old
  <2> QED  BY <1>7, <2>1, <2>2
<1>11. OnceSent'
  <2>1. \A n \in DOMAIN txs : ~Same(txs[n], tx)
    <3> SUFFICES ASSUME NEW n \in DOMAIN txs, Same(txs[n], tx) PROVE FALSE
      OBVIOUS
    <3>1. TxFits(txs[n])
      BY WalletFacts DEF TxsFit
    <3> QED  BY <1>2, <1>5, <3>1 DEF TxFits, Same, old
  <2>2. \A n \in DOMAIN txs : ~Same(tx, txs[n])
    BY <2>1 DEF Same
  <2> QED  BY WalletFacts, <1>7, <2>1, <2>2 DEF OnceSent
<1>12. RecordsFit'
  <2> SUFFICES ASSUME NEW r \in DOMAIN transactions PROVE RecordFits(transactions[r])'
    BY DEF RecordsFit
  <2>1. RecordFits(transactions[r]) /\ transactions[r].call \in WalletCalls
    BY WalletFacts DEF RecordsFit, WalletRecord
  <2> QED  BY <1>2, <1>6, <2>1 DEF RecordFits, Tried, old
<1>13. AllRecorded' /\ OnceRecorded'
  BY WalletFacts, <1>2, <1>6
     DEF AllRecorded, OnceRecorded, Twice, Unfollowed, Behind, HasRecord, old
<1>14. ConfirmedIsMined'
  BY WalletFacts, <1>7 DEF ConfirmedIsMined
<1>15. JustSent'
  <2> SUFFICES ASSUME NEW d \in WalletCalls, walletCalls'[d].pc = "record"
               PROVE  \E n \in DOMAIN txs' : IsLast(d, n)' /\ txs'[n].i = walletCalls'[d].next
    BY DEF JustSent
  <2>1. CASE d = c
    <3>1. \A m \in DOMAIN txs' : m <= last
      BY <1>7 DEF last
    <3>2. PICK n \in DOMAIN txs' : n = last
      BY <1>7
    <3>3. IsLast(c, n)'
      BY <1>5, <1>7, <3>1, <3>2 DEF IsLast
    <3> QED  BY <1>2, <1>5, <1>6, <1>7, <2>1, <3>2, <3>3
  <2>2. CASE d # c
    <3>1. PICK n \in DOMAIN txs : IsLast(d, n) /\ txs[n].i = walletCalls[d].next
      BY WalletFacts, <1>6, <2>2 DEF JustSent
    <3>2. IsLast(d, n)'
      BY <1>5, <1>7, <2>2, <3>1 DEF IsLast
    <3> QED  BY <1>6, <1>7, <2>2, <3>1, <3>2
  <2> QED  BY <2>1, <2>2
<1>16. HashesFit'
  BY WalletFacts, <1>7 DEF HashesFit, HashFits, Same
<1>17. AllUnsaved'
  <2> SUFFICES ASSUME NEW r \in DOMAIN transactions PROVE Unsaved(r)'
    BY DEF AllUnsaved
  <2>1. Unsaved(r) /\ RecordFits(transactions[r]) /\ transactions[r].call \in WalletCalls
    BY WalletFacts DEF RecordsFit, WalletRecord, AllUnsaved
  <2>2. transactions[r].i \in Nat /\ walletCalls[transactions[r].call].next \in Nat
    BY WalletFacts, WalletCallFields, <2>1 DEF WalletRecord, Positions
  <2> QED  BY <1>2, <1>6, <2>1, <2>2 DEF Unsaved, Unfollowed, RecordFits, Tried, old
<1> QED  BY <1>8, <1>9, <1>10, <1>11, <1>12, <1>13, <1>14, <1>15, <1>16, <1>17 DEF WalletCore

\* A payment, or that it failed, is recorded; the loop goes on or, when the answer of the
\* save was lost, the call goes to its catch or throws.
LEMMA RecordCore ==
  ASSUME WalletCore, NEW c \in WalletCalls, NEW status, NEW tx,
         Wallets!Recorded(c, status, tx), walletCalls[c].op = "payout", UNCHANGED txs,
         \/ /\ walletCalls[c].pc = "record" /\ status = "PENDING"
            /\ tx \in DOMAIN txs /\ txs[tx].call = c /\ txs[tx].i = walletCalls[c].next
            /\ watchers' \in {watchers, watchers \cup {Len(transactions) + 1}}
         \/ /\ walletCalls[c].pc = "recordFailed" /\ status = "FAILED" /\ tx = 0
            /\ watchers' = watchers,
         \/ Wallets!NextRecipient(c)
         \/ /\ walletCalls[c].pc = "record" /\ watchers' = watchers
            /\ Wallets!Goto(c, "recordFailed")
         \/ Wallets!Goto(c, "thrown")
  PROVE  WalletCore'
<1> DEFINE old == walletCalls[c]
           ends == old.next = Len(old.todo)
           made == [call |-> c, i |-> old.next, status |-> status, tx |-> tx]
           last == Len(transactions) + 1
<1>1. /\ old \in WalletCall /\ walletCalls \in [WalletCalls -> WalletCall]
      /\ transactions \in Seq(WalletRecord)
      /\ old.next \in Nat /\ old.next # 0 /\ old.next <= Len(old.todo) /\ Len(old.todo) \in Nat
      /\ old.op = "payout" /\ old.pc \in {"record", "recordFailed"}
  BY WalletFacts, WalletCallFields DEF WalletCallsOK, WalletBooksOK
<1>2. PICK step, next :
         /\ walletCalls' = [walletCalls EXCEPT ![c] = [old EXCEPT !.pc = step, !.next = next]]
         /\ \/ ends /\ step = "done" /\ next = old.next
            \/ ~ends /\ step = "send" /\ next = old.next + 1
            \/ step = "thrown" /\ next = old.next
            \/ /\ step = "recordFailed" /\ next = old.next
               /\ old.pc = "record" /\ watchers' = watchers
  <2>1. CASE Wallets!NextRecipient(c)
    <3>1. CASE ends
      BY <1>1, <2>1, <3>1 DEF Wallets!NextRecipient
    <3>2. CASE ~ends
      BY <1>1, <2>1, <3>2 DEF Wallets!NextRecipient
    <3> QED  BY <3>1, <3>2
  <2>2. ASSUME NEW step, Wallets!Goto(c, step)
        PROVE  walletCalls' = [walletCalls EXCEPT ![c] = [old EXCEPT !.pc = step, !.next = old.next]]
    <3>1. [old EXCEPT !.pc = step] = [old EXCEPT !.pc = step, !.next = old.next]
      BY <1>1 DEF WalletCall
    <3> QED  BY <2>2, <3>1 DEF Wallets!Goto
  <2> QED  BY <2>1, <2>2
<1> DEFINE call == [old EXCEPT !.pc = step, !.next = next]
<1>3. /\ call \in WalletCall /\ call.op = "payout" /\ call.todo = old.todo
      /\ call.pc = step /\ call.next = next
  <2>1. next \in Positions /\ step \in Wallets!Steps
    BY <1>1, <1>2 DEF Positions, Wallets!Steps
  <2> QED  BY <1>1, <2>1 DEF WalletCall
<1>4. \/ call.pc = "done" /\ call.next = old.next
      \/ call.pc = "send" /\ call.next = old.next + 1 /\ call.next <= Len(old.todo)
      \/ call.pc = "thrown" /\ call.next = old.next
      \/ /\ call.pc = "recordFailed" /\ call.next = old.next
         /\ old.pc = "record" /\ watchers' = watchers
  BY <1>1, <1>2, <1>3
<1>5. /\ made \in WalletRecord /\ made.call = c /\ made.i = old.next /\ made.tx = tx
      /\ made.status = status /\ status # "CONFIRMED" /\ tx <= Len(txs)
  <2>1. txs \in Seq(WalletTx) /\ Len(txs) \in Nat
    BY WalletFacts DEF WalletBooksOK
  <2>2. tx \in Nat /\ tx <= Len(txs) /\ status \in {"PENDING", "FAILED"}
    BY <2>1
  <2> QED  BY <1>1, <2>2 DEF WalletRecord, WalletCall
<1>6. transactions' = Append(transactions, made)
  BY DEF Wallets!Recorded
<1>20. walletCalls' = [walletCalls EXCEPT ![c] = call]
  BY <1>2
<1> HIDE DEF call, made, old, ends
<1>7. \A d \in WalletCalls : walletCalls'[d] = IF d = c THEN call ELSE walletCalls[d]
  BY <1>1, <1>20
<1>8. /\ transactions' \in Seq(WalletRecord)
      /\ DOMAIN transactions' = DOMAIN transactions \cup {last}
      /\ transactions'[last] = made
      /\ \A r \in DOMAIN transactions : transactions'[r] = transactions[r] /\ r # last /\ r < last
  BY <1>1, <1>5, <1>6
<1> HIDE DEF last
\* What the call has left behind is what it had, or the current recipient, for which only
\* a record that nobody follows can be there already.
<1>9. \A i \in Positions :
        /\ Behind(call, i) => Behind(old, i) \/ i = old.next
        /\ Tried(old, i) \/ i = old.next => Tried(call, i)
  BY <1>1, <1>4 DEF Behind, Tried, Positions
<1>21. ASSUME NEW r \in DOMAIN transactions, Same(transactions[r], made)
       PROVE  Unfollowed(r) /\ old.pc = "recordFailed"
  <2>1. RecordFits(transactions[r]) /\ Unsaved(r)
    BY WalletFacts DEF RecordsFit, AllUnsaved
  <2>2. old.pc = "recordFailed"
    BY <1>1, <1>5, <1>21, <2>1 DEF RecordFits, Tried, Same, old
  <2> QED  BY <1>5, <1>21, <2>1, <2>2 DEF Unsaved, Same, old
<1>22. \A r \in DOMAIN transactions : Unfollowed(r) => Unfollowed(r)'
  BY <1>8 DEF Unfollowed, last
<1>10. WalletCallsOK'
  <2>1. call.next <= Len(call.todo)
    BY <1>1, <1>3, <1>4
  <2> QED  BY WalletFacts, <1>1, <1>20, <1>3, <1>7, <2>1 DEF WalletCallsOK
<1>11. WalletBooksOK'
  <2>1. \A r \in DOMAIN transactions' : transactions'[r].tx <= Len(txs)
    BY WalletFacts, <1>5, <1>8 DEF WalletBooksOK
  <2>2. watchers' \subseteq DOMAIN transactions'
    BY WalletFacts, <1>8 DEF WalletBooksOK, last
  <2>3. \A r \in watchers' : transactions'[r].tx \in DOMAIN txs
    BY WalletFacts, <1>5, <1>8 DEF WalletBooksOK, last
  <2> QED  BY WalletFacts, <1>8, <2>1, <2>2, <2>3 DEF WalletBooksOK
<1>12. TxsFit'
  <2> SUFFICES ASSUME NEW n \in DOMAIN txs PROVE TxFits(txs[n])'
    BY DEF TxsFit
  <2>1. TxFits(txs[n]) /\ txs[n].call \in WalletCalls /\ txs[n].i \in Nat
    BY WalletFacts DEF TxsFit, WalletTx, Positions
  <2>2. CASE txs[n].call = c
    <3>1. txs[n].i <= old.next
      BY <2>1, <2>2 DEF TxFits, old
    <3>2. \/ call.pc \in {"done", "thrown", "recordFailed"} /\ txs[n].i <= call.next
          \/ txs[n].i < call.next /\ txs[n].i # call.next /\ call.pc = "send"
      BY <1>1, <1>4, <2>1, <3>1
    <3>3. txs[n].i <= call.next
      BY <1>1, <1>4, <2>1, <3>1
    <3> QED  BY <1>3, <1>7, <2>2, <3>2, <3>3 DEF TxFits
  <2>3. CASE txs[n].call # c
    BY <1>7, <2>1, <2>3 DEF TxFits
  <2> QED  BY <2>2, <2>3
<1>13. RecordsFit'
  <2> SUFFICES ASSUME NEW r \in DOMAIN transactions' PROVE RecordFits(transactions[r])'
    BY DEF RecordsFit
  <2>0. call.pc # "new"
    BY <1>4
  <2>1. CASE r = last
    BY <1>1, <1>5, <1>7, <1>8, <1>9, <2>0, <2>1 DEF RecordFits, Positions
  <2>2. CASE r \in DOMAIN transactions
    <3>1. /\ RecordFits(transactions[r]) /\ transactions[r].call \in WalletCalls
          /\ transactions[r].i \in Positions
      BY WalletFacts, <2>2 DEF RecordsFit, WalletRecord
    <3>2. CASE transactions[r].call = c
      <4>0. Tried(old, transactions[r].i)
        BY <3>1, <3>2 DEF RecordFits, old
      <4>1. Tried(call, transactions[r].i)
        BY <1>9, <3>1, <4>0
      <4> QED  BY <1>7, <1>8, <2>0, <2>2, <3>1, <3>2, <4>1 DEF RecordFits
    <3>3. CASE transactions[r].call # c
      BY <1>7, <1>8, <2>2, <3>1, <3>3 DEF RecordFits
    <3> QED  BY <3>2, <3>3
  <2> QED  BY <1>8, <2>1, <2>2
<1>14. OnceSent'
  BY WalletFacts DEF OnceSent
<1>15. OnceRecorded'
  <2> SUFFICES ASSUME NEW r \in DOMAIN transactions', NEW q \in DOMAIN transactions', r < q,
                      Same(transactions[r], transactions[q])'
               PROVE  Twice(r, q)'
    BY DEF OnceRecorded
  <2>0. DOMAIN transactions' \subseteq Nat /\ r \in DOMAIN transactions
    BY <1>1, <1>8 DEF last
  <2>1. CASE q = last
    <3>1. Unfollowed(r) /\ old.pc = "recordFailed"
      BY <1>8, <1>21, <2>0, <2>1
    <3>2. Unfollowed(r)' /\ status = "FAILED" /\ tx = 0
      BY <1>22, <2>0, <3>1 DEF old
    <3> QED  BY <1>5, <1>8, <2>1, <3>2 DEF Twice
  <2>2. CASE q \in DOMAIN transactions
    <3>1. Twice(r, q)
      BY WalletFacts, <1>8, <2>0, <2>2 DEF OnceRecorded
    <3> QED  BY <1>8, <1>22, <2>0, <2>2, <3>1 DEF Twice
  <2> QED  BY <1>8, <2>1, <2>2
<1>16. AllRecorded'
  <2> SUFFICES ASSUME NEW d \in WalletCalls, NEW i \in Positions, walletCalls'[d].op = "payout",
                      Behind(walletCalls'[d], i)
               PROVE  HasRecord(d, i)'
    BY DEF AllRecorded
  <2>1. CASE d = c /\ i = old.next
    <3>1. last \in DOMAIN transactions' /\ transactions'[last].call = d /\ transactions'[last].i = i
      BY <1>5, <1>8, <2>1
    <3> QED  BY <3>1 DEF HasRecord
  <2>2. CASE ~(d = c /\ i = old.next)
    <3>0. ASSUME d = c PROVE walletCalls[d].op = "payout" /\ Behind(walletCalls[d], i)
      <4>1. Behind(call, i) /\ i # old.next
        BY <1>7, <2>2, <3>0
      <4>2. Behind(old, i)
        BY <1>9, <4>1
      <4> QED  BY <1>1, <3>0, <4>2 DEF old
    <3>1. walletCalls[d].op = "payout" /\ Behind(walletCalls[d], i)
      BY <1>7, <3>0
    <3>2. HasRecord(d, i)
      BY WalletFacts, <3>1 DEF AllRecorded
    <3> QED  BY <1>8, <3>2 DEF HasRecord
  <2> QED  BY <2>1, <2>2
<1>17. ConfirmedIsMined'
  BY WalletFacts, <1>5, <1>8 DEF ConfirmedIsMined
<1>18. JustSent'
  BY WalletFacts, <1>4, <1>7 DEF JustSent, IsLast
<1>23. HashesFit'
  <2> SUFFICES ASSUME NEW r \in DOMAIN transactions' PROVE HashFits(transactions[r])'
    BY DEF HashesFit
  <2>1. CASE r = last
    BY <1>5, <1>8, <2>1 DEF HashFits, Same, old
  <2>2. CASE r \in DOMAIN transactions
    BY WalletFacts, <1>8, <2>2 DEF HashesFit, HashFits
  <2> QED  BY <1>8, <2>1, <2>2
<1>24. AllUnsaved'
  <2> SUFFICES ASSUME NEW r \in DOMAIN transactions' PROVE Unsaved(r)'
    BY DEF AllUnsaved
  <2>1. CASE r = last
    <3>1. ASSUME call.pc = "recordFailed" PROVE Unfollowed(r)'
      <4>1. old.pc = "record" /\ watchers' = watchers
        BY <1>4, <3>1
      <4>2. status = "PENDING" /\ tx \in DOMAIN txs /\ txs \in Seq(WalletTx)
        BY WalletFacts, <4>1 DEF old, WalletBooksOK
      <4>3. last \notin watchers
        BY WalletFacts, <1>8 DEF WalletBooksOK
      <4> QED  BY <1>5, <1>8, <2>1, <4>1, <4>2, <4>3 DEF Unfollowed
    <3> QED  BY <1>5, <1>7, <1>8, <2>1, <3>1 DEF Unsaved
  <2>2. CASE r \in DOMAIN transactions
    <3>1. /\ RecordFits(transactions[r]) /\ transactions[r].call \in WalletCalls
          /\ Unsaved(r) /\ transactions[r].i \in Nat
      BY WalletFacts, <2>2 DEF RecordsFit, AllUnsaved, WalletRecord, Positions
    <3>2. CASE transactions[r].call = c
      <4>1. call.pc = "recordFailed" => transactions[r].i # call.next
        BY <1>1, <1>4, <3>1, <3>2 DEF RecordFits, Tried, old
      <4> QED  BY <1>7, <1>8, <2>2, <3>2, <4>1 DEF Unsaved
    <3>3. CASE transactions[r].call # c
      BY <1>7, <1>8, <1>22, <2>2, <3>1, <3>3 DEF Unsaved
    <3> QED  BY <3>2, <3>3
  <2> QED  BY <1>8, <2>1, <2>2
<1> QED  BY <1>10, <1>11, <1>12, <1>13, <1>14, <1>15, <1>16, <1>17, <1>18, <1>23, <1>24
     DEF WalletCore

\* The chain decides, and nothing that was decided is changed.
LEMMA MineCore ==
  ASSUME WalletCore, NEW n \in DOMAIN txs, NEW result \in {"ok", "reverted"}, txs[n].mined = "no",
         txs' = [txs EXCEPT ![n].mined = result], UNCHANGED <<walletCalls, transactions, watchers>>
  PROVE  WalletCore'
<1> DEFINE tx == [txs[n] EXCEPT !.mined = result]
<1>1. txs \in Seq(WalletTx) /\ txs[n] \in WalletTx
  BY WalletFacts DEF WalletBooksOK
<1>2. /\ tx \in WalletTx /\ tx.mined = result
      /\ tx.call = txs[n].call /\ tx.i = txs[n].i
  BY <1>1 DEF WalletTx
<1>3. txs' = [txs EXCEPT ![n] = tx]
  OBVIOUS
<1> HIDE DEF tx
<1>4. /\ txs' \in Seq(WalletTx) /\ DOMAIN txs' = DOMAIN txs /\ Len(txs') = Len(txs)
      /\ \A m \in DOMAIN txs : txs'[m] = IF m = n THEN tx ELSE txs[m]
  BY <1>1, <1>2, <1>3
<1>5. \A m \in DOMAIN txs : txs'[m].call = txs[m].call /\ txs'[m].i = txs[m].i
  BY <1>2, <1>4
<1>6. /\ WalletCallsOK' /\ WalletBooksOK' /\ RecordsFit' /\ OnceRecorded' /\ AllRecorded'
      /\ AllUnsaved'
  BY WalletFacts, <1>4 DEF WalletCallsOK, WalletBooksOK, RecordsFit, RecordFits, OnceRecorded,
     Twice, Unfollowed, AllRecorded, HasRecord, AllUnsaved, Unsaved
<1>7. TxsFit'
  <2> SUFFICES ASSUME NEW m \in DOMAIN txs PROVE TxFits(txs[m])'
    BY <1>4 DEF TxsFit
  <2>1. TxFits(txs[m])
    BY WalletFacts DEF TxsFit
  <2> QED  BY <1>5, <2>1 DEF TxFits
<1>8. OnceSent'
  BY WalletFacts, <1>4, <1>5 DEF OnceSent, Same
<1>9. ConfirmedIsMined'
  BY WalletFacts, <1>4 DEF ConfirmedIsMined
<1>10. JustSent'
  BY WalletFacts, <1>4, <1>5 DEF JustSent, IsLast
<1>11. HashesFit'
  BY WalletFacts, <1>4, <1>5 DEF HashesFit, HashFits, Same
<1> QED  BY <1>6, <1>7, <1>8, <1>9, <1>10, <1>11 DEF WalletCore

\* A record gets its outcome: CONFIRMED only when its transaction was mined.
LEMMA ConfirmCore ==
  ASSUME WalletCore, NEW r \in watchers, NEW status \in {"PENDING", "CONFIRMED", "FAILED"},
         status = "CONFIRMED" => \/ txs[transactions[r].tx].mined = "ok"
                                 \/ transactions[r].status = "CONFIRMED",
         transactions' = [transactions EXCEPT ![r].status = status],
         watchers' = watchers \ {r}, UNCHANGED <<walletCalls, txs>>
  PROVE  WalletCore'
<1> DEFINE made == [transactions[r] EXCEPT !.status = status]
<1>1. /\ transactions \in Seq(WalletRecord) /\ r \in DOMAIN transactions
      /\ transactions[r] \in WalletRecord
      /\ transactions[r].tx \in DOMAIN txs
  BY WalletFacts DEF WalletBooksOK
<1>2. /\ made \in WalletRecord /\ made.status = status /\ made.tx = transactions[r].tx
      /\ made.call = transactions[r].call /\ made.i = transactions[r].i
  BY <1>1 DEF WalletRecord
<1>3. transactions' = [transactions EXCEPT ![r] = made]
  OBVIOUS
<1> HIDE DEF made
<1>4. /\ transactions' \in Seq(WalletRecord) /\ DOMAIN transactions' = DOMAIN transactions
      /\ \A q \in DOMAIN transactions :
            transactions'[q] = IF q = r THEN made ELSE transactions[q]
  BY <1>1, <1>2, <1>3
<1>5. \A q \in DOMAIN transactions :
        /\ transactions'[q].call = transactions[q].call /\ transactions'[q].i = transactions[q].i
        /\ transactions'[q].tx = transactions[q].tx
  BY <1>2, <1>4
<1>6. WalletCallsOK' /\ TxsFit' /\ OnceSent' /\ JustSent'
  BY WalletFacts DEF WalletCallsOK, TxsFit, TxFits, OnceSent, JustSent, IsLast
<1>7. WalletBooksOK'
  BY WalletFacts, <1>4, <1>5 DEF WalletBooksOK
<1>8. RecordsFit'
  <2> SUFFICES ASSUME NEW q \in DOMAIN transactions PROVE RecordFits(transactions[q])'
    BY <1>4 DEF RecordsFit
  <2>1. RecordFits(transactions[q])
    BY WalletFacts DEF RecordsFit
  <2> QED  BY <1>5, <2>1 DEF RecordFits
<1>9. OnceRecorded'
  <2> SUFFICES ASSUME NEW q \in DOMAIN transactions, NEW p \in DOMAIN transactions, q < p,
                      Same(transactions[q], transactions[p])'
               PROVE  Twice(q, p)'
    BY <1>4 DEF OnceRecorded
  <2>1. Twice(q, p)
    BY WalletFacts, <1>5 DEF OnceRecorded, Same
  <2>2. q # r /\ p # r
    <3>1. txs \in Seq(WalletTx)
      BY WalletFacts DEF WalletBooksOK
    <3>2. transactions[r].tx # 0
      BY <1>1, <3>1
    <3> QED  BY <2>1, <3>2 DEF Twice, Unfollowed
  <2> QED  BY <1>4, <2>1, <2>2 DEF Twice, Unfollowed
<1>10. AllRecorded'
  BY WalletFacts, <1>4, <1>5 DEF AllRecorded, HasRecord
<1>11. ConfirmedIsMined'
  BY WalletFacts, <1>1, <1>2, <1>4 DEF ConfirmedIsMined
<1>12. HashesFit'
  BY WalletFacts, <1>4, <1>5 DEF HashesFit, HashFits, Same
<1>13. AllUnsaved'
  <2> SUFFICES ASSUME NEW q \in DOMAIN transactions PROVE Unsaved(q)'
    BY <1>4 DEF AllUnsaved
  <2>1. Unsaved(q)
    BY WalletFacts DEF AllUnsaved
  <2>2. CASE Unfollowed(q)
    BY <1>4, <1>5, <2>2 DEF Unsaved, Unfollowed
  <2>3. CASE ~Unfollowed(q)
    BY <1>5, <2>1, <2>3 DEF Unsaved
  <2> QED  BY <2>2, <2>3
<1> QED  BY <1>6, <1>7, <1>8, <1>9, <1>10, <1>11, <1>12, <1>13 DEF WalletCore

\* The process stops: running calls and watchers are gone.
LEMMA CrashCore ==
  ASSUME WalletCore, Wallets!Crash
  PROVE  WalletCore'
<1>1. /\ UNCHANGED <<txs, transactions>> /\ watchers' = {}
      /\ walletCalls' = [c \in WalletCalls |->
                          IF Wallets!Ended(c) THEN walletCalls[c]
                          ELSE [walletCalls[c] EXCEPT !.pc = "lost"]]
  BY DEF Wallets!Crash, Wallets!chain
<1>2. \A c \in WalletCalls :
        /\ walletCalls'[c] \in WalletCall /\ walletCalls'[c].op = walletCalls[c].op
        /\ walletCalls'[c].next = walletCalls[c].next
        /\ walletCalls'[c].todo = walletCalls[c].todo
        /\ walletCalls'[c].pc = IF Wallets!Ended(c) THEN walletCalls[c].pc ELSE "lost"
  <2> SUFFICES ASSUME NEW c \in WalletCalls
               PROVE  /\ walletCalls'[c] \in WalletCall /\ walletCalls'[c].op = walletCalls[c].op
                      /\ walletCalls'[c].next = walletCalls[c].next
                      /\ walletCalls'[c].todo = walletCalls[c].todo
                      /\ walletCalls'[c].pc = IF Wallets!Ended(c) THEN walletCalls[c].pc ELSE "lost"
    OBVIOUS
  <2>1. walletCalls[c] \in WalletCall
    BY WalletFacts
  <2>2. CASE Wallets!Ended(c)
    BY <1>1, <2>1, <2>2
  <2>3. CASE ~Wallets!Ended(c)
    BY <1>1, <2>1, <2>3 DEF WalletCall, Wallets!Steps
  <2> QED  BY <2>2, <2>3
<1>3. WalletCallsOK'
  BY WalletFacts, <1>1, <1>2 DEF WalletCallsOK, Wallets!Ended
<1>4. WalletBooksOK' /\ OnceSent' /\ OnceRecorded' /\ ConfirmedIsMined'
  BY WalletFacts, <1>1
     DEF WalletBooksOK, OnceSent, OnceRecorded, Twice, Unfollowed, ConfirmedIsMined
<1>5. TxsFit'
  <2> SUFFICES ASSUME NEW n \in DOMAIN txs PROVE TxFits(txs[n])'
    BY <1>1 DEF TxsFit
  <2>1. TxFits(txs[n]) /\ txs[n].call \in WalletCalls
    BY WalletFacts DEF TxsFit, WalletTx
  <2> QED  BY <1>1, <1>2, <2>1 DEF TxFits, Wallets!Ended
<1>6. RecordsFit'
  <2> SUFFICES ASSUME NEW r \in DOMAIN transactions PROVE RecordFits(transactions[r])'
    BY <1>1 DEF RecordsFit
  <2>1. RecordFits(transactions[r]) /\ transactions[r].call \in WalletCalls
    BY WalletFacts DEF RecordsFit, WalletRecord
  <2> QED  BY <1>1, <1>2, <2>1 DEF RecordFits, Tried, Wallets!Ended
<1>7. AllRecorded'
  BY WalletFacts, <1>1, <1>2 DEF AllRecorded, Behind, HasRecord
<1>8. JustSent'
  BY WalletFacts, <1>1, <1>2 DEF JustSent, IsLast, Wallets!Ended
<1>9. HashesFit'
  BY WalletFacts, <1>1 DEF HashesFit, HashFits
<1>10. AllUnsaved'
  <2> SUFFICES ASSUME NEW r \in DOMAIN transactions PROVE Unsaved(r)'
    BY <1>1 DEF AllUnsaved
  <2>1. transactions[r].call \in WalletCalls
    BY WalletFacts DEF WalletRecord
  <2> QED  BY <1>1, <1>2, <2>1 DEF Unsaved, Wallets!Ended
<1> QED  BY <1>3, <1>4, <1>5, <1>6, <1>7, <1>8, <1>9, <1>10 DEF WalletCore

-----------------------------------------------------------------------------
(* The steps.                                                                *)

LEMMA WalletsInit == Wallets!Init => WalletsInv
<1> SUFFICES ASSUME Wallets!Init PROVE WalletsInv
  OBVIOUS
<1>1. /\ walletCalls = [c \in WalletCalls |-> [op |-> "deposit", pc |-> "new", todo |-> <<>>,
                                               next |-> 1]]
      /\ txs = <<>> /\ transactions = <<>> /\ watchers = {}
  BY DEF Wallets!Init
<1>2. [op |-> "deposit", pc |-> "new", todo |-> <<>>, next |-> 1] \in WalletCall
  <2>1. <<>> \in Seq(Nat)
    OBVIOUS
  <2> QED  BY <2>1 DEF WalletCall, Wallets!Ops, Positions
<1>3. WalletCallsOK /\ WalletBooksOK
  BY <1>1, <1>2 DEF WalletCallsOK, WalletBooksOK
<1>4. /\ TxsFit /\ RecordsFit /\ OnceSent /\ OnceRecorded /\ AllRecorded /\ ConfirmedIsMined
      /\ JustSent /\ HashesFit /\ AllUnsaved
  BY <1>1 DEF HashesFit, AllUnsaved, TxsFit, RecordsFit, OnceSent, OnceRecorded, AllRecorded, ConfirmedIsMined, JustSent
<1>5. WalletRest
  <2>1. wallet = "none" /\ cached = FALSE /\ balance = 0 /\ funded = 0 /\ deposits = {}
    BY DEF Wallets!Init
  <2>2. cached \in BOOLEAN
    BY <2>1
  <2>3. balance \in Nat /\ funded \in Nat /\ balance <= funded
    BY <2>1
  <2> QED  BY <2>1, <2>2, <2>3 DEF WalletRest
<1> QED  BY <1>3, <1>4, <1>5 DEF WalletsInv, WalletCore

LEMMA PayStep ==
  ASSUME WalletsInv, NEW c \in WalletCalls,
         Wallets!sendTransaction(c) \/ Wallets!RecordSent(c) \/ Wallets!RecordFailed(c)
  PROVE  WalletsInv'
<1>1. WalletCore /\ WalletRest /\ txs \in Seq(WalletTx)
  BY WalletFacts DEF WalletsInv, WalletBooksOK
<1>2. WalletRest'
  BY <1>1 DEF WalletRest, Wallets!sendTransaction, Wallets!RecordSent, Wallets!RecordFailed,
     Wallets!chain, Wallets!books
<1>3. CASE Wallets!sendTransaction(c)
  <2>1. \/ \E step \in {"record", "recordFailed"} : Wallets!Goto(c, step)
           /\ txs' = Append(txs, [call |-> c, i |-> walletCalls[c].next,
                                  amount |-> walletCalls[c].todo[walletCalls[c].next],
                                  mined |-> "no"])
        \/ txs' = txs /\ Wallets!Goto(c, "recordFailed")
    BY <1>3 DEF Wallets!sendTransaction
  <2>2. Wallets!At(c, "payout", "send") /\ UNCHANGED <<transactions, watchers>>
    BY <1>3 DEF Wallets!sendTransaction, Wallets!books
  <2>3. ASSUME txs' = txs, Wallets!Goto(c, "recordFailed") PROVE WalletCore'
    BY <1>1, <2>2, <2>3, WalletMove DEF Wallets!At, Wallets!Ended, Wallets!Steps
  <2>4. WalletCore'
    BY <1>1, <2>1, <2>2, <2>3, SendCore
  <2> QED  BY <1>2, <2>4 DEF WalletsInv
<1>4. CASE Wallets!RecordSent(c)
  <2>1. walletCalls[c].pc = "record" /\ walletCalls[c].op = "payout" /\ UNCHANGED txs
    BY <1>4 DEF Wallets!RecordSent, Wallets!At, Wallets!chain
  <2>2. CASE /\ Wallets!Recorded(c, "PENDING", Wallets!LastTx(c))
             /\ \/ /\ Wallets!NextRecipient(c)
                   /\ watchers' = watchers \cup {Len(transactions) + 1}
                \/ watchers' = watchers /\ Wallets!Goto(c, "recordFailed")
    <3>1. PICK n \in DOMAIN txs : IsLast(c, n) /\ txs[n].i = walletCalls[c].next
      BY <1>1, <2>1, WalletFacts DEF JustSent
    <3>2. PICK tx : tx = Wallets!LastTx(c)
      OBVIOUS
    <3>3. IsLast(c, tx)
      BY <3>1, <3>2 DEF IsLast, Wallets!LastTx
    <3>4. tx = n
      <4>1. tx \in Nat /\ n \in Nat /\ tx <= n /\ n <= tx
        BY <1>1, <3>1, <3>3 DEF IsLast
      <4> QED  BY <4>1
    <3>5. Wallets!Recorded(c, "PENDING", tx)
      BY <2>2, <3>2
    <3>6. WalletCore'
      BY <1>1, <2>1, <2>2, <3>1, <3>3, <3>4, <3>5, RecordCore DEF IsLast
    <3> QED  BY <1>2, <3>6 DEF WalletsInv
  <2>3. CASE UNCHANGED <<transactions, watchers>> /\ Wallets!Goto(c, "recordFailed")
    <3>1. WalletCore'
      BY <1>1, <2>1, <2>3, WalletMove DEF Wallets!Ended, Wallets!Steps
    <3> QED  BY <1>2, <3>1 DEF WalletsInv
  <2> QED  BY <1>4, <2>2, <2>3 DEF Wallets!RecordSent
<1>5. CASE Wallets!RecordFailed(c)
  <2>1. /\ walletCalls[c].pc = "recordFailed" /\ walletCalls[c].op = "payout"
        /\ UNCHANGED <<txs, watchers>>
    BY <1>5 DEF Wallets!RecordFailed, Wallets!At, Wallets!chain
  <2>2. CASE /\ Wallets!Recorded(c, "FAILED", 0)
             /\ Wallets!NextRecipient(c) \/ Wallets!Goto(c, "thrown")
    <3>1. WalletCore'
      BY <1>1, <2>1, <2>2, RecordCore
    <3> QED  BY <1>2, <3>1 DEF WalletsInv
  <2>3. CASE UNCHANGED transactions /\ Wallets!Goto(c, "thrown")
    <3>1. WalletCore'
      BY <1>1, <2>1, <2>3, WalletMove DEF Wallets!Ended, Wallets!Steps
    <3> QED  BY <1>2, <3>1 DEF WalletsInv
  <2> QED  BY <1>5, <2>2, <2>3 DEF Wallets!RecordFailed
<1> QED  BY <1>3, <1>4, <1>5

\* The steps of a request up to its first payment.
LEMMA OtherStep ==
  ASSUME WalletsInv, NEW c \in WalletCalls,
         \/ Wallets!getWalletAddress(c) \/ Wallets!FindExisting(c)
           \/ Wallets!generateWallet(c) \/ Wallets!recordDeposit(c)
         \/ Wallets!deactivateWallet(c) \/ Wallets!loadWallet(c) \/ Wallets!CheckBalance(c)
  PROVE  WalletsInv'
<1>1. WalletCore /\ WalletRest
  BY DEF WalletsInv
<1>2. WalletRest'
  BY <1>1 DEF WalletRest, Wallets!getWalletAddress, Wallets!FindExisting, Wallets!generateWallet,
     Wallets!recordDeposit,
              Wallets!deactivateWallet, Wallets!loadWallet, Wallets!CheckBalance, Wallets!chain,
              Wallets!books
<1>3. UNCHANGED <<txs, transactions, watchers>>
  BY DEF Wallets!getWalletAddress, Wallets!FindExisting, Wallets!generateWallet,
         Wallets!recordDeposit, Wallets!deactivateWallet,
         Wallets!loadWallet, Wallets!CheckBalance, Wallets!chain, Wallets!books
<1>4. walletCalls[c].pc \in {"begin", "find", "found", "generate", "save", "balance"}
  BY DEF Wallets!getWalletAddress, Wallets!FindExisting, Wallets!generateWallet,
         Wallets!recordDeposit, Wallets!deactivateWallet,
         Wallets!loadWallet, Wallets!CheckBalance, Wallets!At
<1>5. PICK step \in {"find", "found", "generate", "save", "balance", "send", "done", "thrown"} :
        Wallets!Goto(c, step) /\ (step = "done" => walletCalls[c].op # "payout")
  BY DEF Wallets!getWalletAddress, Wallets!FindExisting, Wallets!generateWallet,
         Wallets!recordDeposit, Wallets!deactivateWallet,
         Wallets!loadWallet, Wallets!CheckBalance, Wallets!At
<1>6. WalletCore'
  BY <1>1, <1>3, <1>4, <1>5, WalletMove DEF Wallets!Ended, Wallets!Steps
<1> QED  BY <1>2, <1>6 DEF WalletsInv

LEMMA StatusRequestStep ==
  ASSUME PayoutsAreLists, WalletsInv, NEW c \in WalletCalls,
         \/ Wallets!Request(c, "deposit", <<>>) \/ Wallets!Request(c, "deactivate", <<>>)
         \/ \E todo \in Payouts : Wallets!Request(c, "payout", todo)
  PROVE  WalletsInv'
<1>1. PICK op \in Wallets!Ops, todo \in Payouts \cup {<<>>} :
        (op = "payout" => todo \in Payouts) /\ Wallets!Request(c, op, todo)
  BY DEF Wallets!Ops
<1>2. WalletCore /\ WalletRest
  BY DEF WalletsInv
<1>3. WalletCore'
  BY <1>1, <1>2, RequestCore
<1>4. WalletRest'
  BY <1>1, <1>2 DEF WalletRest, Wallets!Request, Wallets!chain, Wallets!books
<1> QED  BY <1>3, <1>4 DEF WalletsInv

LEMMA ConfirmStep ==
  ASSUME WalletsInv, NEW r \in DOMAIN transactions, Wallets!waitForConfirmation(r)
  PROVE  WalletsInv'
<1>1. WalletCore /\ WalletRest
  BY DEF WalletsInv
<1>2. /\ r \in watchers /\ watchers' = watchers \ {r} /\ UNCHANGED <<walletCalls, txs>>
      /\ transactions[r] \in WalletRecord /\ transactions \in Seq(WalletRecord)
  BY <1>1, WalletFacts DEF Wallets!waitForConfirmation, Wallets!chain, WalletBooksOK
<1>3. transactions = [transactions EXCEPT ![r].status = transactions[r].status]
  BY <1>2 DEF WalletRecord
<1>4. PICK status \in {"PENDING", "CONFIRMED", "FAILED"} :
        /\ transactions' = [transactions EXCEPT ![r].status = status]
        /\ status = "CONFIRMED" => \/ txs[transactions[r].tx].mined = "ok"
                                   \/ transactions[r].status = "CONFIRMED"
  <2>1. CASE transactions' = transactions
    BY <1>2, <1>3, <2>1, RecordFields DEF WalletRecord
  <2> QED  BY <2>1 DEF Wallets!waitForConfirmation
<1>5. WalletCore'
  BY <1>1, <1>2, <1>4, ConfirmCore
<1>6. WalletRest'
  BY <1>1 DEF WalletRest, Wallets!waitForConfirmation, Wallets!chain
<1> QED  BY <1>5, <1>6 DEF WalletsInv

LEMMA MineStep ==
  ASSUME WalletsInv, NEW n \in DOMAIN txs, Wallets!Mine(n)
  PROVE  WalletsInv'
<1>1. WalletCore /\ WalletRest
  BY DEF WalletsInv
<1>2. txs[n].mined = "no" /\ UNCHANGED <<walletCalls, transactions, watchers>>
  BY DEF Wallets!Mine, Wallets!books
<1>3. PICK result \in {"ok", "reverted"} : txs' = [txs EXCEPT ![n].mined = result]
  BY DEF Wallets!Mine
<1>4. WalletCore'
  BY <1>1, <1>2, <1>3, MineCore
<1>5. WalletRest'
  <2>1. txs[n].amount \in Nat /\ balance \in Nat /\ funded \in Nat /\ balance <= funded
    BY <1>1, WalletFacts DEF WalletTx, WalletRest
  <2>2. /\ balance' = balance \/ (balance >= txs[n].amount /\ balance' = balance - txs[n].amount)
        /\ UNCHANGED <<wallet, cached, funded, deposits>>
    BY DEF Wallets!Mine, Wallets!books
  <2>3. balance' \in Nat /\ balance' <= funded
    BY <2>1, <2>2
  <2> QED  BY <1>1, <2>2, <2>3 DEF WalletRest
<1> QED  BY <1>4, <1>5 DEF WalletsInv

LEMMA WalletsNext ==
  ASSUME PayoutsAreLists, WalletsInv, [Wallets!Next]_Wallets!vars
  PROVE  WalletsInv'
<1>1. WalletCore /\ WalletRest
  BY DEF WalletsInv
<1>2. CASE Wallets!ClearCache \/ UNCHANGED Wallets!vars
  <2>1. UNCHANGED <<walletCalls, txs, transactions, watchers>> /\ WalletRest'
    BY <1>1, <1>2 DEF Wallets!ClearCache, Wallets!vars, Wallets!chain, Wallets!books, WalletRest
  <2> QED  BY <1>1, <2>1, WalletSame DEF WalletsInv
<1>3. CASE Wallets!Fund
  <2>1. UNCHANGED <<walletCalls, txs, transactions, watchers>>
    BY <1>3 DEF Wallets!Fund, Wallets!books
  <2>2. WalletRest'
    BY <1>1, <1>3 DEF Wallets!Fund, Wallets!books, WalletRest
  <2> QED  BY <1>1, <2>1, <2>2, WalletSame DEF WalletsInv
<1>4. CASE Wallets!Crash
  <2>1. WalletRest'
    BY <1>1, <1>4 DEF Wallets!Crash, Wallets!chain, WalletRest
  <2> QED  BY <1>1, <1>4, <2>1, CrashCore DEF WalletsInv
<1> QED  BY <1>2, <1>3, <1>4, StatusRequestStep, OtherStep, PayStep, ConfirmStep, MineStep
         DEF Wallets!Next

-----------------------------------------------------------------------------
(* The theorems.                                                             *)

LEMMA WalletsSpec == ASSUME PayoutsAreLists PROVE Wallets!Spec => []WalletsInv
<1>1. Wallets!Init => WalletsInv
  BY WalletsInit
<1>2. WalletsInv /\ [Wallets!Next]_Wallets!vars => WalletsInv'
  BY WalletsNext
<1> QED  BY <1>1, <1>2, PTL DEF Wallets!Spec

\* Requests, transactions, records and the balance keep their types: above all, what
\* leaves the wallet is what was there.
THEOREM WalletsTypeCorrect == ASSUME PayoutsAreLists PROVE Wallets!Spec => []Wallets!TypeOK
<1>1. ASSUME WalletsInv PROVE Wallets!TypeOK
  <2>1. /\ \A c \in WalletCalls : walletCalls[c] \in WalletCall
        /\ \A n \in DOMAIN txs : txs[n] \in WalletTx
        /\ \A r \in DOMAIN transactions : transactions[r] \in WalletRecord
        /\ WalletBooksOK /\ WalletRest
    BY <1>1, WalletFacts DEF WalletsInv
  <2>2. \A r \in DOMAIN transactions : transactions[r].tx \in 0 .. Len(txs)
    <3> SUFFICES ASSUME NEW r \in DOMAIN transactions PROVE transactions[r].tx \in 0 .. Len(txs)
      OBVIOUS
    <3>1. txs \in Seq(WalletTx) /\ transactions[r].tx \in Nat /\ transactions[r].tx <= Len(txs)
      BY <2>1 DEF WalletBooksOK, WalletRecord
    <3>2. Len(txs) \in Nat
      BY <3>1
    <3> QED  BY <3>1, <3>2
  <2> QED  BY <2>1, <2>2 DEF Wallets!TypeOK, WalletBooksOK, WalletRest, WalletCall, WalletTx,
              WalletRecord
<1> QED  BY <1>1, WalletsSpec, PTL

LEMMA WalletPromises == ASSUME WalletsInv PROVE Wallets!EveryPaymentIsRecorded
<1>0. WalletCore
  BY DEF WalletsInv
<1>1. ASSUME NEW n \in DOMAIN txs,
             txs[n].i < walletCalls[txs[n].call].next \/ walletCalls[txs[n].call].pc = "done"
      PROVE  Wallets!RecordsOf(txs[n].call, txs[n].i) # {}
  <2>1. PICK c, i : c = txs[n].call /\ i = txs[n].i
    OBVIOUS
  <2>2. /\ c \in WalletCalls /\ i \in Positions /\ walletCalls[c] \in WalletCall /\ TxFits(txs[n])
    BY <1>0, <1>1, <2>1, WalletFacts DEF TxsFit, WalletTx
  <2>3. walletCalls[c].op = "payout" /\ Behind(walletCalls[c], i)
    BY <1>1, <2>1, <2>2, WalletCallFields DEF TxFits, Behind, Positions
  <2>4. HasRecord(c, i)
    BY <1>0, <2>2, <2>3, WalletFacts DEF AllRecorded
  <2> QED  BY <2>1, <2>4 DEF HasRecord, Wallets!RecordsOf
<1>2. ASSUME NEW n \in DOMAIN txs, NEW r \in Wallets!RecordsOf(txs[n].call, txs[n].i)
      PROVE  transactions[r].tx \in {0, n}
  <2>1. /\ r \in DOMAIN transactions /\ Same(txs[n], transactions[r])
        /\ HashFits(transactions[r])
    BY <1>0, <1>2, WalletFacts DEF Wallets!RecordsOf, Same, HashesFit
  <2> QED  BY <1>0, <2>1, WalletFacts DEF HashFits, OnceSent, Same
<1>3. ASSUME NEW n \in DOMAIN txs, NEW r \in Wallets!RecordsOf(txs[n].call, txs[n].i),
             NEW q \in Wallets!RecordsOf(txs[n].call, txs[n].i), r < q
      PROVE  Wallets!AnswerLost(r, q)
  <2>1. /\ r \in DOMAIN transactions /\ q \in DOMAIN transactions
        /\ Same(transactions[r], transactions[q])
    BY <1>3 DEF Wallets!RecordsOf, Same
  <2>2. Twice(r, q)
    BY <1>0, <1>3, <2>1, WalletFacts DEF OnceRecorded
  <2> QED  BY <2>2 DEF Twice, Unfollowed, Wallets!AnswerLost
<1> QED  BY <1>0, <1>1, <1>2, <1>3, WalletFacts
     DEF Wallets!EveryPaymentIsRecorded, OnceSent, Same, ConfirmedIsMined

\* Whatever saves fail, answers are lost and crashes occur, a payment that reached the
\* chain has a record once its request has left its recipient behind, and a second one
\* only where the first one's save was made and its answer lost; no recipient of a
\* request is sent two payments, and a confirmed payment was mined.
THEOREM PaymentsAreRecorded ==
  ASSUME PayoutsAreLists PROVE Wallets!Spec => []Wallets!EveryPaymentIsRecorded
BY WalletsSpec, WalletPromises, PTL


-----------------------------------------------------------------------------
(* WalletConnect.                                                            *)

TopicLimits == IsFiniteSet(TopicIds)

TopicTypes ==
    /\ session \in [TopicIds -> {Topics!None} \cup [expiry : Nat, accounts : AccountSets]]
    /\ topicTime \in Nat /\ used \subseteq TopicIds

\* A topic that is listed for the cleanup was opened once, so that it never comes again.
ListOK ==
    cleanup # Topics!Idle =>
        /\ cleanup \in Seq(TopicIds)
        /\ \A i \in DOMAIN cleanup : cleanup[i] \in used

TopicsInv ==
    /\ TopicTypes /\ ListOK
    /\ Topics!Active \subseteq used /\ (~enabled => Topics!Active = {})
    /\ Topics!OnlyExpiredAreCleaned

\* The list of a finite set has its elements and no others.
LEMMA TopicsListed ==
  ASSUME NEW S, S \subseteq TopicIds, TopicLimits
  PROVE  /\ Topics!SetToSeq(S) \in Seq(TopicIds)
         /\ \A i \in DOMAIN Topics!SetToSeq(S) : Topics!SetToSeq(S)[i] \in S
<1>1. IsFiniteSet(S)
  BY FS_Subset DEF TopicLimits
<1>2. PICK n : n = Cardinality(S) /\ n \in Nat /\ ExistsBijection(1 .. n, S)
  BY <1>1, FS_CardinalityType
<1>3. Topics!Cardinality(S) = n
  BY <1>2 DEF Topics!Cardinality, Cardinality
<1>4. \E f \in [1 .. n -> S] : Topics!IsInjective(f)
  <2>1. PICK f : f \in Bijection(1 .. n, S)
    BY <1>2 DEF ExistsBijection
  <2>2. f \in [1 .. n -> S] /\ \A a, b \in 1 .. n : f[a] = f[b] => a = b
    BY <2>1 DEF Bijection, Injection, IsInjective
  <2> QED  BY <2>2 DEF Topics!IsInjective
<1>5. Topics!SetToSeq(S) \in [1 .. n -> S]
  BY <1>3, <1>4 DEF Topics!SetToSeq
<1> QED  BY <1>2, <1>5

LEMMA TopicFields ==
  ASSUME TopicsInv, NEW t \in Topics!Active
  PROVE  t \in TopicIds /\ session[t] \in [expiry : Nat, accounts : AccountSets] /\ t \in used
BY DEF TopicsInv, TopicTypes, Topics!Active

\* A step that closes a session, or changes one that stays open to no earlier expiry,
\* keeps what is said of those the cleanup has listed.
LEMMA TopicStep ==
  ASSUME TopicsInv, NEW t \in TopicIds,
         NEW s \in {Topics!None} \cup [expiry : Nat, accounts : AccountSets],
         session' = [session EXCEPT ![t] = s], topicTime' = topicTime, enabled' = enabled,
         used' \subseteq TopicIds, used \subseteq used', s # Topics!None => t \in used' /\ enabled,
         cleanup' = cleanup, extended \subseteq extended',
         s # Topics!None => t \in extended' \/ t \notin used
                                  \/ (t \in Topics!Active /\ s.expiry = session[t].expiry)
  PROVE  TopicsInv'
<1>1. /\ session' \in [TopicIds -> {Topics!None} \cup [expiry : Nat, accounts : AccountSets]]
      /\ session'[t] = s /\ \A x \in TopicIds \ {t} : session'[x] = session[x]
  BY DEF TopicsInv, TopicTypes
<1>2. Topics!Active' = {x \in TopicIds : session'[x] # Topics!None}
  BY DEF Topics!Active
<1>3. Topics!Active' \subseteq used' /\ (~enabled' => Topics!Active' = {})
  BY <1>1, <1>2 DEF TopicsInv, Topics!Active
<1>4. Topics!OnlyExpiredAreCleaned'
  <2> SUFFICES ASSUME cleanup # Topics!Idle, NEW i \in DOMAIN cleanup,
                      cleanup[i] \in Topics!Active'
               PROVE  session'[cleanup[i]].expiry <= topicTime \/ cleanup[i] \in extended'
    BY DEF Topics!OnlyExpiredAreCleaned
  <2>1. cleanup[i] \in used
    BY DEF TopicsInv, ListOK
  <2>2. CASE cleanup[i] # t
    BY <1>1, <1>2, <2>1, <2>2 DEF TopicsInv, Topics!OnlyExpiredAreCleaned, Topics!Active
  <2>3. CASE cleanup[i] = t
    BY <1>1, <1>2, <2>1, <2>3 DEF TopicsInv, Topics!OnlyExpiredAreCleaned
  <2> QED  BY <2>2, <2>3
<1> QED  BY <1>1, <1>3, <1>4 DEF TopicsInv, TopicTypes, ListOK

LEMMA TopicsInit == Topics!Init => TopicsInv
BY DEF Topics!Init, TopicsInv, TopicTypes, ListOK, Topics!Active, Topics!Idle,
       Topics!OnlyExpiredAreCleaned

LEMMA WalletsStep ==
  ASSUME TopicsInv, NEW t \in TopicIds, NEW accounts \in AccountSets,
         \/ Topics!Settled(t, accounts) \/ Topics!Updated(t, accounts)
         \/ Topics!Extended(t) \/ Topics!DeletedByPeer(t)
  PROVE  TopicsInv'
<1>1. topicTime \in Nat
        /\ session \in [TopicIds -> {Topics!None} \cup [expiry : Nat, accounts : AccountSets]]
  BY DEF TopicsInv, TopicTypes
<1>2. CASE Topics!Settled(t, accounts)
  <2>1. [expiry |-> topicTime + 1, accounts |-> accounts] \in [expiry : Nat, accounts : AccountSets]
    BY <1>1
  <2> QED  BY <1>2, <2>1, TopicStep DEF Topics!Settled, TopicsInv, TopicTypes
<1>3. CASE Topics!Updated(t, accounts)
  <2> DEFINE s == [session[t] EXCEPT !.accounts = accounts]
  <2>1. t \in Topics!Active /\ session[t] \in [expiry : Nat, accounts : AccountSets]
          /\ t \in used /\ enabled
    BY <1>3, TopicFields DEF Topics!Updated, TopicsInv
  <2>2. s \in [expiry : Nat, accounts : AccountSets] /\ s.expiry = session[t].expiry
    BY <2>1
  <2>3. session' = [session EXCEPT ![t] = s]
    BY <1>3 DEF Topics!Updated
  <2> HIDE DEF s
  <2> QED  BY <1>3, <2>1, <2>2, <2>3, TopicStep DEF Topics!Updated, TopicsInv, TopicTypes
<1>4. CASE Topics!Extended(t)
  <2> DEFINE s == [session[t] EXCEPT !.expiry = topicTime + 1]
  <2>1. t \in Topics!Active /\ session[t] \in [expiry : Nat, accounts : AccountSets]
          /\ t \in used /\ enabled
    BY <1>4, TopicFields DEF Topics!Extended, TopicsInv
  <2>2. s \in [expiry : Nat, accounts : AccountSets]
    BY <1>1, <2>1
  <2>3. session' = [session EXCEPT ![t] = s]
    BY <1>4 DEF Topics!Extended
  <2> HIDE DEF s
  <2> QED  BY <1>4, <2>1, <2>2, <2>3, TopicStep DEF Topics!Extended, TopicsInv, TopicTypes
<1>5. CASE Topics!DeletedByPeer(t)
  BY <1>5, TopicStep DEF Topics!DeletedByPeer, Topics!Removed, TopicsInv, TopicTypes
<1> QED  BY <1>2, <1>3, <1>4, <1>5

LEMMA TopicDisconnectStep ==
  ASSUME TopicsInv, NEW t \in TopicIds, Topics!DisconnectSession(t) \/ Topics!Disconnected(t)
  PROVE  TopicsInv'
<1>1. CASE UNCHANGED session
  BY <1>1 DEF Topics!DisconnectSession, Topics!Disconnected, TopicsInv, TopicTypes, ListOK,
              Topics!Active, Topics!OnlyExpiredAreCleaned
<1>2. CASE Topics!Disconnected(t) /\ Topics!Removed(t)
  BY <1>2, TopicStep DEF Topics!Disconnected, Topics!Removed, TopicsInv, TopicTypes
<1> QED  BY <1>1, <1>2 DEF Topics!DisconnectSession, Topics!Disconnected

LEMMA CleanupBegins ==
  ASSUME TopicsInv, TopicLimits, Topics!CleanupExpiredSessions PROVE TopicsInv'
<1> DEFINE S == {t \in Topics!Active : Topics!HasExpired(session[t].expiry)}
<1>1. S \subseteq TopicIds /\ S \subseteq used /\ cleanup' = Topics!SetToSeq(S)
  BY DEF Topics!CleanupExpiredSessions, TopicsInv, Topics!Active
<1>2. \A t \in S : session[t].expiry <= topicTime
  BY DEF Topics!HasExpired
<1> HIDE DEF S
<1>3. cleanup' \in Seq(TopicIds) /\ \A i \in DOMAIN cleanup' : cleanup'[i] \in S
  BY <1>1, TopicsListed
<1>4. UNCHANGED <<enabled, session, used, topicTime>>
  BY DEF Topics!CleanupExpiredSessions
<1>5. ListOK' /\ Topics!OnlyExpiredAreCleaned'
  BY <1>1, <1>2, <1>3, <1>4 DEF ListOK, Topics!OnlyExpiredAreCleaned
<1> QED  BY <1>4, <1>5 DEF TopicsInv, TopicTypes, Topics!Active

LEMMA TopicCleanupStep ==
  ASSUME TopicsInv, Topics!CleanupDisconnects \/ Topics!CleanupEnds PROVE TopicsInv'
<1>1. CASE Topics!CleanupEnds
  BY <1>1 DEF Topics!CleanupEnds, TopicsInv, TopicTypes, ListOK, Topics!Active,
              Topics!OnlyExpiredAreCleaned
<1>2. CASE Topics!CleanupDisconnects
  <2>1. /\ cleanup \in Seq(TopicIds) /\ cleanup # <<>> /\ cleanup' = Tail(cleanup)
        /\ cleanup # Topics!Idle
    BY <1>2 DEF Topics!CleanupDisconnects, TopicsInv, ListOK
  <2>2. /\ cleanup' \in Seq(TopicIds) /\ Head(cleanup) \in TopicIds
        /\ \A i \in DOMAIN cleanup' : i + 1 \in DOMAIN cleanup /\ cleanup'[i] = cleanup[i + 1]
    BY <2>1
  <2>3. UNCHANGED <<enabled, used, extended, topicTime>>
    BY <1>2 DEF Topics!CleanupDisconnects
  <2>4. /\ session' \in [TopicIds -> {Topics!None} \cup [expiry : Nat, accounts : AccountSets]]
        /\ \A t \in TopicIds : session'[t] \in {Topics!None, session[t]}
    BY <1>2, <2>2 DEF Topics!CleanupDisconnects, Topics!Removed, TopicsInv, TopicTypes
  <2>5. \A t \in Topics!Active' : t \in Topics!Active /\ session'[t] = session[t]
    BY <2>4 DEF Topics!Active
  <2>6. ListOK'
    BY <2>1, <2>2, <2>3 DEF TopicsInv, ListOK
  <2>7. Topics!OnlyExpiredAreCleaned'
    BY <2>1, <2>2, <2>3, <2>5 DEF TopicsInv, Topics!OnlyExpiredAreCleaned
  <2> QED  BY <2>3, <2>4, <2>5, <2>6, <2>7 DEF TopicsInv, TopicTypes
<1> QED  BY <1>1, <1>2

LEMMA TopicsNext ==
  ASSUME TopicLimits, TopicsInv, [Topics!Next]_(Topics!vars) PROVE TopicsInv'
<1>1. CASE \E t \in TopicIds, accounts \in AccountSets :
              Topics!Settled(t, accounts) \/ Topics!Updated(t, accounts)
  BY <1>1, WalletsStep
<1>2. ASSUME NEW t \in TopicIds, Topics!Extended(t) \/ Topics!DeletedByPeer(t) PROVE TopicsInv'
  <2>1. t \in Topics!Active
    BY <1>2 DEF Topics!Extended, Topics!DeletedByPeer
  <2>2. session[t].accounts \in AccountSets
    BY <2>1, TopicFields
  <2> QED  BY <1>2, <2>2, WalletsStep
<1>3. CASE \E t \in TopicIds : Topics!DisconnectSession(t) \/ Topics!Disconnected(t)
  BY <1>3, TopicDisconnectStep
<1>4. CASE Topics!Tick
  <2>1. /\ topicTime' = topicTime + 1 /\ topicTime \in Nat
        /\ UNCHANGED <<enabled, session, used, cleanup, extended>>
    BY <1>4 DEF Topics!Tick, TopicsInv, TopicTypes
  <2>2. Topics!Active' = Topics!Active
    BY <2>1 DEF Topics!Active
  <2>3. Topics!OnlyExpiredAreCleaned'
    <3> SUFFICES ASSUME cleanup # Topics!Idle, NEW i \in DOMAIN cleanup,
                        cleanup[i] \in Topics!Active
                 PROVE  session[cleanup[i]].expiry <= topicTime + 1 \/ cleanup[i] \in extended
      BY <2>1, <2>2 DEF Topics!OnlyExpiredAreCleaned
    <3>1. session[cleanup[i]].expiry <= topicTime \/ cleanup[i] \in extended
      BY DEF TopicsInv, Topics!OnlyExpiredAreCleaned
    <3>2. session[cleanup[i]].expiry \in Nat
      BY TopicFields
    <3> QED  BY <2>1, <3>1, <3>2
  <2> QED  BY <2>1, <2>2, <2>3 DEF TopicsInv, TopicTypes, ListOK
<1>5. CASE UNCHANGED Topics!vars
  BY <1>5 DEF Topics!vars, TopicsInv, TopicTypes, ListOK, Topics!Active,
              Topics!OnlyExpiredAreCleaned
<1> QED  BY <1>1, <1>2, <1>3, <1>4, <1>5, CleanupBegins, TopicCleanupStep DEF Topics!Next

LEMMA TopicsSpec == ASSUME TopicLimits PROVE Topics!Spec => []TopicsInv
<1>1. Topics!Init => TopicsInv
  BY TopicsInit
<1>2. TopicsInv /\ [Topics!Next]_(Topics!vars) => TopicsInv'
  BY TopicsNext
<1> QED  BY <1>1, <1>2, PTL DEF Topics!Spec

LEMMA TopicsCount ==
  ASSUME NEW S \in SUBSET TopicIds, NEW T \in SUBSET S, TopicLimits
  PROVE  /\ Topics!Cardinality(T) \in Nat /\ Topics!Cardinality(S) \in Nat
         /\ Topics!Cardinality(T) <= Topics!Cardinality(S)
         /\ Topics!Cardinality(T) + Topics!Cardinality(S \ T) = Topics!Cardinality(S)
         /\ T # {} => Topics!Cardinality(T) # 0
<1>1. \A X : Topics!Cardinality(X) = Cardinality(X)
  BY DEF Topics!Cardinality, Cardinality
<1>2. IsFiniteSet(S)
  BY FS_Subset DEF TopicLimits
<1>3. IsFiniteSet(T) /\ IsFiniteSet(S \ T) /\ Cardinality(T) <= Cardinality(S)
  <2>1. S \ T \in SUBSET S
    OBVIOUS
  <2> QED  BY <1>2, <2>1, FS_Subset
<1>4. Cardinality(T) \in Nat /\ Cardinality(S) \in Nat /\ Cardinality(S \ T) \in Nat
  BY <1>2, <1>3, FS_CardinalityType
<1>5. T # {} => Cardinality(T) # 0
  BY <1>3, FS_EmptySet
<1>6. Cardinality(T \cup (S \ T)) =
          Cardinality(T) + Cardinality(S \ T) - Cardinality(T \cap (S \ T))
  BY <1>3, FS_Union
<1>7. T \cup (S \ T) = S /\ T \cap (S \ T) = {} /\ Cardinality({}) = 0
  BY FS_EmptySet
<1>8. Cardinality(T) + Cardinality(S \ T) = Cardinality(S)
  <2>1. Cardinality(S) = Cardinality(T) + Cardinality(S \ T) - Cardinality({})
    BY <1>6, <1>7, Zenon
  <2> QED  BY <1>4, <1>7, <2>1
<1> QED  BY <1>1, <1>3, <1>4, <1>5, <1>8

LEMMA CountsAgree ==
  ASSUME TopicLimits, TopicsInv PROVE Topics!StatsAgree
<1> DEFINE Gone == {t \in Topics!Active : session[t].expiry <= topicTime}
           Live == {t \in Topics!Active : session[t].expiry > topicTime}
           Held == {t \in TopicIds : Topics!getSession(t) # {}}
           Names == UNION {{c[1] : c \in session[t].accounts} : t \in Topics!Active}
           OfName(n) == {t \in Topics!Active : \E c \in session[t].accounts : c[1] = n}
<1>1. Topics!Active \in SUBSET TopicIds /\ Gone \in SUBSET Topics!Active
  BY DEF Topics!Active
<1>2. Live = Topics!Active \ Gone
  BY TopicFields DEF TopicsInv, TopicTypes
<1>3. Held = Topics!Active
  BY DEF Topics!getSession, TopicsInv, Topics!Active
<1>4. {t \in Topics!Active : Topics!HasExpired(session[t].expiry)} = Gone
  BY DEF Topics!HasExpired
<1>5. ASSUME NEW n \in Names PROVE OfName(n) \in SUBSET Topics!Active /\ OfName(n) # {}
  OBVIOUS
<1>6. /\ Topics!SessionStats.total = Topics!Cardinality(Topics!Active)
      /\ Topics!SessionStats.active = Topics!Cardinality(Live)
      /\ Topics!SessionStats.expired = Topics!Cardinality(Gone)
      /\ DOMAIN Topics!SessionStats.byNamespace = Names
      /\ \A n \in Names : Topics!SessionStats.byNamespace[n] = Topics!Cardinality(OfName(n))
  BY DEF Topics!SessionStats
<1> HIDE DEF Gone, Live, Held, Names, OfName
<1>7. /\ Topics!Cardinality(Gone) \in Nat /\ Topics!Cardinality(Topics!Active) \in Nat
      /\ Topics!Cardinality(Gone) + Topics!Cardinality(Live) = Topics!Cardinality(Topics!Active)
  BY <1>1, <1>2, TopicsCount
<1>8. Topics!Cardinality(Live) \in Nat
  BY <1>1, <1>2, TopicsCount
<1>9. ASSUME NEW n \in Names
      PROVE  Topics!Cardinality(OfName(n)) \in 1 .. Topics!Cardinality(Topics!Active)
  <2>1. PICK T : T = OfName(n)
    OBVIOUS
  <2>2. T \in SUBSET Topics!Active /\ T # {}
    BY <1>5, <2>1
  <2>3. /\ Topics!Cardinality(T) \in Nat /\ Topics!Cardinality(Topics!Active) \in Nat
        /\ Topics!Cardinality(T) <= Topics!Cardinality(Topics!Active)
        /\ Topics!Cardinality(T) # 0
    BY <1>1, <2>2, TopicsCount
  <2>4. Topics!Cardinality(T) \in 1 .. Topics!Cardinality(Topics!Active)
    BY <2>3
  <2> QED  BY <2>1, <2>4
<1>10. Topics!SessionStats.expired =
         Topics!Cardinality({t \in Topics!Active : Topics!HasExpired(session[t].expiry)})
  BY <1>4, <1>6
<1>11. Topics!SessionStats.active + Topics!SessionStats.expired = Topics!SessionStats.total
  BY <1>6, <1>7, <1>8
<1>12. Topics!SessionStats.total =
         Topics!Cardinality({t \in TopicIds : Topics!getSession(t) # {}})
  BY <1>3, <1>6 DEF Held
<1>13. \A n \in DOMAIN Topics!SessionStats.byNamespace :
          Topics!SessionStats.byNamespace[n] \in 1 .. Topics!SessionStats.total
  BY <1>6, <1>9
<1> QED  BY <1>10, <1>11, <1>12, <1>13 DEF Topics!StatsAgree

\* However wallets open, extend and close sessions while a clean-up works on the list it
\* read before, it disconnects only what has expired or was extended since; both ways to
\* ask for the sessions of an Ethereum address find the same; and the statistics add up.
THEOREM WalletSessionsStayRight ==
  ASSUME TopicLimits PROVE Topics!Spec => []WalletSessionsAreRight
<1>1. Topics!AddressChecksAgree
  BY DEF Topics!AddressChecksAgree, Topics!SessionsByAddress, Topics!VerifySession,
         Topics!AddressesFromSession, Topics!Active
<1>2. TopicsInv => WalletSessionsAreRight
  BY <1>1, CountsAgree DEF TopicsInv, WalletSessionsAreRight
<1> QED  BY <1>2, TopicsSpec, PTL

-----------------------------------------------------------------------------
(* ContractService.                                                          *)

ContractLimits == confirmations \in Nat /\ MaxBlock \in Nat

ChainTypes ==
    /\ contractConfig \in {"none", "read", "write"} /\ chainBlock \in Nat
    /\ chainTx \in [status : {"none", "pending", "success", "failed"}, at : Nat]
    /\ chainTx.at <= chainBlock
Mined == {"success", "failed"}

\* What the sender knows of its transaction.
SenderOK ==
    /\ contractCall \in {"idle", "skipped", "sending", "waiting", "success", "failure"}
    /\ contractCall \in {"idle", "sending", "skipped"} => chainTx.status = "none"
    /\ contractCall = "waiting" => chainTx.status # "none"
    /\ contractCall = "success" => chainTx.status = "success"
    /\ contractCall = "failure" /\ ~txLost => chainTx.status \in {"none", "failed"}

WaitOK ==
    txWait = "confirmed" =>
        chainTx.status \in Mined /\ chainBlock - chainTx.at + 1 >= confirmations

Asked ==
    [step : {"idle", "known", "unknown", "receipt", "done"}, status : {"pending"} \cup Mined,
     at : Nat, confirmations : Nat]

\* A call of getTransactionStatus: what it has read is final or pending, and it was final
\* before if the call began after a wait was over.
StatusOK ==
    /\ txStatus \in Asked /\ txStatus.at <= chainBlock
    /\ txWaited => txWait = "confirmed"
    /\ txStatus.step = "known" => chainTx.status # "none"
    /\ txStatus.step \in {"receipt", "done"} =>
         /\ txStatus.status # "pending" =>
              txStatus.status = chainTx.status /\ txStatus.at = chainTx.at
         /\ txWaited => txStatus.status # "pending"
    /\ txStatus.step = "done" =>
         /\ txStatus.confirmations <= chainBlock - txStatus.at
         /\ txWaited => txStatus.confirmations >= confirmations - 1

ReportsInv == ChainTypes /\ SenderOK /\ WaitOK /\ StatusOK

LEMMA ReportsInit == ASSUME ContractLimits, Contract!Init PROVE ReportsInv
BY DEF Contract!Init, Contract!NotAsked, ReportsInv, ChainTypes, SenderOK, WaitOK, StatusOK,
       Asked, Mined

LEMMA MineStepOfChain ==
  ASSUME ContractLimits, ReportsInv, Contract!Mine PROVE ReportsInv'
<1>1. /\ chainBlock \in Nat /\ chainBlock' = chainBlock + 1
      /\ UNCHANGED <<contractConfig, contractCall, txLost, txStatus, txWait, txWaited>>
      /\ chainTx \in [status : {"none", "pending", "success", "failed"}, at : Nat]
      /\ chainTx.at <= chainBlock
  BY DEF Contract!Mine, Contract!sender, Contract!readers, ReportsInv, ChainTypes
<1>2. \/ chainTx' = chainTx
      \/ /\ chainTx.status = "pending" /\ chainTx'.status \in Mined /\ chainTx'.at = chainBlock'
         /\ chainTx' \in [status : {"none", "pending", "success", "failed"}, at : Nat]
  BY <1>1 DEF Contract!Mine, Mined
<1>3. ChainTypes'
  BY <1>1, <1>2 DEF ChainTypes, ReportsInv
<1>4. SenderOK'
  BY <1>1, <1>2 DEF SenderOK, ReportsInv, Mined
<1>5. WaitOK'
  BY <1>1, <1>2 DEF WaitOK, ReportsInv, Mined, ContractLimits
<1>6. StatusOK'
  BY <1>1, <1>2 DEF StatusOK, Asked, ReportsInv, Mined, ContractLimits
<1> QED  BY <1>3, <1>4, <1>5, <1>6 DEF ReportsInv

LEMMA SenderStep ==
  ASSUME ReportsInv,
         \/ Contract!createEvent \/ Contract!fundEvent \/ Contract!sendRawTransaction
         \/ Contract!Sent \/ Contract!Receipt
  PROVE  ReportsInv'
<1>1. UNCHANGED <<contractConfig, chainBlock, txStatus, txWait, txWaited>>
  BY DEF Contract!createEvent, Contract!fundEvent, Contract!sendRawTransaction, Contract!Begin,
         Contract!Sent, Contract!Receipt, Contract!Broadcast, Contract!chain, Contract!readers
<1>2. CASE contractCall = "idle" /\ chainTx' = chainTx /\ txLost' = txLost
           /\ contractCall' \in {"sending", "failure", "skipped"}
  BY <1>1, <1>2 DEF ReportsInv, ChainTypes, SenderOK, WaitOK, StatusOK
<1>3. CASE /\ contractCall = "sending" /\ chainTx' = [chainTx EXCEPT !.status = "pending"]
           /\ contractCall' = "waiting" \/ (contractCall' = "failure" /\ txLost')
  <2>1. /\ chainTx.status = "none" /\ chainTx'.status = "pending" /\ chainTx'.at = chainTx.at
        /\ chainTx' \in [status : {"none", "pending", "success", "failed"}, at : Nat]
    BY <1>3 DEF ReportsInv, ChainTypes, SenderOK
  <2>2. ChainTypes' /\ SenderOK'
    BY <1>1, <1>3, <2>1 DEF ReportsInv, ChainTypes, SenderOK
  <2>3. WaitOK' /\ StatusOK'
    BY <1>1, <2>1 DEF ReportsInv, WaitOK, StatusOK, Asked, Mined
  <2> QED  BY <2>2, <2>3 DEF ReportsInv
<1>4. CASE contractCall = "sending" /\ chainTx' = chainTx /\ txLost' = txLost
           /\ contractCall' = "failure"
  BY <1>1, <1>4 DEF ReportsInv, ChainTypes, SenderOK, WaitOK, StatusOK
<1>5. CASE Contract!Receipt
  <2>1. chainTx' = chainTx
    BY <1>5 DEF Contract!Receipt, Contract!chain
  <2>2. SenderOK'
    BY <1>5, <2>1 DEF Contract!Receipt, ReportsInv, SenderOK
  <2> QED  BY <1>1, <2>1, <2>2 DEF ReportsInv, ChainTypes, WaitOK, StatusOK
<1>6. CASE Contract!createEvent \/ Contract!fundEvent \/ Contract!sendRawTransaction
  BY <1>2, <1>6 DEF Contract!createEvent, Contract!fundEvent, Contract!sendRawTransaction,
        Contract!Begin, Contract!Signed, Contract!chain
<1>7. CASE Contract!Sent
  BY <1>3, <1>4, <1>7 DEF Contract!Sent, Contract!Broadcast, Contract!chain
<1> QED  BY <1>5, <1>6, <1>7

LEMMA StatusStep ==
  ASSUME ContractLimits, ReportsInv,
         \/ Contract!GetTransaction \/ Contract!GetTransactionReceipt \/ Contract!GetBlockNumber
         \/ Contract!StatusAgain
  PROVE  ReportsInv'
<1>1. UNCHANGED <<contractConfig, chainBlock, chainTx, contractCall, txLost, txWait>>
  BY DEF Contract!GetTransaction, Contract!GetTransactionReceipt, Contract!GetBlockNumber,
         Contract!StatusAgain, Contract!chain, Contract!sender
<1>2. /\ chainBlock \in Nat /\ txStatus \in Asked /\ chainTx.at \in Nat /\ chainTx.at <= chainBlock
      /\ chainTx.status \in {"none", "pending"} \cup Mined
  BY DEF ReportsInv, ChainTypes, StatusOK, Mined
<1>3. CASE Contract!GetTransaction
  <2>1. /\ txStatus' \in Asked /\ txStatus'.at = txStatus.at
        /\ txStatus'.step = IF chainTx.status = "none" THEN "unknown" ELSE "known"
    BY <1>2, <1>3 DEF Contract!GetTransaction, Asked
  <2>2. txWaited' => txWait = "confirmed"
    BY <1>3 DEF Contract!GetTransaction
  <2>3. StatusOK'
    BY <1>1, <2>1, <2>2 DEF ReportsInv, StatusOK
  <2> QED  BY <1>1, <2>3 DEF ReportsInv, ChainTypes, SenderOK, WaitOK
<1>4. CASE Contract!GetTransactionReceipt
  <2> DEFINE s == chainTx.status
             k == [step |-> "receipt", status |-> s, at |-> chainTx.at,
                   confirmations |-> txStatus.confirmations]
  <2>1. chainTx.status # "none"
    BY <1>4 DEF Contract!GetTransactionReceipt, ReportsInv, StatusOK
  <2>2. txStatus' = k
    BY <1>2, <1>4 DEF Contract!GetTransactionReceipt, Asked
  <2>3. txStatus' \in Asked /\ txStatus'.step = "receipt" /\ txStatus'.status = chainTx.status
        /\ txStatus'.at = chainTx.at
    BY <1>2, <2>1, <2>2 DEF Asked
  <2>4. txWaited' = txWaited
    BY <1>4 DEF Contract!GetTransactionReceipt
  <2>5. StatusOK'
    BY <1>1, <1>2, <2>1, <2>3, <2>4 DEF ReportsInv, StatusOK, WaitOK, Mined
  <2> QED  BY <1>1, <2>5 DEF ReportsInv, ChainTypes, SenderOK, WaitOK
<1>5. CASE Contract!GetBlockNumber
  <2> DEFINE n == IF txStatus.status = "pending" THEN 0 ELSE chainBlock - txStatus.at
             k == [step |-> "done", status |-> txStatus.status, at |-> txStatus.at,
                   confirmations |-> n]
  <2>1. txStatus.step = "receipt" /\ txStatus' = k /\ txWaited' = txWaited
    BY <1>2, <1>5 DEF Contract!GetBlockNumber, Asked
  <2>2. n \in Nat /\ txStatus.at \in Nat /\ txStatus.at <= chainBlock
    BY <1>2 DEF ReportsInv, StatusOK, Asked
  <2>3. k \in Asked
    BY <1>2, <2>2 DEF Asked
  <2>4. txWaited => n >= confirmations - 1
    BY <1>2, <2>1 DEF ReportsInv, StatusOK, WaitOK, ContractLimits
  <2>5. StatusOK'
    BY <1>1, <1>2, <2>1, <2>2, <2>3, <2>4 DEF ReportsInv, StatusOK
  <2> QED  BY <1>1, <2>5 DEF ReportsInv, ChainTypes, SenderOK, WaitOK
<1>6. CASE Contract!StatusAgain
  <2>1. StatusOK'
    BY <1>1, <1>2, <1>6 DEF Contract!StatusAgain, Contract!NotAsked, StatusOK, Asked
  <2> QED  BY <1>1, <2>1 DEF ReportsInv, ChainTypes, SenderOK, WaitOK
<1> QED  BY <1>3, <1>4, <1>5, <1>6

LEMMA WaitStep ==
  ASSUME ReportsInv, Contract!WaitForTransaction PROVE ReportsInv'
<1>1. UNCHANGED <<contractConfig, chainBlock, chainTx, contractCall, txLost, txStatus, txWaited>>
  BY DEF Contract!WaitForTransaction, Contract!chain, Contract!sender
<1>2. WaitOK' /\ (txWait = "confirmed" => txWait' = "confirmed")
  BY <1>1 DEF Contract!WaitForTransaction, WaitOK, Mined
<1> QED  BY <1>1, <1>2 DEF ReportsInv, ChainTypes, SenderOK, StatusOK

-----------------------------------------------------------------------------
InfoTypes ==
    /\ chainBlock \in Nat
    /\ networkInfo \subseteq [blockNumber : Nat, gasPrice : Nat, began : Nat]
    /\ networkInfo # {} => contractConfig # "none"
    /\ \A i \in networkInfo :
         i.began <= i.blockNumber /\ i.blockNumber <= i.gasPrice /\ i.gasPrice <= chainBlock

NetworkCall ==
    [step : Contract!Ended \cup {"getNetwork", "checkConnection", "estimateGas", "getBlockNumber",
                                 "getGasPrice", "getGasPrice of stats", "getFeeData"},
     op : {"getNetworkInfo", "getProviderStats", "estimateGas"},
     began : Nat, blockNumber : Nat, gasPrice : Nat]

\* What a call has read, with what is kept since.
NetworkCallOK(k) ==
    /\ k \in NetworkCall
    /\ k.began <= chainBlock /\ k.blockNumber <= chainBlock /\ k.gasPrice <= chainBlock
    /\ k.step # "idle" => contractConfig # "none"
    /\ k.step \in {"getGasPrice", "getFeeData", "refreshed", "estimated"} =>
           k.began <= k.blockNumber
    /\ k.step \in {"stats", "estimated"} => k.began <= k.gasPrice /\ k.blockNumber <= k.gasPrice
    /\ k.step \in {"refreshed", "cached", "getGasPrice of stats", "stats"} => networkInfo # {}

InfoInv ==
    /\ InfoTypes /\ DOMAIN networkCalls = NetworkCallers
    /\ networkCalls = [c \in NetworkCallers |-> networkCalls[c]]
    /\ \A c \in NetworkCallers : NetworkCallOK(networkCalls[c])

LEMMA InfoInit == ASSUME Contract!Init PROVE InfoInv
<1> DEFINE k == [step |-> "idle", op |-> "getNetworkInfo", began |-> 0, blockNumber |-> 0,
                 gasPrice |-> 0]
<1>1. networkCalls = [c \in NetworkCallers |-> k] /\ chainBlock = 0 /\ networkInfo = {}
  BY DEF Contract!Init, Contract!NoCall
<1>2. NetworkCallOK(k)
  BY <1>1 DEF NetworkCallOK, NetworkCall, Contract!Ended
<1> HIDE DEF k
<1> QED  BY <1>1, <1>2 DEF InfoInv, InfoTypes

\* A step of one call, which takes it to k.
LEMMA NetworkCallStep ==
  ASSUME InfoInv, NEW c \in NetworkCallers, NEW k, networkCalls' = [networkCalls EXCEPT ![c] = k],
         chainBlock' = chainBlock, contractConfig' = contractConfig,
         networkInfo # {} => networkInfo' # {}, InfoTypes', NetworkCallOK(k)'
  PROVE  InfoInv'
<1>1. /\ DOMAIN networkCalls' = NetworkCallers
      /\ networkCalls' = [d \in NetworkCallers |-> networkCalls'[d]]
      /\ networkCalls'[c] = k /\ \A d \in NetworkCallers \ {c} : networkCalls'[d] = networkCalls[d]
  BY DEF InfoInv
<1>2. ASSUME NEW d \in NetworkCallers PROVE NetworkCallOK(networkCalls[d])'
  <2>1. CASE d = c
    BY <1>1, <2>1 DEF NetworkCallOK
  <2>2. CASE d # c
    BY <1>1, <2>2 DEF InfoInv, NetworkCallOK
  <2> QED  BY <2>1, <2>2
<1> QED  BY <1>1, <1>2 DEF InfoInv

LEMMA NetworkCallFields ==
  ASSUME InfoInv, NEW c \in NetworkCallers
  PROVE  /\ NetworkCallOK(networkCalls[c]) /\ networkCalls[c] \in NetworkCall
         /\ networkCalls[c] = [step |-> networkCalls[c].step, op |-> networkCalls[c].op,
                               began |-> networkCalls[c].began,
                               blockNumber |-> networkCalls[c].blockNumber,
                               gasPrice |-> networkCalls[c].gasPrice]
         /\ chainBlock \in Nat
BY DEF InfoInv, NetworkCallOK, NetworkCall, InfoTypes

\* Most steps change but the call.
LEMMA UnkeptStep ==
  ASSUME InfoInv, Contract!Unkept
  PROVE  /\ chainBlock' = chainBlock /\ contractConfig' = contractConfig
         /\ networkInfo' = networkInfo /\ InfoTypes'
BY DEF Contract!Unkept, Contract!chain, InfoInv, InfoTypes

\* A call's record, and the record after some of its fields changed.
InfoEntry(s, o, b, n, g) ==
    [step |-> s, op |-> o, began |-> b, blockNumber |-> n, gasPrice |-> g]

\* What the actions make of an entry, and of the calls.
CallBegun(k, s, o, b, n) == [k EXCEPT !.op = o, !.step = s, !.began = b, !.blockNumber = n]
WithStep(f, c, s) == [f EXCEPT ![c].step = s]
WithStepBlock(f, c, s, n) == [f EXCEPT ![c].step = s, ![c].blockNumber = n]
WithStepPrice(f, c, s, g) == [f EXCEPT ![c].step = s, ![c].gasPrice = g]
WithPriceStep(f, c, g, s) == [f EXCEPT ![c].gasPrice = g, ![c].step = s]

LEMMA NewEntry ==
  ASSUME NEW k, NEW s0, NEW o0, NEW b0, NEW n0, NEW g0, k = InfoEntry(s0, o0, b0, n0, g0),
         NEW s, NEW o, NEW b, NEW n
  PROVE  CallBegun(k, s, o, b, n) = InfoEntry(s, o, b, n, g0)
<1> DEFINE r1 == [k EXCEPT !.op = o]
           r2 == [r1 EXCEPT !.step = s]
           r3 == [r2 EXCEPT !.began = b]
<1>1. CallBegun(k, s, o, b, n) = [r3 EXCEPT !.blockNumber = n]
  BY DEF CallBegun
<1>2. r1 = InfoEntry(s0, o, b0, n0, g0)
  BY DEF InfoEntry
<1> HIDE DEF r1
<1>3. r2 = InfoEntry(s, o, b0, n0, g0)
  BY <1>2 DEF InfoEntry
<1> HIDE DEF r2
<1>4. r3 = InfoEntry(s, o, b, n0, g0)
  BY <1>3 DEF InfoEntry
<1> HIDE DEF r3
<1>5. [r3 EXCEPT !.blockNumber = n] = InfoEntry(s, o, b, n, g0)
  BY <1>4 DEF InfoEntry
<1> QED  BY <1>1, <1>5

LEMMA StepAndBlock ==
  ASSUME NEW f, f = [x \in NetworkCallers |-> f[x]], NEW c \in NetworkCallers,
         NEW s0, NEW o0, NEW b0, NEW n0, NEW g0, f[c] = InfoEntry(s0, o0, b0, n0, g0), NEW v, NEW w
  PROVE  WithStepBlock(f, c, v, w) = [f EXCEPT ![c] = InfoEntry(v, o0, b0, w, g0)]
<1> DEFINE f1 == [f EXCEPT ![c].step = v]
           k == f[c]
           k1 == [k EXCEPT !.step = v]
<1>1. f1 = [f EXCEPT ![c] = k1]
  OBVIOUS
<1>2. WithStepBlock(f, c, v, w) = [f1 EXCEPT ![c].blockNumber = w]
  BY DEF WithStepBlock
<1>3. k = InfoEntry(s0, o0, b0, n0, g0)
  OBVIOUS
<1> HIDE DEF k
<1>4. k1 = InfoEntry(v, o0, b0, n0, g0)
  BY <1>3 DEF InfoEntry
<1>5. f1 = [x \in NetworkCallers |-> f1[x]] /\ f1[c] = k1
  BY <1>1
<1> HIDE DEF f1, k1
<1>6. [k1 EXCEPT !.blockNumber = w] = InfoEntry(v, o0, b0, w, g0)
  BY <1>4 DEF InfoEntry
<1>7. [f1 EXCEPT ![c].blockNumber = w] = [f1 EXCEPT ![c] = [k1 EXCEPT !.blockNumber = w]]
  BY <1>5
<1>8. [f1 EXCEPT ![c] = InfoEntry(v, o0, b0, w, g0)] = [f EXCEPT ![c] = InfoEntry(v, o0, b0, w, g0)]
  BY <1>1
<1> QED  BY <1>2, <1>6, <1>7, <1>8

LEMMA StepAndPrice ==
  ASSUME NEW f, f = [x \in NetworkCallers |-> f[x]], NEW c \in NetworkCallers,
         NEW s0, NEW o0, NEW b0, NEW n0, NEW g0, f[c] = InfoEntry(s0, o0, b0, n0, g0), NEW v, NEW w
  PROVE  WithStepPrice(f, c, v, w) = [f EXCEPT ![c] = InfoEntry(v, o0, b0, n0, w)]
<1> DEFINE f1 == [f EXCEPT ![c].step = v]
           k == f[c]
           k1 == [k EXCEPT !.step = v]
<1>1. f1 = [f EXCEPT ![c] = k1]
  OBVIOUS
<1>2. WithStepPrice(f, c, v, w) = [f1 EXCEPT ![c].gasPrice = w]
  BY DEF WithStepPrice
<1>3. k = InfoEntry(s0, o0, b0, n0, g0)
  OBVIOUS
<1> HIDE DEF k
<1>4. k1 = InfoEntry(v, o0, b0, n0, g0)
  BY <1>3 DEF InfoEntry
<1>5. f1 = [x \in NetworkCallers |-> f1[x]] /\ f1[c] = k1
  BY <1>1
<1> HIDE DEF f1, k1
<1>6. [k1 EXCEPT !.gasPrice = w] = InfoEntry(v, o0, b0, n0, w)
  BY <1>4 DEF InfoEntry
<1>7. [f1 EXCEPT ![c].gasPrice = w] = [f1 EXCEPT ![c] = [k1 EXCEPT !.gasPrice = w]]
  BY <1>5
<1>8. [f1 EXCEPT ![c] = InfoEntry(v, o0, b0, n0, w)] = [f EXCEPT ![c] = InfoEntry(v, o0, b0, n0, w)]
  BY <1>1
<1> QED  BY <1>2, <1>6, <1>7, <1>8

LEMMA PriceAndStep ==
  ASSUME NEW f, f = [x \in NetworkCallers |-> f[x]], NEW c \in NetworkCallers,
         NEW s0, NEW o0, NEW b0, NEW n0, NEW g0, f[c] = InfoEntry(s0, o0, b0, n0, g0), NEW v, NEW w
  PROVE  WithPriceStep(f, c, v, w) = [f EXCEPT ![c] = InfoEntry(w, o0, b0, n0, v)]
<1> DEFINE f1 == [f EXCEPT ![c].gasPrice = v]
           k == f[c]
           k1 == [k EXCEPT !.gasPrice = v]
<1>1. f1 = [f EXCEPT ![c] = k1]
  OBVIOUS
<1>2. WithPriceStep(f, c, v, w) = [f1 EXCEPT ![c].step = w]
  BY DEF WithPriceStep
<1>3. k = InfoEntry(s0, o0, b0, n0, g0)
  OBVIOUS
<1> HIDE DEF k
<1>4. k1 = InfoEntry(s0, o0, b0, n0, v)
  BY <1>3 DEF InfoEntry
<1>5. f1 = [x \in NetworkCallers |-> f1[x]] /\ f1[c] = k1
  BY <1>1
<1> HIDE DEF f1, k1
<1>6. [k1 EXCEPT !.step = w] = InfoEntry(w, o0, b0, n0, v)
  BY <1>4 DEF InfoEntry
<1>7. [f1 EXCEPT ![c].step = w] = [f1 EXCEPT ![c] = [k1 EXCEPT !.step = w]]
  BY <1>5
<1>8. [f1 EXCEPT ![c] = InfoEntry(w, o0, b0, n0, v)] = [f EXCEPT ![c] = InfoEntry(w, o0, b0, n0, v)]
  BY <1>1
<1> QED  BY <1>2, <1>6, <1>7, <1>8

LEMMA StepOnly ==
  ASSUME NEW f, f = [x \in NetworkCallers |-> f[x]], NEW c \in NetworkCallers,
         NEW s0, NEW o0, NEW b0, NEW n0, NEW g0, f[c] = InfoEntry(s0, o0, b0, n0, g0), NEW v
  PROVE  WithStep(f, c, v) = [f EXCEPT ![c] = InfoEntry(v, o0, b0, n0, g0)]
<1> DEFINE k == f[c]
<1>1. WithStep(f, c, v) = [f EXCEPT ![c] = [k EXCEPT !.step = v]]
  BY DEF WithStep
<1>2. k = InfoEntry(s0, o0, b0, n0, g0)
  OBVIOUS
<1> HIDE DEF k
<1>3. [k EXCEPT !.step = v] = InfoEntry(v, o0, b0, n0, g0)
  BY <1>2 DEF InfoEntry
<1> QED  BY <1>1, <1>3

LEMMA CallBegins ==
  ASSUME InfoInv, NEW c \in NetworkCallers,
         Contract!getNetworkInfo(c) \/ Contract!getProviderStats(c) \/ Contract!estimateGas(c)
  PROVE  InfoInv'
<1> SUFFICES ASSUME NEW o, NEW s, NEW n, Contract!Called(c, o, s, n),
                    o \in {"getNetworkInfo", "getProviderStats", "estimateGas"},
                    \/ s \in {"getNetwork", "checkConnection", "estimateGas"} /\ n = 0
                    \/ s = "cached" /\ \E i \in networkInfo : n = i.blockNumber
             PROVE  InfoInv'
  BY DEF Contract!getNetworkInfo, Contract!getProviderStats, Contract!estimateGas
<1>k. PICK k : k = InfoEntry(s, o, chainBlock, n, 0)
  OBVIOUS
<1>1. /\ chainBlock' = chainBlock /\ contractConfig' = contractConfig
      /\ networkInfo' = networkInfo /\ InfoTypes' /\ contractConfig # "none"
  BY UnkeptStep DEF Contract!Called
<1>2. networkCalls' = [networkCalls EXCEPT ![c] = k]
  <2>1. [Contract!NoCall EXCEPT !.op = o, !.step = s, !.began = chainBlock, !.blockNumber = n] = k
    <3>1. PICK k0, b : k0 = Contract!NoCall /\ b = chainBlock
      OBVIOUS
    <3>2. k0 = InfoEntry("idle", "getNetworkInfo", 0, 0, 0)
      BY <3>1 DEF Contract!NoCall, InfoEntry
    <3>3. CallBegun(k0, s, o, b, n) = InfoEntry(s, o, b, n, 0)
      BY <3>2, NewEntry
    <3> QED  BY <3>1, <3>3, <1>k DEF CallBegun
  <2>2. networkCalls' = [networkCalls EXCEPT ![c] =
           [Contract!NoCall EXCEPT !.op = o, !.step = s, !.began = chainBlock, !.blockNumber = n]]
    BY DEF Contract!Called
  <2> QED  BY <2>1, <2>2
<1>3. n \in Nat /\ n <= chainBlock /\ chainBlock \in Nat /\ (s = "cached" => networkInfo # {})
  BY DEF InfoInv, InfoTypes
<1>4. k \in NetworkCall
  BY <1>k, <1>3 DEF NetworkCall, Contract!Ended, InfoEntry
<1>5. /\ k.step = s /\ k.began = chainBlock /\ k.blockNumber = n /\ k.gasPrice = 0
      /\ s \in {"getNetwork", "checkConnection", "estimateGas", "cached"}
  BY <1>k DEF InfoEntry
<1>6. NetworkCallOK(k)'
  <2>1. /\ k.step \notin {"getGasPrice", "getFeeData", "refreshed", "estimated", "stats"}
        /\ k.step # "getGasPrice of stats"
    BY <1>5
  <2>2. k.began <= chainBlock' /\ k.blockNumber <= chainBlock' /\ k.gasPrice <= chainBlock'
    BY <1>1, <1>3, <1>5
  <2>3. (k.step \in {"refreshed", "cached", "getGasPrice of stats", "stats"} => networkInfo' # {})
    BY <1>1, <1>3, <1>5, <2>1
  <2> QED  BY <1>1, <1>4, <2>1, <2>2, <2>3 DEF NetworkCallOK
<1> QED  BY <1>1, <1>2, <1>6, NetworkCallStep

\* A step that gives the call a new step and reads of the chain's block.
LEMMA CallReads ==
  ASSUME InfoInv, NEW c \in NetworkCallers, NEW step, NEW n \in Nat, NEW g \in Nat,
         networkCalls' = [networkCalls EXCEPT ![c] =
            InfoEntry(step, networkCalls[c].op, networkCalls[c].began, n, g)],
         chainBlock' = chainBlock, contractConfig' = contractConfig,
         networkInfo # {} => networkInfo' # {}, InfoTypes', networkCalls[c].step # "idle",
         step \in Contract!Ended \cup {"getNetwork", "getBlockNumber", "getGasPrice",
                                       "getGasPrice of stats", "getFeeData"},
         n <= chainBlock, g <= chainBlock,
         step \in {"getGasPrice", "getFeeData", "refreshed", "estimated"} =>
             networkCalls[c].began <= n,
         step \in {"stats", "estimated"} => networkCalls[c].began <= g /\ n <= g,
         step \in {"refreshed", "cached", "getGasPrice of stats", "stats"} => networkInfo' # {}
  PROVE  InfoInv'
<1>k. PICK k : k = InfoEntry(step, networkCalls[c].op, networkCalls[c].began, n, g)
  OBVIOUS
<1>1. k \in NetworkCall
  BY <1>k, NetworkCallFields DEF NetworkCall, InfoEntry
<1>2. NetworkCallOK(k)'
  BY <1>k, <1>1, NetworkCallFields DEF NetworkCallOK, NetworkCall, InfoEntry
<1>3. networkCalls' = [networkCalls EXCEPT ![c] = k]
  BY <1>k
<1> QED  BY <1>2, <1>3, NetworkCallStep

\* What a step makes of the calls, when it changes some fields of one.
LEMMA ReadFacts ==
  ASSUME InfoInv, NEW c \in NetworkCallers
  PROVE  LET k == networkCalls[c] IN
         /\ \A s : WithStep(networkCalls, c, s)
              = [networkCalls EXCEPT ![c] = InfoEntry(s, k.op, k.began, k.blockNumber, k.gasPrice)]
         /\ \A s, n : WithStepBlock(networkCalls, c, s, n)
              = [networkCalls EXCEPT ![c] = InfoEntry(s, k.op, k.began, n, k.gasPrice)]
         /\ \A s, g : WithStepPrice(networkCalls, c, s, g)
              = [networkCalls EXCEPT ![c] = InfoEntry(s, k.op, k.began, k.blockNumber, g)]
         /\ \A s, g : WithPriceStep(networkCalls, c, g, s)
              = [networkCalls EXCEPT ![c] = InfoEntry(s, k.op, k.began, k.blockNumber, g)]
<1> DEFINE k == networkCalls[c]
<1>1. k = InfoEntry(k.step, k.op, k.began, k.blockNumber, k.gasPrice)
  BY NetworkCallFields DEF InfoEntry
<1>2. networkCalls = [d \in NetworkCallers |-> networkCalls[d]]
  BY DEF InfoInv
<1>p. PICK f, s0, o0, b0, n0, g0 :
         /\ f = networkCalls /\ s0 = k.step /\ o0 = k.op /\ b0 = k.began
         /\ n0 = k.blockNumber /\ g0 = k.gasPrice
  OBVIOUS
<1>3. f = [x \in NetworkCallers |-> f[x]] /\ f[c] = InfoEntry(s0, o0, b0, n0, g0)
  BY <1>1, <1>2, <1>p
<1>4. ASSUME NEW s
      PROVE  WithStep(f, c, s) = [f EXCEPT ![c] = InfoEntry(s, o0, b0, n0, g0)]
  BY <1>3, StepOnly
<1>5. ASSUME NEW s, NEW n
      PROVE  WithStepBlock(f, c, s, n)
               = [f EXCEPT ![c] = InfoEntry(s, o0, b0, n, g0)]
  BY <1>3, StepAndBlock
<1>6. ASSUME NEW s, NEW g
      PROVE  WithStepPrice(f, c, s, g)
               = [f EXCEPT ![c] = InfoEntry(s, o0, b0, n0, g)]
  BY <1>3, StepAndPrice
<1>7. ASSUME NEW s, NEW g
      PROVE  WithPriceStep(f, c, g, s)
               = [f EXCEPT ![c] = InfoEntry(s, o0, b0, n0, g)]
  BY <1>3, PriceAndStep
<1> QED  BY <1>4, <1>5, <1>6, <1>7, <1>p
\* The records a call is in before its steps, and what the reads give it.
LEMMA CheckStep ==
  ASSUME InfoInv, NEW c \in NetworkCallers, Contract!checkConnection(c) PROVE InfoInv'
<1> PICK k : k = networkCalls[c]
  OBVIOUS
<1>1. /\ NetworkCallOK(k) /\ k \in NetworkCall /\ k.blockNumber \in Nat /\ k.gasPrice \in Nat
      /\ k.step = "checkConnection"
  BY NetworkCallFields DEF NetworkCall, Contract!checkConnection
<1>2. /\ chainBlock' = chainBlock /\ contractConfig' = contractConfig
      /\ networkInfo' = networkInfo /\ InfoTypes'
  BY UnkeptStep DEF Contract!checkConnection
<1>3. CASE networkInfo = {} /\ Contract!Goto(c, "getNetwork")
  <2>1. PICK n, g : n = k.blockNumber /\ g = k.gasPrice
    OBVIOUS
  <2>2. networkCalls' = [networkCalls EXCEPT ![c] =
           InfoEntry("getNetwork", networkCalls[c].op, networkCalls[c].began, n, g)]
    BY <1>3, <2>1, ReadFacts DEF Contract!Goto, WithStep
  <2>3. n \in Nat /\ g \in Nat /\ n <= chainBlock /\ g <= chainBlock
    BY <1>1, <2>1 DEF NetworkCallOK
  <2> QED  BY <1>1, <1>2, <2>2, <2>3, CallReads
<1>4. CASE \E i \in networkInfo :
             networkCalls' = [networkCalls EXCEPT ![c].step = "getGasPrice of stats",
                                                  ![c].blockNumber = i.blockNumber]
  <2>1. PICK i \in networkInfo :
             networkCalls' = [networkCalls EXCEPT ![c].step = "getGasPrice of stats",
                                                  ![c].blockNumber = i.blockNumber]
    BY <1>4
  <2>2. PICK n, g, s : n = i.blockNumber /\ g = k.gasPrice /\ s = "getGasPrice of stats"
    OBVIOUS
  <2>3. networkCalls' = WithStepBlock(networkCalls, c, s, n)
    BY <2>1, <2>2 DEF WithStepBlock
  <2>4. networkCalls' = [networkCalls EXCEPT ![c] =
           InfoEntry(s, networkCalls[c].op, networkCalls[c].began, n, g)]
    <3>1. g = k.gasPrice
      BY <2>2
    <3> QED  BY <2>3, <3>1, ReadFacts
  <2>5. n \in Nat /\ g \in Nat /\ n <= chainBlock /\ g <= chainBlock /\ networkInfo # {}
    <3>0. k.gasPrice <= chainBlock
      BY <1>1 DEF NetworkCallOK
    <3>1. g = k.gasPrice /\ n = i.blockNumber /\ i \in networkInfo
      BY <2>1, <2>2
    <3>2. i.blockNumber \in Nat /\ i.gasPrice \in Nat /\ chainBlock \in Nat
          /\ i.blockNumber <= i.gasPrice /\ i.gasPrice <= chainBlock
      BY <3>1 DEF InfoInv, InfoTypes
    <3> QED  BY <1>1, <3>0, <3>1, <3>2
  <2> QED  BY <1>1, <1>2, <2>2, <2>4, <2>5, CallReads
<1> QED  BY <1>3, <1>4 DEF Contract!checkConnection

LEMMA NetworkReadStep ==
  ASSUME InfoInv, NEW c \in NetworkCallers, Contract!NetworkRead(c) \/ Contract!ReadFails(c)
  PROVE  InfoInv'
<1> PICK k, s : k = networkCalls[c] /\
              s = IF Contract!NetworkRead(c) THEN "getBlockNumber" ELSE "idle"
  OBVIOUS
<1>1. /\ NetworkCallOK(k) /\ k \in NetworkCall /\ k.blockNumber \in Nat /\ k.gasPrice \in Nat
      /\ k.step # "idle" /\ Contract!Unkept
  BY NetworkCallFields DEF NetworkCall, Contract!NetworkRead, Contract!ReadFails, Contract!Ended
<1>2. /\ chainBlock' = chainBlock /\ contractConfig' = contractConfig
      /\ networkInfo' = networkInfo /\ InfoTypes'
  BY <1>1, UnkeptStep
<1>3. PICK n, g : n = k.blockNumber /\ g = k.gasPrice
  OBVIOUS
<1>4. networkCalls' = WithStep(networkCalls, c, s)
  BY DEF Contract!Goto, Contract!NetworkRead, Contract!ReadFails, WithStep
<1>5. networkCalls' = [networkCalls EXCEPT ![c] =
         InfoEntry(s, networkCalls[c].op, networkCalls[c].began, n, g)]
  BY <1>3, <1>4, ReadFacts
<1>6. n \in Nat /\ g \in Nat /\ n <= chainBlock /\ g <= chainBlock
        /\ s \in {"idle", "getBlockNumber"}
  BY <1>1, <1>3 DEF NetworkCallOK
<1> QED  BY <1>1, <1>2, <1>5, <1>6, CallReads DEF Contract!Ended

\* The block of the chain is read for the block number, or for the price.
LEMMA BlockReadStep ==
  ASSUME InfoInv, NEW c \in NetworkCallers, Contract!BlockRead(c) \/ Contract!GasLimitRead(c)
  PROVE  InfoInv'
<1> PICK k, s : k = networkCalls[c] /\
              s = IF Contract!BlockRead(c) THEN "getGasPrice" ELSE "getFeeData"
  OBVIOUS
<1>1. /\ NetworkCallOK(k) /\ k \in NetworkCall /\ k.began \in Nat /\ k.gasPrice \in Nat
      /\ k.step # "idle" /\ Contract!Unkept /\ chainBlock \in Nat
  BY NetworkCallFields DEF NetworkCall, Contract!BlockRead, Contract!GasLimitRead
<1>2. /\ chainBlock' = chainBlock /\ contractConfig' = contractConfig
      /\ networkInfo' = networkInfo /\ InfoTypes'
  BY <1>1, UnkeptStep
<1>3. PICK n, g : n = chainBlock /\ g = k.gasPrice
  OBVIOUS
<1>4. networkCalls' = WithStepBlock(networkCalls, c, s, n)
  BY <1>3 DEF Contract!BlockRead, Contract!GasLimitRead, WithStepBlock
<1>5. networkCalls' = [networkCalls EXCEPT ![c] =
         InfoEntry(s, networkCalls[c].op, networkCalls[c].began, n, g)]
  BY <1>3, <1>4, ReadFacts
<1>6. n \in Nat /\ g \in Nat /\ n <= chainBlock /\ g <= chainBlock /\ k.began <= n
  <2>1. k.began <= chainBlock /\ k.gasPrice <= chainBlock
    BY <1>1 DEF NetworkCallOK
  <2> QED  BY <1>1, <1>3, <2>1
<1>7. s \in {"getGasPrice", "getFeeData"}
  OBVIOUS
<1> QED  BY <1>1, <1>2, <1>5, <1>6, <1>7, CallReads DEF Contract!Ended

LEMMA PriceReadStep ==
  ASSUME InfoInv, NEW c \in NetworkCallers, Contract!getGasPrice(c) \/ Contract!FeeDataRead(c)
  PROVE  InfoInv'
<1> PICK k, s : k = networkCalls[c] /\ s = IF Contract!getGasPrice(c) THEN "stats" ELSE "estimated"
  OBVIOUS
<1>1. /\ NetworkCallOK(k) /\ k \in NetworkCall /\ k.began \in Nat /\ k.blockNumber \in Nat
      /\ k.step # "idle" /\ Contract!Unkept /\ chainBlock \in Nat
  BY NetworkCallFields DEF NetworkCall, Contract!getGasPrice, Contract!FeeDataRead
<1>2. /\ chainBlock' = chainBlock /\ contractConfig' = contractConfig
      /\ networkInfo' = networkInfo /\ InfoTypes'
  BY <1>1, UnkeptStep
<1>3. PICK n, g : n = k.blockNumber /\ g = chainBlock
  OBVIOUS
<1>4. \/ networkCalls' = WithPriceStep(networkCalls, c, g, s)
      \/ networkCalls' = WithStepPrice(networkCalls, c, s, g)
  BY <1>3 DEF Contract!getGasPrice, Contract!FeeDataRead, WithPriceStep, WithStepPrice
<1>5. networkCalls' = [networkCalls EXCEPT ![c] =
         InfoEntry(s, networkCalls[c].op, networkCalls[c].began, n, g)]
  BY <1>3, <1>4, ReadFacts
<1>6. n \in Nat /\ g \in Nat /\ n <= chainBlock /\ g <= chainBlock /\ k.began <= g /\ n <= g
  <2>1. k.began <= chainBlock /\ k.blockNumber <= chainBlock
    BY <1>1 DEF NetworkCallOK
  <2> QED  BY <1>1, <1>3, <2>1
<1>7. (s = "estimated" => k.began <= n) /\ (s = "stats" => networkInfo # {})
        /\ s \in {"stats", "estimated"}
  BY <1>1, <1>3 DEF NetworkCallOK, Contract!getGasPrice, Contract!FeeDataRead
<1> QED  BY <1>1, <1>2, <1>5, <1>6, <1>7, CallReads DEF Contract!Ended

\* The last read of a refresh, whose answer replaces what was kept.
LEMMA RefreshStep ==
  ASSUME InfoInv, NEW c \in NetworkCallers, Contract!GasPriceRead(c) PROVE InfoInv'
<1> PICK k : k = networkCalls[c]
  OBVIOUS
<1>s. PICK s : s = IF k.op = "getProviderStats" THEN "getGasPrice of stats" ELSE "refreshed"
  OBVIOUS
<1>1. /\ NetworkCallOK(k) /\ k \in NetworkCall /\ k.began \in Nat /\ k.blockNumber \in Nat
      /\ k.gasPrice \in Nat /\ k.step = "getGasPrice" /\ chainBlock \in Nat
  BY NetworkCallFields DEF NetworkCall, Contract!GasPriceRead
<1>2. /\ chainBlock' = chainBlock /\ contractConfig' = contractConfig
      /\ networkInfo' = {[blockNumber |-> k.blockNumber, gasPrice |-> chainBlock,
                          began |-> k.began]}
  BY DEF Contract!GasPriceRead, Contract!chain
<1>3. PICK n, g : n = k.blockNumber /\ g = k.gasPrice
  OBVIOUS
<1>4. networkCalls' = WithStep(networkCalls, c, s)
  BY <1>s DEF Contract!Goto, Contract!GasPriceRead, WithStep
<1>5. networkCalls' = [networkCalls EXCEPT ![c] =
         InfoEntry(s, networkCalls[c].op, networkCalls[c].began, n, g)]
  BY <1>3, <1>4, ReadFacts
<1>6. /\ n \in Nat /\ g \in Nat /\ n <= chainBlock /\ g <= chainBlock /\ k.began <= n
      /\ contractConfig # "none"
  BY <1>1, <1>3 DEF NetworkCallOK
<1>t. s \in {"getGasPrice of stats", "refreshed"}
  BY <1>s
<1>7. InfoTypes' /\ networkInfo' # {}
  <2>1. PICK i : i = [blockNumber |-> k.blockNumber, gasPrice |-> chainBlock, began |-> k.began]
    OBVIOUS
  <2>2. i \in [blockNumber : Nat, gasPrice : Nat, began : Nat]
    BY <1>1, <2>1
  <2>3. i.began <= i.blockNumber /\ i.blockNumber <= i.gasPrice /\ i.gasPrice <= chainBlock
    <3>1. i.blockNumber = k.blockNumber /\ i.gasPrice = chainBlock /\ i.began = k.began
      BY <2>1
    <3>2. k.began <= k.blockNumber /\ k.blockNumber <= chainBlock
      <4>1. n = k.blockNumber
        BY <1>3
      <4> QED  BY <1>6, <4>1
    <3> QED  BY <1>1, <3>1, <3>2
  <2>4. networkInfo' = {i}
    BY <1>2, <2>1
  <2> QED  BY <1>1, <1>2, <1>6, <2>2, <2>3, <2>4 DEF InfoTypes
<1>8. (networkCalls[c].began <= n) /\ networkCalls[c].step # "idle"
  BY <1>1, <1>6
<1> QED  BY <1>2, <1>5, <1>6, <1>7, <1>8, <1>t, CallReads DEF Contract!Ended

-----------------------------------------------------------------------------
\* Both parts of ContractService, and its next-state relation.
ContractInv == ReportsInv /\ InfoInv

LEMMA InfoKept ==
  ASSUME InfoInv, contractConfig' = contractConfig, chainBlock' \in Nat, chainBlock <= chainBlock',
         UNCHANGED <<networkInfo, networkCalls>>
  PROVE  InfoInv'
<1>1. InfoTypes'
  BY DEF InfoInv, InfoTypes
<1>2. ASSUME NEW c \in NetworkCallers PROVE NetworkCallOK(networkCalls[c])'
  <2>1. PICK k : k = networkCalls[c]
    OBVIOUS
  <2>2. NetworkCallOK(k) /\ k \in NetworkCall /\ chainBlock \in Nat
    BY <2>1, NetworkCallFields
  <2>3. k.began \in Nat /\ k.blockNumber \in Nat /\ k.gasPrice \in Nat
    BY <2>2 DEF NetworkCall
  <2>4. k.began <= chainBlock' /\ k.blockNumber <= chainBlock' /\ k.gasPrice <= chainBlock'
    <3>1. k.began <= chainBlock /\ k.blockNumber <= chainBlock /\ k.gasPrice <= chainBlock
      BY <2>2 DEF NetworkCallOK
    <3> QED  BY <2>2, <2>3, <3>1
  <2>5. NetworkCallOK(k)'
    BY <2>2, <2>4 DEF NetworkCallOK
  <2> QED  BY <2>1, <2>5 DEF NetworkCallOK
<1> QED  BY <1>1, <1>2 DEF InfoInv

LEMMA ReportsKept ==
  ASSUME ReportsInv, UNCHANGED <<Contract!chain, Contract!sender, Contract!readers>>
  PROVE  ReportsInv'
BY DEF Contract!chain, Contract!sender, Contract!readers, ReportsInv, ChainTypes, SenderOK, WaitOK,
       StatusOK

LEMMA ContractNext ==
  ASSUME ContractLimits, ContractInv, [Contract!Next]_(Contract!vars) PROVE ContractInv'
<1> USE DEF ContractInv
<1>0. chainBlock \in Nat
  BY DEF InfoInv, InfoTypes
<1>1. CASE Contract!Mine
  BY <1>0, <1>1, MineStepOfChain, InfoKept DEF Contract!Mine, Contract!network
<1>2. CASE \/ Contract!createEvent \/ Contract!fundEvent \/ Contract!sendRawTransaction
           \/ Contract!Sent \/ Contract!Receipt
  <2>1. /\ contractConfig' = contractConfig /\ chainBlock' = chainBlock
        /\ UNCHANGED <<networkInfo, networkCalls>>
    BY <1>2 DEF Contract!createEvent, Contract!fundEvent, Contract!sendRawTransaction,
          Contract!Begin, Contract!Sent, Contract!Receipt, Contract!Broadcast, Contract!chain,
          Contract!network
  <2> QED  BY <1>0, <1>2, <2>1, SenderStep, InfoKept
<1>3. CASE \/ Contract!GetTransaction \/ Contract!GetTransactionReceipt
           \/ Contract!GetBlockNumber \/ Contract!StatusAgain \/ Contract!WaitForTransaction
  <2>1. /\ contractConfig' = contractConfig /\ chainBlock' = chainBlock
        /\ UNCHANGED <<networkInfo, networkCalls>>
    BY <1>3 DEF Contract!GetTransaction, Contract!GetTransactionReceipt, Contract!GetBlockNumber,
          Contract!StatusAgain, Contract!WaitForTransaction, Contract!chain, Contract!network
  <2> QED  BY <1>0, <1>3, <2>1, StatusStep, WaitStep, InfoKept
<1>4. ASSUME NEW c \in NetworkCallers,
             \/ Contract!getNetworkInfo(c) \/ Contract!getProviderStats(c)
             \/ Contract!estimateGas(c) \/ Contract!checkConnection(c)
             \/ Contract!NetworkRead(c) \/ Contract!BlockRead(c) \/ Contract!GasPriceRead(c)
             \/ Contract!getGasPrice(c) \/ Contract!GasLimitRead(c) \/ Contract!FeeDataRead(c)
             \/ Contract!ReadFails(c)
      PROVE  ContractInv'
  <2>1. UNCHANGED <<Contract!chain, Contract!sender, Contract!readers>>
    BY <1>4 DEF Contract!getNetworkInfo, Contract!getProviderStats, Contract!estimateGas,
          Contract!checkConnection, Contract!NetworkRead, Contract!BlockRead,
          Contract!GasPriceRead, Contract!getGasPrice, Contract!GasLimitRead,
          Contract!FeeDataRead, Contract!ReadFails, Contract!Called, Contract!Unkept
  <2>2. InfoInv'
    BY <1>4, CallBegins, CheckStep, NetworkReadStep, BlockReadStep, PriceReadStep, RefreshStep
  <2> QED  BY <2>1, <2>2, ReportsKept
<1>5. CASE UNCHANGED Contract!vars
  BY <1>0, <1>5, ReportsKept, InfoKept
     DEF Contract!vars, Contract!chain, Contract!sender, Contract!readers
<1> QED  BY <1>1, <1>2, <1>3, <1>4, <1>5 DEF Contract!Next

LEMMA ContractSpec ==
  ASSUME ContractLimits PROVE Contract!Spec => []ContractInv
<1>1. Contract!Init => ContractInv
  BY ReportsInit, InfoInit DEF ContractInv
<1>2. ContractInv /\ [Contract!Next]_(Contract!vars) => ContractInv'
  BY ContractNext
<1> QED  BY <1>1, <1>2, PTL DEF Contract!Spec

\* What ContractService promises, from its invariant.
LEMMA ContractPromises ==
  ASSUME ContractInv PROVE Contract!ReportsAreTrue /\ Contract!InfoIsOfOneRefresh
<1>1. Contract!ReportsAreTrue
  BY DEF ContractInv, ReportsInv, SenderOK, StatusOK, Contract!ReportsAreTrue, ChainTypes
<1>2. \A i \in networkInfo : i.began <= i.blockNumber /\ i.blockNumber <= i.gasPrice
  BY DEF ContractInv, InfoInv, InfoTypes
<1>3. ASSUME NEW c \in NetworkCallers
      PROVE  LET k == networkCalls[c] IN
             /\ k.step \in {"refreshed", "estimated"} => k.blockNumber >= k.began
             /\ k.step \in {"stats", "estimated"} =>
                  k.gasPrice >= k.began /\ k.gasPrice >= k.blockNumber
             /\ k.step \in {"refreshed", "cached", "stats"} => Contract!isReady
  <2>1. PICK k : k = networkCalls[c]
    OBVIOUS
  <2>2. NetworkCallOK(k) /\ k \in NetworkCall
    BY <2>1, NetworkCallFields DEF ContractInv
  <2>3. k.began \in Nat /\ k.blockNumber \in Nat /\ k.gasPrice \in Nat
    BY <2>2 DEF NetworkCall
  <2> QED  BY <2>1, <2>2, <2>3 DEF NetworkCallOK, Contract!isReady
<1> QED  BY <1>1, <1>2, <1>3 DEF Contract!InfoIsOfOneRefresh

\* Every transfer of the escrow wallet has its record, none is sent twice, and what a caller
\* is told of a transaction or of the network is what the chain had, whatever calls overlap,
\* fail or lose their answer.
THEOREM BooksStayRight ==
  ASSUME PayoutsAreLists, ContractLimits
  PROVE  Wallets!Spec /\ Contract!Spec => []BooksMatchTheChain
<1>1. WalletsInv /\ ContractInv => BooksMatchTheChain
  BY ContractPromises, WalletPromises DEF BooksMatchTheChain
<1> QED  BY <1>1, WalletsSpec, ContractSpec, PTL

-----------------------------------------------------------------------------
(* Uploads.                                                                  *)

\* An id that was given once goes one way: it is written, then recorded, and its file is
\* removed before its record.
UploadOK(id) ==
    /\ \A v, w \in saving : v.id = id /\ w.id = id => v = w
    /\ \A w \in saving : w.id = id =>
         /\ id \notin uploads /\ (w.written <=> id \in disk)
         /\ \A d \in deleting : d.id # id
    /\ \A d \in deleting : d.id = id /\ d.unlinked => id \notin disk
    /\ id \in uploads \ disk => \E d \in deleting : d.id = id /\ d.unlinked
    /\ id \in disk \ uploads => \E w \in saving : w.id = id /\ w.written

UploadTypes ==
    /\ \A w \in saving : w = [id |-> w.id, no |-> w.no, written |-> w.written]
                         /\ w.written \in BOOLEAN /\ w.id \in given
    /\ \A d \in deleting : d = [id |-> d.id, no |-> d.no, unlinked |-> d.unlinked]
                           /\ d.unlinked \in BOOLEAN /\ d.id \in given
    /\ uploads \subseteq given /\ disk \subseteq given

UploadsInv == UploadTypes /\ \A id \in given \ clashed : UploadOK(id)

LEMMA UploadsInit == ASSUME Files!Init PROVE UploadsInv
BY DEF Files!Init, UploadsInv, UploadTypes

LEMMA UploadBegins ==
  ASSUME UploadsInv, NEW n, Files!UploadFile(n) PROVE UploadsInv'
<1> PICK f, w : f = Files!FileId(n) /\ w = [id |-> f, no |-> count', written |-> FALSE]
  OBVIOUS
<1>1. /\ saving' = saving \cup {w} /\ given' = given \cup {f}
      /\ clashed' = clashed \cup (given \cap {f})
      /\ uploads' = uploads /\ disk' = disk /\ deleting' = deleting
  BY DEF Files!UploadFile
<1>2. w = [id |-> w.id, no |-> w.no, written |-> w.written] /\ w.id = f /\ w.written = FALSE
  OBVIOUS
<1>3. UploadTypes'
  BY <1>1, <1>2 DEF UploadsInv, UploadTypes
<1>4. ASSUME NEW id \in given' \ clashed' PROVE UploadOK(id)'
  <2>1. CASE id = f
    <3>1. id \notin given
      BY <1>1, <2>1
    <3>2. /\ \A v \in saving : v.id # id
          /\ \A d \in deleting : d.id # id
          /\ id \notin uploads /\ id \notin disk
      BY <3>1 DEF UploadsInv, UploadTypes
    <3> QED  BY <1>1, <1>2, <2>1, <3>2 DEF UploadOK
  <2>2. CASE id # f
    <3>1. id \in given \ clashed
      BY <1>1, <2>2
    <3>2. UploadOK(id)
      BY <3>1 DEF UploadsInv
    <3> QED  BY <1>1, <1>2, <2>2, <3>2 DEF UploadOK
  <2> QED  BY <2>1, <2>2
<1> QED  BY <1>3, <1>4 DEF UploadsInv

LEMMA UploadWrites ==
  ASSUME UploadsInv, NEW w \in saving, Files!Written(w) \/ Files!WriteFailed(w) \/ Files!Uploaded(w)
  PROVE  UploadsInv'
<1>1. /\ w = [id |-> w.id, no |-> w.no, written |-> w.written]
      /\ w.written \in BOOLEAN /\ w.id \in given
  BY DEF UploadsInv, UploadTypes
<1>2. deleting' = deleting /\ given' = given
  BY DEF Files!Written, Files!WriteFailed, Files!Uploaded
<1>3. CASE Files!Written(w)
  <2>1. PICK v : v = [id |-> w.id, no |-> w.no, written |-> TRUE]
    OBVIOUS
  <2>2. [w EXCEPT !.written = TRUE] = v
    <3>1. PICK i, n, b : i = w.id /\ n = w.no /\ w = [id |-> i, no |-> n, written |-> b]
      BY <1>1
    <3>2. v = [id |-> i, no |-> n, written |-> TRUE]
      BY <2>1, <3>1
    <3>3. PICK t : t = TRUE
      OBVIOUS
    <3>4. [w EXCEPT !.written = t] = [id |-> i, no |-> n, written |-> t]
      BY <3>1
    <3> QED  BY <3>2, <3>3, <3>4
  <2>3. /\ ~w.written /\ disk' = disk \cup {w.id} /\ saving' = (saving \ {w}) \cup {v}
        /\ uploads' = uploads /\ clashed' = clashed
    BY <1>3, <2>2 DEF Files!Written
  <2>4. /\ v = [id |-> v.id, no |-> v.no, written |-> v.written]
        /\ v.id = w.id /\ v.written = TRUE
    BY <2>1
  <2>5. UploadTypes'
    BY <1>1, <1>2, <2>3, <2>4 DEF UploadsInv, UploadTypes
  <2>6. ASSUME NEW id \in given \ clashed PROVE UploadOK(id)'
    <3>1. UploadOK(id)
      BY <2>6 DEF UploadsInv
    <3> QED  BY <1>2, <2>3, <2>4, <3>1 DEF UploadOK
  <2> QED  BY <1>2, <2>3, <2>5, <2>6 DEF UploadsInv
<1>4. CASE Files!WriteFailed(w)
  <2>1. /\ ~w.written /\ saving' = saving \ {w} /\ uploads' = uploads
        /\ \/ disk' = disk \cup {w.id} /\ clashed' = clashed \cup {w.id}
           \/ disk' = disk /\ clashed' = clashed
    BY <1>4 DEF Files!WriteFailed
  <2>2. UploadTypes'
    BY <1>1, <1>2, <2>1 DEF UploadsInv, UploadTypes
  <2>3. ASSUME NEW id \in given \ clashed' PROVE UploadOK(id)'
    <3>1. UploadOK(id)
      BY <2>1, <2>3 DEF UploadsInv
    <3>2. id = w.id => clashed' = clashed /\ disk' = disk
      BY <2>1, <2>3
    <3> QED  BY <1>2, <2>1, <3>1, <3>2 DEF UploadOK
  <2> QED  BY <1>2, <2>1, <2>2, <2>3 DEF UploadsInv
<1>5. CASE Files!Uploaded(w)
  <2>1. /\ w.written /\ saving' = saving \ {w} /\ uploads' = uploads \cup {w.id}
        /\ disk' = disk /\ clashed' = clashed
    BY <1>5 DEF Files!Uploaded
  <2>2. UploadTypes'
    BY <1>1, <1>2, <2>1 DEF UploadsInv, UploadTypes
  <2>3. ASSUME NEW id \in given \ clashed PROVE UploadOK(id)'
    <3>1. UploadOK(id)
      BY <2>3 DEF UploadsInv
    <3> QED  BY <1>2, <2>1, <3>1 DEF UploadOK
  <2> QED  BY <1>2, <2>1, <2>2, <2>3 DEF UploadsInv
<1> QED  BY <1>3, <1>4, <1>5

LEMMA UploadDeleteBegins ==
  ASSUME UploadsInv, NEW f, Files!DeleteFile(f) PROVE UploadsInv'
<1> PICK d : d = [id |-> f, no |-> Files!Cardinality(deleting), unlinked |-> FALSE]
  OBVIOUS
<1>1. /\ f \in uploads /\ deleting' = deleting \cup {d} /\ uploads' = uploads /\ disk' = disk
      /\ saving' = saving /\ given' = given /\ clashed' = clashed
  BY DEF Files!DeleteFile
<1>2. d = [id |-> d.id, no |-> d.no, unlinked |-> d.unlinked] /\ d.id = f /\ d.unlinked = FALSE
  OBVIOUS
<1>3. UploadTypes'
  BY <1>1, <1>2 DEF UploadsInv, UploadTypes
<1>4. ASSUME NEW id \in given \ clashed PROVE UploadOK(id)'
  <2>1. UploadOK(id)
    BY <1>4 DEF UploadsInv
  <2> QED  BY <1>1, <1>2, <2>1 DEF UploadOK
<1> QED  BY <1>1, <1>3, <1>4 DEF UploadsInv

LEMMA UploadDeletes ==
  ASSUME UploadsInv, NEW d \in deleting,
         Files!Unlinked(d) \/ Files!Deleted(d) \/ Files!UnlinkFailed(d)
  PROVE  UploadsInv'
<1>1. /\ d = [id |-> d.id, no |-> d.no, unlinked |-> d.unlinked]
      /\ d.unlinked \in BOOLEAN /\ d.id \in given
  BY DEF UploadsInv, UploadTypes
<1>2. saving' = saving /\ given' = given /\ clashed' = clashed
  BY DEF Files!Unlinked, Files!Deleted, Files!UnlinkFailed
<1>3. CASE Files!Unlinked(d)
  <2>1. PICK e : e = [id |-> d.id, no |-> d.no, unlinked |-> TRUE]
    OBVIOUS
  <2>2. [d EXCEPT !.unlinked = TRUE] = e
    <3>1. PICK i, n, b : i = d.id /\ n = d.no /\ d = [id |-> i, no |-> n, unlinked |-> b]
      BY <1>1
    <3>2. e = [id |-> i, no |-> n, unlinked |-> TRUE]
      BY <2>1, <3>1
    <3>3. PICK t : t = TRUE
      OBVIOUS
    <3>4. [d EXCEPT !.unlinked = t] = [id |-> i, no |-> n, unlinked |-> t]
      BY <3>1
    <3> QED  BY <3>2, <3>3, <3>4
  <2>3. /\ d.id \in disk /\ disk' = disk \ {d.id} /\ deleting' = (deleting \ {d}) \cup {e}
        /\ uploads' = uploads
    BY <1>3, <2>2 DEF Files!Unlinked
  <2>4. e = [id |-> e.id, no |-> e.no, unlinked |-> e.unlinked] /\ e.id = d.id /\ e.unlinked = TRUE
    BY <2>1
  <2>5. UploadTypes'
    BY <1>1, <1>2, <2>3, <2>4 DEF UploadsInv, UploadTypes
  <2>6. ASSUME NEW id \in given \ clashed PROVE UploadOK(id)'
    <3>1. UploadOK(id)
      BY <2>6 DEF UploadsInv
    <3> QED  BY <1>2, <2>3, <2>4, <3>1 DEF UploadOK
  <2> QED  BY <1>2, <2>5, <2>6 DEF UploadsInv
<1>4. CASE Files!Deleted(d) \/ Files!UnlinkFailed(d)
  <2>1. /\ deleting' = deleting \ {d} /\ disk' = disk
        /\ \/ d.unlinked /\ uploads' = uploads \ {d.id}
           \/ ~d.unlinked /\ uploads' = uploads
    BY <1>4 DEF Files!Deleted, Files!UnlinkFailed
  <2>2. UploadTypes'
    BY <1>1, <1>2, <2>1 DEF UploadsInv, UploadTypes
  <2>3. ASSUME NEW id \in given \ clashed PROVE UploadOK(id)'
    <3>1. UploadOK(id)
      BY <2>3 DEF UploadsInv
    <3> QED  BY <1>2, <2>1, <3>1 DEF UploadOK
  <2> QED  BY <1>2, <2>2, <2>3 DEF UploadsInv
<1> QED  BY <1>3, <1>4

LEMMA UploadsSpec == Files!Spec => []UploadsInv
<1>1. UploadsInv /\ [Files!Next]_(Files!vars) => UploadsInv'
  <2> SUFFICES ASSUME UploadsInv, [Files!Next]_(Files!vars) PROVE UploadsInv'
    OBVIOUS
  <2>1. CASE Files!Tick \/ UNCHANGED Files!vars
    BY <2>1 DEF Files!Tick, Files!vars, UploadsInv, UploadTypes, UploadOK
  <2> QED  BY <2>1, UploadBegins, UploadWrites, UploadDeleteBegins, UploadDeletes DEF Files!Next
<1> QED  BY <1>1, UploadsInit, PTL DEF Files!Spec

LEMMA UploadsPromise == ASSUME UploadsInv PROVE Files!RecordsMatchFiles
<1> SUFFICES ASSUME NEW id \in Files!Ids \ clashed
             PROVE  /\ id \in uploads \ disk => \E d \in deleting : d.id = id /\ d.unlinked
                    /\ id \in disk \ uploads => \E w \in saving : w.id = id /\ w.written
  BY DEF Files!RecordsMatchFiles
<1>1. CASE id \in given
  BY <1>1 DEF UploadsInv, UploadOK
<1>2. CASE id \notin given
  BY <1>2 DEF UploadsInv, UploadTypes
<1> QED  BY <1>1, <1>2

-----------------------------------------------------------------------------
(* Backups.                                                                  *)

BackupMeta == [status : {"in_progress", "completed", "failed"}, timestamp : Int]
DumpsInv ==
    /\ metadata \in Seq(BackupMeta) /\ backups \subseteq DOMAIN metadata
    /\ creating = [step |-> creating.step, id |-> creating.id, listed |-> creating.listed,
                   todo |-> creating.todo]
    /\ creating.step # "idle" => creating.id \in DOMAIN metadata
    /\ Dumps!CompletedHasArchive /\ backupTime \in Int

LEMMA DumpsInit == ASSUME Dumps!Init PROVE DumpsInv
BY DEF Dumps!Init, Dumps!Idle, DumpsInv, Dumps!CompletedHasArchive

LEMMA DumpsCreate == ASSUME DumpsInv, Dumps!CreateBackup PROVE DumpsInv'
<1> PICK m, n : m = [status |-> "in_progress", timestamp |-> backupTime] /\ n = Len(metadata) + 1
  OBVIOUS
<1>1. metadata \in Seq(BackupMeta) /\ m \in BackupMeta /\ n \in Nat /\ m.status = "in_progress"
  BY DEF DumpsInv, BackupMeta
<1>2. /\ metadata' = Append(metadata, m) /\ Len(metadata') = n /\ n \in DOMAIN metadata'
      /\ metadata' \in Seq(BackupMeta) /\ metadata'[n] = m
      /\ \A i \in DOMAIN metadata : i \in DOMAIN metadata' /\ metadata'[i] = metadata[i]
  BY <1>1 DEF Dumps!CreateBackup
<1>3. /\ backups' = backups \cup {n}
      /\ creating' = [step |-> "dump", id |-> n, listed |-> <<>>, todo |-> <<>>]
      /\ creating.step # "remove"
      /\ archives' = archives /\ backupDeletes' = backupDeletes /\ backupTime' = backupTime
  BY <1>2 DEF Dumps!CreateBackup, Dumps!Idle
<1>4. Dumps!CompletedHasArchive'
  BY <1>1, <1>2, <1>3 DEF DumpsInv, Dumps!CompletedHasArchive
<1> QED  BY <1>2, <1>3, <1>4 DEF DumpsInv

\* What the ending of a backup makes of its metadata.
LEMMA DumpsMark ==
  ASSUME DumpsInv, creating.step # "idle", NEW s \in {"completed", "failed"},
         metadata' = [metadata EXCEPT ![creating.id].status = s]
  PROVE  /\ metadata' \in Seq(BackupMeta) /\ DOMAIN metadata' = DOMAIN metadata
         /\ metadata'[creating.id].status = s
         /\ \A i \in DOMAIN metadata : i # creating.id => metadata'[i] = metadata[i]
<1>1. metadata \in Seq(BackupMeta) /\ creating.id \in DOMAIN metadata
  BY DEF DumpsInv
<1>2. PICK i, m : i = creating.id /\ m = [status |-> s,
                                          timestamp |-> metadata[creating.id].timestamp]
  OBVIOUS
<1>3. m \in BackupMeta /\ m.status = s
  <2>1. metadata[i] \in BackupMeta
    BY <1>1, <1>2
  <2> QED  BY <1>2, <2>1 DEF BackupMeta
<1>4. metadata' = [metadata EXCEPT ![i] = m]
  <2>1. PICK k : k = metadata[i]
    OBVIOUS
  <2>2. k \in BackupMeta
    BY <1>1, <1>2, <2>1
  <2>3. [k EXCEPT !.status = s] = m
    BY <1>2, <2>1, <2>2 DEF BackupMeta
  <2>4. metadata' = [metadata EXCEPT ![i] = [k EXCEPT !.status = s]]
    BY <1>1, <1>2, <2>1
  <2> QED  BY <2>3, <2>4
<1> QED  BY <1>1, <1>2, <1>3, <1>4

LEMMA DumpsEnd ==
  ASSUME DumpsInv,
         Dumps!Compressed
         \/ (creating.step \in {"dump", "compress", "cleanup"} /\ Dumps!Failed)
  PROVE  DumpsInv'
<1>1. CASE Dumps!Compressed
  <2>1. PICK l, t : creating' = [creating EXCEPT !.step = "cleanup", !.listed = l, !.todo = t]
    BY <1>1 DEF Dumps!Compressed
  <2>2. creating' = [step |-> "cleanup", id |-> creating.id, listed |-> l, todo |-> t]
    BY <2>1 DEF DumpsInv
  <2>3. /\ archives' = archives \cup {creating.id} /\ creating.step = "compress"
        /\ metadata' = [metadata EXCEPT ![creating.id].status = "completed"]
        /\ UNCHANGED <<backups, backupDeletes, backupTime>>
    BY <1>1 DEF Dumps!Compressed
  <2>4. /\ metadata' \in Seq(BackupMeta) /\ DOMAIN metadata' = DOMAIN metadata
        /\ \A i \in DOMAIN metadata : i # creating.id => metadata'[i] = metadata[i]
    BY <2>3, DumpsMark
  <2>5. Dumps!CompletedHasArchive'
    BY <2>3, <2>4 DEF DumpsInv, Dumps!CompletedHasArchive
  <2> QED  BY <2>2, <2>3, <2>4, <2>5 DEF DumpsInv
<1>2. CASE creating.step \in {"dump", "compress", "cleanup"} /\ Dumps!Failed
  <2>1. /\ metadata' = [metadata EXCEPT ![creating.id].status = "failed"]
        /\ creating' = [step |-> "idle", id |-> 0, listed |-> <<>>, todo |-> <<>>]
        /\ UNCHANGED <<backups, archives, backupDeletes, backupTime>>
    BY <1>2 DEF Dumps!Failed, Dumps!Idle
  <2>2. /\ metadata' \in Seq(BackupMeta) /\ DOMAIN metadata' = DOMAIN metadata
        /\ metadata'[creating.id].status = "failed"
        /\ \A i \in DOMAIN metadata : i # creating.id => metadata'[i] = metadata[i]
    BY <1>2, <2>1, DumpsMark
  <2>3. Dumps!CompletedHasArchive'
    <3>1. creating.step # "remove"
      BY <1>2
    <3>2. \A i \in backups : metadata'[i].status = "completed" => metadata'[i] = metadata[i]
      BY <2>2 DEF DumpsInv
    <3> QED  BY <2>1, <3>1, <3>2 DEF DumpsInv, Dumps!CompletedHasArchive
  <2> QED  BY <2>1, <2>2, <2>3 DEF DumpsInv
<1> QED  BY <1>1, <1>2

LEMMA DumpsCleanup ==
  ASSUME DumpsInv, Dumps!Dumped \/ Dumps!CleanupDeletes \/ Dumps!CleanupDeleted \/ Dumps!CleanupAge
  PROVE  DumpsInv'
<1>1. CASE Dumps!Dumped
  <2>1. /\ creating.step = "dump"
        /\ creating' = [step |-> "compress", id |-> creating.id, listed |-> creating.listed,
                        todo |-> creating.todo]
        /\ UNCHANGED <<backups, metadata, archives, backupDeletes, backupTime>>
    BY <1>1 DEF Dumps!Dumped, DumpsInv
  <2> QED  BY <2>1 DEF DumpsInv, Dumps!CompletedHasArchive
<1>2. CASE Dumps!CleanupDeletes
  <2>1. CASE Dumps!Failed
    BY <1>2, <2>1, DumpsEnd DEF Dumps!CleanupDeletes
  <2>2. CASE ~Dumps!Failed
    <3>1. /\ creating.step = "cleanup" /\ creating' = [creating EXCEPT !.step = "remove"]
          /\ archives' = archives \ {Head(creating.todo)}
          /\ UNCHANGED <<backups, metadata, backupDeletes, backupTime>>
      BY <1>2, <2>2 DEF Dumps!CleanupDeletes
    <3>2. creating' = [step |-> "remove", id |-> creating.id, listed |-> creating.listed,
                       todo |-> creating.todo]
      BY <3>1 DEF DumpsInv
    <3> QED  BY <3>1, <3>2 DEF DumpsInv, Dumps!CompletedHasArchive
  <2> QED  BY <2>1, <2>2
<1>3. CASE Dumps!CleanupDeleted
  <2>1. /\ creating.step = "remove" /\ backups' = backups \ {Head(creating.todo)}
        /\ creating' = [creating EXCEPT !.step = "cleanup", !.todo = Tail(creating.todo)]
        /\ UNCHANGED <<metadata, archives, backupDeletes, backupTime>>
    BY <1>3 DEF Dumps!CleanupDeleted
  <2>2. creating' = [step |-> "cleanup", id |-> creating.id, listed |-> creating.listed,
                     todo |-> Tail(creating.todo)]
    BY <2>1 DEF DumpsInv
  <2> QED  BY <2>1, <2>2 DEF DumpsInv, Dumps!CompletedHasArchive
<1>4. CASE Dumps!CleanupAge
  <2>1. PICK t : creating' = IF t = <<>> THEN Dumps!Idle
               ELSE [creating EXCEPT !.todo = t, !.listed = <<>>]
    BY <1>4 DEF Dumps!CleanupAge
  <2>2. /\ creating.step = "cleanup"
        /\ UNCHANGED <<backups, metadata, archives, backupDeletes, backupTime>>
    BY <1>4 DEF Dumps!CleanupAge
  <2>3. \/ creating' = [step |-> "cleanup", id |-> creating.id, listed |-> <<>>, todo |-> t]
        \/ creating' = [step |-> "idle", id |-> 0, listed |-> <<>>, todo |-> <<>>]
    BY <2>1, <2>2 DEF DumpsInv, Dumps!Idle
  <2> QED  BY <2>2, <2>3 DEF DumpsInv, Dumps!CompletedHasArchive
<1> QED  BY <1>1, <1>2, <1>3, <1>4

LEMMA DumpsSpec == Dumps!Spec => []DumpsInv
<1>1. DumpsInv /\ [Dumps!Next]_(Dumps!vars) => DumpsInv'
  <2> SUFFICES ASSUME DumpsInv, [Dumps!Next]_(Dumps!vars) PROVE DumpsInv'
    OBVIOUS
  <2>1. CASE \/ Dumps!Tick \/ UNCHANGED Dumps!vars
             \/ \E id \in Dumps!Ids : Dumps!RestoreBackup(id) \/ Dumps!Restored(id)
    <3>1. /\ UNCHANGED <<backups, metadata, archives, creating, backupDeletes>>
          /\ backupTime' \in Int
      BY <2>1 DEF Dumps!Tick, Dumps!vars, Dumps!RestoreBackup, Dumps!Restored, DumpsInv
    <3> QED  BY <3>1 DEF DumpsInv, Dumps!CompletedHasArchive
  <2>2. ASSUME NEW id \in Dumps!Ids, Dumps!DeleteBackup(id) \/ Dumps!Deleted(id)
        PROVE  DumpsInv'
    BY <2>2 DEF Dumps!DeleteBackup, Dumps!Deleted, DumpsInv, Dumps!CompletedHasArchive
  <2>3. CASE Dumps!CommandFailed
    BY <2>3, DumpsEnd DEF Dumps!CommandFailed
  <2>4. CASE Dumps!CreateBackup \/ Dumps!Compressed
    BY <2>4, DumpsCreate, DumpsEnd
  <2>5. CASE Dumps!Dumped \/ Dumps!CleanupDeletes \/ Dumps!CleanupDeleted \/ Dumps!CleanupAge
    BY <2>5, DumpsCleanup
  <2> QED  BY <2>1, <2>2, <2>3, <2>4, <2>5 DEF Dumps!Next
<1> QED  BY <1>1, DumpsInit, PTL DEF Dumps!Spec

-----------------------------------------------------------------------------
(* LogFiles.  The buffer holds at least one entry, as the code's 1000 do.    *)

LogLimits == bufferSize \in Nat \ {0} /\ maxFiles \in Nat

LogFile == [day : Nat, renamed : Nat, size : Nat, time : Nat]

\* A directory at a time: one file of a name, and one of a time.
DirectoryOK(fs, n) ==
    /\ IsFiniteSet(fs) /\ fs \subseteq LogFile
    /\ \A f \in fs : f.renamed < n /\ f.time < n
    /\ \A f, g \in fs : f.day = g.day /\ f.renamed = g.renamed => f = g
    /\ \A f, g \in fs : f.time = g.time => f = g

\* The file that is written to comes on top of those the last rotation has left.
DirectoryInv ==
    /\ logTime \in Nat \ {0} /\ logDay \in Nat \ {0} /\ currentLogFile \in Nat
    /\ DirectoryOK(logFiles, logTime)
    /\ \A t \in logRemoved : t < logTime /\ \A f \in logFiles : t < f.time
    /\ logRemoved \subseteq Nat
    /\ logToFile => currentLogFile # 0
    /\ Cardinality(logFiles) <= maxFiles + 1
    /\ currentLogFile # 0 =>
         Cardinality(logFiles \ Logs!Named(currentLogFile)) <= maxFiles

\* The last entries since the buffer was cleared.
BufferInv ==
    /\ logBuffer \in Seq(Nat) /\ logEntries \in Nat /\ Len(logBuffer) <= bufferSize
    /\ \A i \in 1 .. Len(logBuffer) : logBuffer[i] = logEntries - Len(logBuffer) + i
    /\ logEntries - Len(logBuffer) > logCleared => Len(logBuffer) = bufferSize
    /\ logCleared \in Nat

LEMMA LogsCount == ASSUME NEW S PROVE Logs!Cardinality(S) = Cardinality(S)
BY DEF Logs!Cardinality, Cardinality

\* What cleanOldLogFiles leaves: no more than maxFiles, and the newest.
LEMMA CleanedLogs ==
  ASSUME LogLimits, NEW fs, NEW n, n \in Nat, DirectoryOK(fs, n), NEW K, K = fs \ Logs!TooMany(fs)
  PROVE  /\ DirectoryOK(K, n) /\ Cardinality(K) \in Nat /\ Cardinality(K) <= maxFiles
         /\ \A f \in Logs!TooMany(fs) : f \in fs /\ \A g \in K : f.time < g.time
<1> DEFINE Newer(f) == {g \in fs : g.time > f.time}
<1>1. /\ IsFiniteSet(fs) /\ K \subseteq fs /\ fs \subseteq LogFile
      /\ \A f, g \in fs : f.time = g.time => f = g
      /\ \A f \in fs : f.time \in Nat
  BY DEF DirectoryOK, LogFile
<1>2. IsFiniteSet(K) /\ Cardinality(K) \in Nat
  BY <1>1, FS_Subset, FS_CardinalityType
<1>3. ASSUME NEW f \in fs
      PROVE  /\ IsFiniteSet(Newer(f)) /\ Cardinality(Newer(f)) \in Nat
             /\ f \in Logs!TooMany(fs) <=> Cardinality(Newer(f)) >= maxFiles
  <2>1. PICK T : T = Newer(f)
    OBVIOUS
  <2>2. T \in SUBSET fs
    BY <2>1
  <2>3. IsFiniteSet(T) /\ Cardinality(T) \in Nat
    BY <1>1, <2>2, FS_Subset, FS_CardinalityType
  <2>4. f \in Logs!TooMany(fs) <=> Logs!Cardinality(T) >= maxFiles
    BY <2>1 DEF Logs!TooMany
  <2> QED  BY <2>1, <2>3, <2>4, LogsCount
<1>4. DirectoryOK(K, n)
  BY <1>1, <1>2 DEF DirectoryOK
<1>5. Cardinality(K) <= maxFiles
  <2>1. CASE K = {}
    BY <2>1, FS_EmptySet DEF LogLimits
  <2>2. CASE K # {}
    <3>1. PICK T : T = {f.time : f \in K}
      OBVIOUS
    <3>2. T \subseteq Nat /\ T # {}
      BY <1>1, <2>2, <3>1
    <3>3. PICK t \in T : \A m \in T : t <= m
      BY <3>2, LeastNatural
    <3>4. PICK f \in K : f.time = t
      BY <3>1, <3>3
    <3>5. \A g \in K : f.time <= g.time
      BY <3>1, <3>3, <3>4
    <3>6. K \ {f} \in SUBSET Newer(f)
      <4> SUFFICES ASSUME NEW g \in K, g # f PROVE g \in Newer(f)
        OBVIOUS
      <4>1. f \in fs /\ g \in fs /\ f.time \in Nat /\ g.time \in Nat /\ f.time # g.time
        BY <1>1
      <4> QED  BY <3>5, <4>1
    <3>7. PICK R, N : R = K \ {f} /\ N = Newer(f)
      OBVIOUS
    <3>8. Cardinality(R) <= Cardinality(N) /\ Cardinality(N) \in Nat
      BY <1>1, <1>3, <3>6, <3>7, FS_Subset
    <3>9. Cardinality(N) < maxFiles
      <4>1. f \in fs /\ f \notin Logs!TooMany(fs)
        OBVIOUS
      <4>2. ~ (Cardinality(Newer(f)) >= maxFiles) /\ Cardinality(Newer(f)) \in Nat
        BY <1>3, <4>1
      <4> HIDE DEF Newer
      <4> QED  BY <3>7, <4>2 DEF LogLimits
    <3>10. Cardinality(R) = Cardinality(K) - 1
      BY <1>2, <3>7, FS_RemoveElement
    <3> QED  BY <1>2, <3>8, <3>9, <3>10 DEF LogLimits
  <2> QED  BY <2>1, <2>2
<1>6. ASSUME NEW f \in Logs!TooMany(fs), NEW g \in K PROVE f \in fs /\ f.time < g.time
  <2>1. f \in fs /\ g \in fs /\ f.time \in Nat /\ g.time \in Nat /\ g \notin Logs!TooMany(fs)
    BY <1>1 DEF Logs!TooMany
  <2>2. CASE g.time <= f.time
    <3>1. Newer(f) \in SUBSET Newer(g)
      BY <1>1, <2>1, <2>2
    <3>2. PICK F, G : F = Newer(f) /\ G = Newer(g)
      OBVIOUS
    <3>3. Cardinality(F) <= Cardinality(G)
      BY <1>3, <2>1, <3>1, <3>2, FS_Subset
    <3>4. Cardinality(F) >= maxFiles /\ ~ (Cardinality(G) >= maxFiles)
      BY <1>3, <2>1, <3>2
    <3>5. Cardinality(F) \in Nat /\ Cardinality(G) \in Nat
      BY <1>3, <2>1, <3>2
    <3> QED  BY <3>3, <3>4, <3>5 DEF LogLimits
  <2> QED  BY <2>1, <2>2
<1>7. Logs!TooMany(fs) \subseteq fs
  BY DEF Logs!TooMany
<1> QED  BY <1>2, <1>4, <1>5, <1>6, <1>7

\* A rotation renames the file of the day, if it is too large, to a name not there yet.
LEMMA RotatedLogs ==
  ASSUME DirectoryInv
  PROVE  DirectoryOK(Logs!Rotated, logTime + 1) /\ logTime + 1 \in Nat
         /\ \A g \in Logs!Rotated : \E f \in logFiles : g.time = f.time
<1> DEFINE Renamed(f) == IF f.day = logDay /\ f.renamed = 0 /\ f.size >= maxFileSize
                         THEN [f EXCEPT !.renamed = logTime] ELSE f
<1>1. /\ logTime \in Nat /\ logTime > 0 /\ IsFiniteSet(logFiles) /\ logFiles \subseteq LogFile
      /\ \A f \in logFiles : f.renamed < logTime /\ f.time < logTime
      /\ \A f, g \in logFiles : f.day = g.day /\ f.renamed = g.renamed => f = g
      /\ \A f, g \in logFiles : f.time = g.time => f = g
  BY DEF DirectoryInv, DirectoryOK
<1>2. ASSUME NEW f \in logFiles
      PROVE  /\ Renamed(f) \in LogFile /\ Renamed(f).time = f.time /\ Renamed(f).day = f.day
             /\ \/ Renamed(f) = f
                \/ f.renamed = 0 /\ f.day = logDay /\ Renamed(f).renamed = logTime
  <2>1. PICK d, r, s, t : f = [day |-> d, renamed |-> r, size |-> s, time |-> t]
                          /\ d \in Nat /\ r \in Nat /\ s \in Nat /\ t \in Nat
    BY <1>1 DEF LogFile
  <2>2. Renamed(f) = f \/ (Renamed(f) = [f EXCEPT !.renamed = logTime]
                                        /\ f.day = logDay /\ f.renamed = 0)
    OBVIOUS
  <2>3. [f EXCEPT !.renamed = logTime] = [day |-> d, renamed |-> logTime, size |-> s, time |-> t]
    BY <2>1
  <2> HIDE DEF Renamed
  <2>4. CASE Renamed(f) = f
    BY <1>1, <2>4
  <2>5. CASE Renamed(f) = [day |-> d, renamed |-> logTime, size |-> s, time |-> t]
             /\ f.day = logDay /\ f.renamed = 0
    BY <1>1, <2>1, <2>5 DEF LogFile
  <2> QED  BY <2>2, <2>3, <2>4, <2>5
<1>3. Logs!Rotated = {Renamed(f) : f \in logFiles}
  BY DEF Logs!Rotated
<1>4. PICK r : r = [f \in logFiles |-> Renamed(f)]
  OBVIOUS
<1> HIDE DEF Renamed
<1>5. /\ r \in [logFiles -> Logs!Rotated] /\ \A f \in logFiles : r[f] = Renamed(f)
      /\ \A g \in Logs!Rotated : \E f \in logFiles : r[f] = g
  BY <1>3, <1>4
<1>6. IsFiniteSet(Logs!Rotated)
  <2>1. PICK T : T = Logs!Rotated
    OBVIOUS
  <2>2. r \in Surjection(logFiles, T)
    BY <1>5, <2>1 DEF Surjection
  <2>3. IsFiniteSet(T)
    BY <1>1, <2>2, FS_Surjection
  <2> QED  BY <2>1, <2>3
<1>7. Logs!Rotated \subseteq LogFile
  BY <1>2, <1>3
<1>8. ASSUME NEW g \in Logs!Rotated PROVE g.renamed < logTime + 1 /\ g.time < logTime + 1
  <2>1. PICK f \in logFiles : g = Renamed(f)
    BY <1>3
  <2>2. f \in LogFile /\ f.renamed < logTime /\ f.time < logTime
    BY <1>1
  <2>3. f.renamed \in Nat /\ f.time \in Nat
    BY <2>2 DEF LogFile
  <2>4. g.time = f.time /\ (g.renamed = f.renamed \/ g.renamed = logTime)
    BY <1>2, <2>1
  <2> QED  BY <1>1, <2>2, <2>3, <2>4
<1>9. ASSUME NEW g \in Logs!Rotated, NEW h \in Logs!Rotated
      PROVE  /\ g.day = h.day /\ g.renamed = h.renamed => g = h
             /\ g.time = h.time => g = h
  <2>1. PICK f \in logFiles, e \in logFiles : g = Renamed(f) /\ h = Renamed(e)
    BY <1>3
  <2>2. /\ g.day = f.day /\ g.time = f.time /\ h.day = e.day /\ h.time = e.time
        /\ g = f \/ (f.renamed = 0 /\ f.day = logDay /\ g.renamed = logTime)
        /\ h = e \/ (e.renamed = 0 /\ e.day = logDay /\ h.renamed = logTime)
    BY <1>2, <2>1
  <2>3. f.renamed # logTime /\ e.renamed # logTime
    <3>1. f.renamed < logTime /\ e.renamed < logTime
      BY <1>1
    <3> QED  BY <1>1, <3>1
  <2> QED  BY <1>1, <2>1, <2>2, <2>3
<1>10. \A g \in Logs!Rotated : \E f \in logFiles : g.time = f.time
  BY <1>2, <1>3
<1> QED  BY <1>1, <1>6, <1>7, <1>8, <1>9, <1>10 DEF DirectoryOK

LEMMA LogsRotate ==
  ASSUME LogLimits, DirectoryInv, Logs!rotateLogFile, logTime' = logTime + 1, logDay' = logDay
  PROVE  DirectoryInv'
<1>1. PICK fs, K : fs = Logs!Rotated /\ K = fs \ Logs!TooMany(fs)
  OBVIOUS
<1>2. /\ logFiles' = K /\ logRemoved' = logRemoved \cup {f.time : f \in Logs!TooMany(fs)}
      /\ currentLogFile' = logDay
  BY <1>1 DEF Logs!rotateLogFile, Logs!cleanOldLogFiles
<1>3. /\ DirectoryOK(fs, logTime + 1) /\ logTime + 1 \in Nat
      /\ \A g \in fs : \E f \in logFiles : g.time = f.time
  BY <1>1, RotatedLogs
<1>4. PICK n : n = logTime + 1
  OBVIOUS
<1>5. /\ DirectoryOK(K, n) /\ Cardinality(K) \in Nat /\ Cardinality(K) <= maxFiles
      /\ \A f \in Logs!TooMany(fs) : f \in fs /\ \A g \in K : f.time < g.time
  BY <1>1, <1>3, <1>4, CleanedLogs
<1>6. \A g \in fs : g.time \in Nat /\ g.time < logTime + 1
  BY <1>3 DEF DirectoryOK, LogFile
<1>7. ASSUME NEW t \in logRemoved' PROVE t \in Nat /\ t < logTime' /\ \A f \in K : t < f.time
  <2>0. logTime \in Nat
    BY DEF DirectoryInv
  <2>1. CASE t \in logRemoved
    <3>1. t \in Nat /\ t < logTime /\ \A f \in logFiles : t < f.time
      BY <2>1 DEF DirectoryInv
    <3>2. K \subseteq fs
      BY <1>1
    <3> QED  BY <1>3, <2>0, <3>1, <3>2
  <2>2. CASE t \in {f.time : f \in Logs!TooMany(fs)}
    BY <1>5, <1>6, <2>2
  <2> QED  BY <1>2, <2>1, <2>2
<1>8. PICK D : D = K \ Logs!Named(currentLogFile)'
  OBVIOUS
<1>9. IsFiniteSet(K) /\ D \in SUBSET K
  BY <1>5, <1>8 DEF DirectoryOK
<1>10. Cardinality(D) <= maxFiles /\ Cardinality(K) <= maxFiles + 1
  <2>1. Cardinality(D) <= Cardinality(K) /\ IsFiniteSet(D)
    BY <1>9, FS_Subset
  <2>2. Cardinality(D) \in Nat
    BY <2>1, FS_CardinalityType
  <2> QED  BY <1>5, <2>1, <2>2 DEF LogLimits
<1>11. Cardinality(logFiles')  <= maxFiles + 1
  BY <1>2, <1>10
<1>12. Cardinality(logFiles' \ Logs!Named(currentLogFile)') <= maxFiles
  BY <1>2, <1>8, <1>10
<1>13. DirectoryOK(logFiles, logTime)'
  BY <1>2, <1>4, <1>5 DEF DirectoryOK
<1>14. logTime' \in Nat \ {0} /\ logDay' \in Nat \ {0} /\ currentLogFile' \in Nat
         /\ currentLogFile' # 0
  BY <1>2 DEF DirectoryInv
<1> QED  BY <1>2, <1>7, <1>11, <1>12, <1>13, <1>14 DEF DirectoryInv

LEMMA LogsWrite ==
  ASSUME LogLimits, DirectoryInv, Logs!writeLog PROVE DirectoryInv'
<1>1. /\ logTime' = logTime + 1 /\ logTime \in Nat
      /\ UNCHANGED <<logToFile, currentLogFile, logRemoved, logDay>>
      /\ logFiles' = IF logToFile THEN Logs!Appended(currentLogFile) ELSE logFiles
  BY DEF Logs!writeLog, DirectoryInv
<1>2. CASE ~logToFile
  <2>1. logFiles' = logFiles
    BY <1>1, <1>2
  <2>2. DirectoryOK(logFiles, logTime)'
    BY <1>1, <2>1 DEF DirectoryInv, DirectoryOK, LogFile
  <2>3. \A t \in logRemoved : t < logTime'
    BY <1>1 DEF DirectoryInv
  <2> QED  BY <1>1, <2>1, <2>2, <2>3 DEF DirectoryInv, Logs!Named
<1>3. CASE logToFile
  <2>1. PICK c, now, N, D, s :
           /\ c = currentLogFile /\ now = logTime /\ N = Logs!Named(currentLogFile)
           /\ D = logFiles \ N
           /\ s = IF N = {} THEN 1 ELSE 1 + (CHOOSE f \in N : TRUE).size
    OBVIOUS
  <2>2. PICK g : g = [day |-> c, renamed |-> 0, time |-> now, size |-> s]
    OBVIOUS
  <2>3. logFiles' = D \cup {g}
    BY <1>1, <1>3, <2>1, <2>2 DEF Logs!Appended
  <2>4. /\ c \in Nat /\ c # 0 /\ now \in Nat /\ now > 0 /\ N \subseteq logFiles
        /\ D \subseteq logFiles
        /\ \A f \in D : ~(f.day = c /\ f.renamed = 0)
    BY <1>3, <2>1 DEF DirectoryInv, Logs!Named
  <2>5. s \in Nat
    <3>1. CASE N = {}
      BY <2>1, <3>1
    <3>2. CASE N # {}
      <4>1. PICK f \in N : f = CHOOSE e \in N : TRUE
        BY <3>2
      <4>2. f \in LogFile
        BY <2>4 DEF DirectoryInv, DirectoryOK
      <4>3. f.size \in Nat
        BY <4>2 DEF LogFile
      <4> QED  BY <2>1, <3>2, <4>1, <4>3
    <3> QED  BY <3>1, <3>2
  <2>6. g \in LogFile /\ g.day = c /\ g.renamed = 0 /\ g.time = now
    BY <2>2, <2>4, <2>5 DEF LogFile
  <2>7. /\ IsFiniteSet(logFiles) /\ logFiles \subseteq LogFile
        /\ \A f \in logFiles : f.renamed < now /\ f.time < now
        /\ \A f, e \in logFiles : f.day = e.day /\ f.renamed = e.renamed => f = e
        /\ \A f, e \in logFiles : f.time = e.time => f = e
    BY <2>1 DEF DirectoryInv, DirectoryOK
  <2>8. IsFiniteSet(D) /\ g \notin D
    BY <2>4, <2>6, <2>7, FS_Subset
  <2>9. IsFiniteSet(D \cup {g}) /\ Cardinality(D \cup {g}) = Cardinality(D) + 1
    BY <2>8, FS_AddElement
  <2>10. Cardinality(D) <= maxFiles
    BY <2>1, <2>4 DEF DirectoryInv
  <2>11. ASSUME NEW f \in D \cup {g} PROVE f.renamed < now + 1 /\ f.time < now + 1
    <3>1. f \in LogFile /\ ((f.renamed < now /\ f.time < now) \/ f = g)
      BY <2>4, <2>6, <2>7
    <3>2. f.renamed \in Nat /\ f.time \in Nat
      BY <3>1 DEF LogFile
    <3> QED  BY <2>4, <2>6, <3>1, <3>2
  <2>12. ASSUME NEW f \in D \cup {g}, NEW e \in D \cup {g}
         PROVE  /\ f.day = e.day /\ f.renamed = e.renamed => f = e
                /\ f.time = e.time => f = e
    <3>1. \A h \in D : h.time # now
      <4> SUFFICES ASSUME NEW h \in D PROVE h.time # now
        OBVIOUS
      <4>1. h.time < now
        BY <2>4, <2>7
      <4> QED  BY <2>4, <4>1
    <3> QED  BY <2>4, <2>6, <2>7, <3>1
  <2>13. DirectoryOK(D \cup {g}, now + 1)
    BY <2>4, <2>6, <2>7, <2>9, <2>11, <2>12 DEF DirectoryOK
  <2>14. DirectoryOK(logFiles, logTime)'
    BY <1>1, <2>1, <2>3, <2>13
  <2>15. D = logFiles' \ Logs!Named(currentLogFile)'
    BY <1>1, <2>1, <2>3, <2>4, <2>6 DEF Logs!Named
  <2>16. \A t \in logRemoved : t < now /\ t \in Nat /\ \A f \in D \cup {g} : t < f.time
    BY <2>1, <2>4, <2>6 DEF DirectoryInv
  <2>17. \A t \in logRemoved : t < logTime'
    BY <1>1, <2>1, <2>16
  <2>18. Cardinality(logFiles') <= maxFiles + 1
    <3>1. Cardinality(D) \in Nat
      BY <2>8, FS_CardinalityType
    <3> QED  BY <2>3, <2>9, <2>10, <3>1 DEF LogLimits
  <2>19. Cardinality(logFiles' \ Logs!Named(currentLogFile)') <= maxFiles
    BY <2>10, <2>15
  <2>20. logTime' \in Nat \ {0}
    BY <1>1
  <2> QED  BY <1>1, <2>3, <2>14, <2>16, <2>17, <2>18, <2>19, <2>20 DEF DirectoryInv
<1> QED  BY <1>2, <1>3

LEMMA LogsBuffer ==
  ASSUME LogLimits, BufferInv, Logs!writeLog PROVE BufferInv'
<1>1. PICK n, b : n = logEntries + 1 /\
                   b = IF Len(logBuffer) < bufferSize THEN logBuffer ELSE Tail(logBuffer)
  OBVIOUS
<1>2. logEntries' = n /\ logCleared' = logCleared /\ logBuffer' = Append(b, n)
  BY <1>1 DEF Logs!writeLog, Logs!Buffered
<1>3. /\ logBuffer \in Seq(Nat) /\ logEntries \in Nat /\ Len(logBuffer) <= bufferSize
      /\ \A i \in 1 .. Len(logBuffer) : logBuffer[i] = logEntries - Len(logBuffer) + i
      /\ logEntries - Len(logBuffer) > logCleared => Len(logBuffer) = bufferSize
      /\ logCleared \in Nat /\ bufferSize \in Nat \ {0} /\ Len(logBuffer) \in Nat
  BY DEF BufferInv, LogLimits
<1>4. /\ b \in Seq(Nat) /\ Len(b) \in Nat /\ Len(b) + 1 <= bufferSize
      /\ \A i \in 1 .. Len(b) : b[i] = n - (Len(b) + 1) + i
      /\ n - (Len(b) + 1) > logCleared => Len(b) + 1 = bufferSize
  <2>1. CASE Len(logBuffer) < bufferSize
    <3>1. b = logBuffer
      BY <1>1, <2>1
    <3> QED  BY <1>1, <1>3, <2>1, <3>1
  <2>2. CASE Len(logBuffer) = bufferSize
    <3>1. b = Tail(logBuffer)
      BY <1>1, <1>3, <2>2
    <3>2. logBuffer # <<>>
      BY <1>3, <2>2
    <3>3. /\ b \in Seq(Nat) /\ Len(b) = Len(logBuffer) - 1
          /\ \A i \in 1 .. Len(b) : b[i] = logBuffer[i + 1]
      BY <1>3, <3>1, <3>2
    <3>a. PICK l, k, e : l = Len(logBuffer) /\ k = Len(b) /\ e = logEntries
      OBVIOUS
    <3>b. l \in Nat /\ l # 0 /\ e \in Nat /\ l = bufferSize /\ k = l - 1 /\ n = e + 1
      BY <1>1, <1>3, <2>2, <3>3, <3>a
    <3>4. /\ Len(b) \in Nat /\ Len(b) + 1 <= bufferSize
          /\ n - (Len(b) + 1) > logCleared => Len(b) + 1 = bufferSize
      BY <3>a, <3>b
    <3>5. ASSUME NEW i \in 1 .. Len(b) PROVE b[i] = n - (Len(b) + 1) + i
      <4>1. i + 1 \in 1 .. Len(logBuffer)
        BY <3>a, <3>b
      <4>2. b[i] = e - l + (i + 1)
        BY <1>3, <3>3, <3>a, <4>1
      <4>3. e - l + (i + 1) = n - (k + 1) + i
        BY <3>b
      <4> QED  BY <3>a, <4>2, <4>3
    <3> QED  BY <3>3, <3>4, <3>5
  <2> QED  BY <1>3, <2>1, <2>2
<1>5. n \in Nat
  BY <1>1, <1>3
<1>6. /\ Append(b, n) \in Seq(Nat) /\ Len(Append(b, n)) = Len(b) + 1
      /\ Append(b, n)[Len(b) + 1] = n /\ \A i \in 1 .. Len(b) : Append(b, n)[i] = b[i]
  BY <1>4, <1>5
<1>7. \A i \in 1 .. Len(b) + 1 : Append(b, n)[i] = n - (Len(b) + 1) + i
  BY <1>4, <1>5, <1>6
<1> QED  BY <1>2, <1>3, <1>4, <1>5, <1>6, <1>7 DEF BufferInv

LogsInv == DirectoryInv /\ BufferInv

LEMMA LogsSpec == ASSUME LogLimits PROVE Logs!Spec => []LogsInv
<1>1. Logs!Init => LogsInv
  <2> SUFFICES ASSUME Logs!Init PROVE LogsInv
    OBVIOUS
  <2>1. logFiles = {} /\ logRemoved = {} /\ logTime = 1 /\ logDay = 1
        /\ currentLogFile = IF logToFile THEN 1 ELSE 0
    BY DEF Logs!Init
  <2>2. logFiles \ Logs!Named(currentLogFile) = {}
    BY <2>1
  <2>3. Cardinality(logFiles) = 0 /\ Cardinality(logFiles \ Logs!Named(currentLogFile)) = 0
    BY <2>1, <2>2, FS_EmptySet
  <2>4. DirectoryInv
    BY <2>1, <2>3, FS_EmptySet DEF DirectoryInv, DirectoryOK, LogLimits
  <2>5. BufferInv
    BY DEF Logs!Init, BufferInv, LogLimits
  <2> QED  BY <2>4, <2>5 DEF LogsInv
<1>2. LogsInv /\ [Logs!Next]_(Logs!vars) => LogsInv'
  <2> SUFFICES ASSUME LogsInv, [Logs!Next]_(Logs!vars) PROVE LogsInv'
    OBVIOUS
  <2>1. CASE Logs!writeLog
    BY <2>1, LogsWrite, LogsBuffer DEF LogsInv
  <2>2. CASE Logs!enableFileLogging
    <3>1. DirectoryInv'
      BY <2>2, LogsRotate DEF Logs!enableFileLogging, LogsInv
    <3> QED  BY <2>2, <3>1 DEF Logs!enableFileLogging, LogsInv, BufferInv
  <2>3. CASE Logs!Restart
    <3>1. BufferInv'
      BY <2>3 DEF Logs!Restart, LogsInv, BufferInv, LogLimits
    <3>2. logTime' = logTime + 1 /\ logDay' = logDay
      BY <2>3 DEF Logs!Restart
    <3>3. CASE Logs!rotateLogFile
      BY <3>1, <3>2, <3>3, LogsRotate DEF LogsInv
    <3>4. CASE logToFile' = FALSE /\ currentLogFile' = 0 /\ UNCHANGED <<logFiles, logRemoved>>
      <4>1. DirectoryOK(logFiles, logTime)'
        BY <3>2, <3>4 DEF LogsInv, DirectoryInv, DirectoryOK, LogFile
      <4>2. DirectoryInv'
        BY <3>2, <3>4, <4>1 DEF LogsInv, DirectoryInv
      <4> QED  BY <3>1, <4>2 DEF LogsInv
    <3> QED  BY <2>3, <3>3, <3>4 DEF Logs!Restart
  <2>4. CASE Logs!clearBuffer \/ Logs!disableFileLogging \/ Logs!NextDay \/ UNCHANGED Logs!vars
    <3>1. /\ UNCHANGED <<currentLogFile, logFiles, logRemoved, logTime, logEntries>>
          /\ logDay' = logDay \/ logDay' = logDay + 1
          /\ logToFile' => logToFile
      BY <2>4 DEF Logs!clearBuffer, Logs!disableFileLogging, Logs!NextDay, Logs!vars
    <3>2. \/ logBuffer' = logBuffer /\ logCleared' = logCleared
          \/ logBuffer' = <<>> /\ logCleared' = logEntries
      BY <2>4 DEF Logs!clearBuffer, Logs!disableFileLogging, Logs!NextDay, Logs!vars
    <3>3. BufferInv'
      <4>1. CASE logBuffer' = logBuffer /\ logCleared' = logCleared
        BY <3>1, <4>1 DEF LogsInv, BufferInv
      <4>2. CASE logBuffer' = <<>> /\ logCleared' = logEntries
        <5>1. logBuffer' \in Seq(Nat) /\ Len(logBuffer') = 0 /\ logEntries \in Nat
          BY <4>2 DEF LogsInv, BufferInv
        <5>2. logEntries' = logEntries /\ logCleared' = logEntries /\ bufferSize \in Nat
          BY <3>1, <4>2 DEF LogLimits
        <5> QED  BY <5>1, <5>2 DEF BufferInv
      <4> QED  BY <3>2, <4>1, <4>2
    <3>4. DirectoryInv'
      BY <3>1 DEF LogsInv, DirectoryInv, DirectoryOK, Logs!Named
    <3> QED  BY <3>3, <3>4 DEF LogsInv
  <2> QED  BY <2>1, <2>2, <2>3, <2>4 DEF Logs!Next
<1> QED  BY <1>1, <1>2, PTL DEF Logs!Spec

LEMMA LogsPromises == ASSUME LogsInv PROVE Logs!LogsAreKept
<1>1. /\ Len(logBuffer) <= bufferSize
      /\ logEntries - Len(logBuffer) > logCleared => Len(logBuffer) = bufferSize
  BY DEF LogsInv, BufferInv
<1>2. logBuffer = [i \in 1 .. Len(logBuffer) |-> logEntries - Len(logBuffer) + i]
  BY DEF LogsInv, BufferInv
<1>3. Logs!Cardinality(logFiles) <= maxFiles + 1
  BY LogsCount DEF LogsInv, DirectoryInv
<1>4. /\ \A f, g \in logFiles : f.day = g.day /\ f.renamed = g.renamed => f = g
      /\ \A t \in logRemoved, f \in logFiles : t < f.time
  BY DEF LogsInv, DirectoryInv, DirectoryOK
<1> QED  BY <1>1, <1>2, <1>3, <1>4 DEF Logs!LogsAreKept

\* Whatever uploads, deletions, dumps, clean-ups, rotations and failed writes overlap: a
\* record of an upload has its file and a file its record, a backup that is said to be complete
\* has its archive, the buffer of the log holds the newest entries in their order, and of the
\* log files only the oldest are removed, until no more than maxFiles + 1 are left.
THEOREM FilesStayRight ==
  ASSUME LogLimits
  PROVE  Files!Spec /\ Dumps!Spec /\ Logs!Spec => []FilesMatchRecords
<1>1. UploadsInv => Files!RecordsMatchFiles
  BY UploadsPromise
<1>2. DumpsInv => Dumps!CompletedHasArchive
  BY DEF DumpsInv
<1>3. UploadsInv /\ DumpsInv /\ LogsInv => FilesMatchRecords
  BY <1>1, <1>2, LogsPromises DEF FilesMatchRecords
<1> QED  BY <1>3, UploadsSpec, DumpsSpec, LogsSpec, PTL

-----------------------------------------------------------------------------
(* Sponsors.                                                                 *)

\* The steps of the filter: what is kept of the first i elements.
Keeps(s, e, n, f) ==
    f = [i \in 0 .. n |-> IF i = 0 THEN <<>>
                          ELSE IF s[i] = e THEN f[i - 1] ELSE Append(f[i - 1], s[i])]

LEMMA KeepsExists ==
  ASSUME NEW s, NEW e, NEW n \in Nat PROVE \E f : Keeps(s, e, n, f)
<1> DEFINE T == {k \in Nat : ~ \E f : Keeps(s, e, k, f)}
<1>1. SUFFICES ASSUME T # {} PROVE FALSE
  OBVIOUS
<1>2. PICK k \in T : \A m \in T : k <= m
  BY <1>1, LeastNatural
<1>3. CASE k = 0
  <2>1. PICK f : f = [i \in 0 .. 0 |-> <<>>]
    OBVIOUS
  <2>2. f = [i \in 0 .. k |-> IF i = 0 THEN <<>>
                              ELSE IF s[i] = e THEN f[i - 1] ELSE Append(f[i - 1], s[i])]
    BY <1>3, <2>1
  <2> QED  BY <2>2 DEF Keeps
<1>4. CASE k # 0
  <2>1. k \in Nat /\ k - 1 \in Nat /\ k - 1 \notin T
    BY <1>2, <1>4
  <2>2. PICK f : Keeps(s, e, k - 1, f)
    BY <2>1
  <2>3. PICK l : l = IF s[k] = e THEN f[k - 1] ELSE Append(f[k - 1], s[k])
    OBVIOUS
  <2>4. PICK g : g = [i \in 0 .. k |-> IF i = k THEN l ELSE f[i]]
    OBVIOUS
  <2>5. ASSUME NEW i \in 0 .. k
        PROVE  g[i] = IF i = 0 THEN <<>>
                      ELSE IF s[i] = e THEN g[i - 1] ELSE Append(g[i - 1], s[i])
    <3>1. CASE i = k
      <4>1. g[i] = l /\ i - 1 \in 0 .. k /\ g[i - 1] = f[k - 1]
        BY <1>4, <2>1, <2>4, <3>1
      <4> QED  BY <1>4, <2>3, <3>1, <4>1
    <3>2. CASE i # k
      <4>1. i \in 0 .. k - 1 /\ g[i] = f[i]
        BY <2>1, <2>4, <3>2
      <4>2. f[i] = IF i = 0 THEN <<>>
                   ELSE IF s[i] = e THEN f[i - 1] ELSE Append(f[i - 1], s[i])
        BY <2>2, <4>1 DEF Keeps
      <4>3. i # 0 => g[i - 1] = f[i - 1]
        BY <2>1, <2>4, <4>1
      <4> QED  BY <4>1, <4>2, <4>3
    <3> QED  BY <3>1, <3>2
  <2>6. g = [i \in 0 .. k |-> g[i]]
    BY <2>4
  <2>7. g = [i \in 0 .. k |-> IF i = 0 THEN <<>>
                              ELSE IF s[i] = e THEN g[i - 1] ELSE Append(g[i - 1], s[i])]
    BY <2>5, <2>6
  <2> QED  BY <2>7 DEF Keeps
<1> QED  BY <1>3, <1>4

\* removeEventFromSponsor takes the event, and no other, from the list.
LEMMA WithoutIs ==
  ASSUME NEW S, NEW s \in Seq(S), NEW e
  PROVE  /\ Sponsor!Without(s, e) \in Seq(S)
         /\ Sponsor!Listed(Sponsor!Without(s, e)) = Sponsor!Listed(s) \ {e}
<1> DEFINE f == CHOOSE g : g = [i \in 0 .. Len(s) |-> IF i = 0 THEN <<>>
                          ELSE IF s[i] = e THEN g[i - 1] ELSE Append(g[i - 1], s[i])]
<1>1. Sponsor!Without(s, e) = f[Len(s)]
  BY DEF Sponsor!Without
<1>2. Len(s) \in Nat
  OBVIOUS
<1>3. Keeps(s, e, Len(s), f)
  <2>1. \E g : Keeps(s, e, Len(s), g)
    BY <1>2, KeepsExists
  <2> QED  BY <2>1 DEF Keeps
<1> HIDE DEF f
<1> DEFINE Kept(i) == f[i] \in Seq(S) /\ {f[i][j] : j \in DOMAIN f[i]} = {s[j] : j \in 1 .. i} \ {e}
           T == {i \in 0 .. Len(s) : ~Kept(i)}
<1>4. T = {}
  <2>1. SUFFICES ASSUME T # {} PROVE FALSE
    OBVIOUS
  <2>2. T \subseteq Nat
    BY <1>2
  <2>3. PICK k \in T : \A m \in T : k <= m
    BY <2>1, <2>2, LeastNatural
  <2>4. k \in 0 .. Len(s) /\ ~Kept(k)
    OBVIOUS
  <2>5. f[k] = IF k = 0 THEN <<>> ELSE IF s[k] = e THEN f[k - 1] ELSE Append(f[k - 1], s[k])
    BY <1>2, <1>3, <2>4 DEF Keeps
  <2>6. CASE k = 0
    BY <2>4, <2>5, <2>6
  <2>7. CASE k # 0
    <3>1. k - 1 \in 0 .. Len(s) /\ k - 1 \notin T /\ k \in DOMAIN s
      <4> HIDE DEF T
      <4>1. k - 1 \in 0 .. Len(s) /\ k \in DOMAIN s /\ ~ (k <= k - 1)
        BY <1>2, <2>4, <2>7
      <4> QED  BY <2>3, <4>1
    <3>2. PICK l : l = f[k - 1]
      OBVIOUS
    <3>3. l \in Seq(S) /\ {l[j] : j \in DOMAIN l} = {s[j] : j \in 1 .. k - 1} \ {e}
      BY <3>1, <3>2
    <3>4. {s[j] : j \in 1 .. k} = {s[j] : j \in 1 .. k - 1} \cup {s[k]}
      BY <1>2, <2>4, <2>7
    <3>5. CASE s[k] = e
      <4>1. f[k] = l /\ {s[j] : j \in 1 .. k} \ {e} = {s[j] : j \in 1 .. k - 1} \ {e}
        BY <2>5, <2>7, <3>2, <3>4, <3>5
      <4> QED  BY <2>4, <3>3, <4>1
    <3>6. CASE s[k] # e
      <4>1. s[k] \in S
        BY <3>1
      <4>2. PICK a : a = Append(l, s[k])
        OBVIOUS
      <4>3. a \in Seq(S) /\ {a[j] : j \in DOMAIN a} = {l[j] : j \in DOMAIN l} \cup {s[k]}
        <5>1. /\ a \in Seq(S) /\ Len(a) = Len(l) + 1 /\ a[Len(l) + 1] = s[k] /\ Len(l) \in Nat
              /\ \A j \in 1 .. Len(l) : a[j] = l[j]
          BY <3>3, <4>1, <4>2
        <5>2. DOMAIN a = 1 .. Len(l) + 1 /\ DOMAIN l = 1 .. Len(l)
          BY <3>3, <5>1
        <5> QED  BY <5>1, <5>2
      <4>4. f[k] = a
        BY <2>5, <2>7, <3>2, <3>6, <4>2
      <4> QED  BY <2>4, <3>3, <3>4, <3>6, <4>3, <4>4
    <3> QED  BY <3>5, <3>6
  <2> QED  BY <2>6, <2>7
<1>5. Kept(Len(s))
  <2>1. PICK n : n = Len(s)
    OBVIOUS
  <2>2. n \in 0 .. Len(s) /\ n \notin T
    <3> HIDE DEF T
    <3>1. n \in Nat
      BY <1>2, <2>1
    <3>2. n \in 0 .. n /\ n \notin T
      BY <1>4, <3>1
    <3> QED  BY <2>1, <3>2
  <2>3. Kept(n)
    BY <2>2
  <2> QED  BY <2>1, <2>3
<1>6. DOMAIN s = 1 .. Len(s)
  OBVIOUS
<1> HIDE DEF T
<1> QED  BY <1>1, <1>5, <1>6 DEF Sponsor!Listed

SponsorDoc == [exists : BOOLEAN, eventIds : Seq(SponsorEvents), version : Nat]

\* A copy is of the document or older, and of the same version only if it is the same.
SponsorInv ==
    /\ doc = [exists |-> doc.exists, eventIds |-> doc.eventIds, version |-> doc.version]
    /\ doc \in SponsorDoc /\ sponsorRequests \in Nat
    /\ \A r \in requests : r.event \in SponsorEvents /\ r.copy \in SponsorDoc
    /\ sponsorRequests = 0 => requests = {}
    /\ doc.exists => /\ sponsorRequests # 0
                     /\ \A r \in requests : /\ r.copy.version <= doc.version
                                            /\ r.copy.version = doc.version =>
                                                  r.copy.eventIds = doc.eventIds
    /\ Sponsor!AddedEventStays

LEMMA SponsorInit == ASSUME Sponsor!Init PROVE SponsorInv
<1>1. <<>> \in Seq(SponsorEvents) /\ DOMAIN <<>> = {}
  OBVIOUS
<1> QED  BY <1>1 DEF Sponsor!Init, Sponsor!Absent, SponsorInv, SponsorDoc,
            Sponsor!AddedEventStays, Sponsor!Listed

LEMMA SponsorCreate ==
  ASSUME SponsorInv, NEW s \in {<<>>} \cup {<<e>> : e \in SponsorEvents}, Sponsor!CreateSponsor(s)
  PROVE  SponsorInv'
<1>1. s \in Seq(SponsorEvents)
  <2>1. CASE s = <<>>
    BY <2>1
  <2>2. ASSUME NEW e \in SponsorEvents, s = <<e>> PROVE s \in Seq(SponsorEvents)
    BY <2>2
  <2> QED  BY <2>1, <2>2
<1>2. /\ sponsorRequests' = 1 /\ requests' = {} /\ promised' = Sponsor!Listed(s)
      /\ doc' = [exists |-> TRUE, eventIds |-> s, version |-> 0]
  BY DEF Sponsor!CreateSponsor, SponsorInv
<1> QED  BY <1>1, <1>2 DEF SponsorInv, SponsorDoc, Sponsor!AddedEventStays

LEMMA SponsorLoad ==
  ASSUME SponsorInv, NEW kind, NEW e \in SponsorEvents, Sponsor!Load(kind, e) PROVE SponsorInv'
<1> PICK r : r = [no |-> sponsorRequests', kind |-> kind, event |-> e, copy |-> doc]
  OBVIOUS
<1>1. /\ doc' = doc /\ promised' = promised /\ sponsorRequests' = sponsorRequests + 1
      /\ requests' = requests \cup {r}
  BY DEF Sponsor!Load
<1>2. r.event = e /\ r.copy = doc
  OBVIOUS
<1>3. doc \in SponsorDoc /\ doc.version \in Nat /\ sponsorRequests + 1 \in Nat
        /\ sponsorRequests + 1 # 0
  BY DEF SponsorInv, SponsorDoc
<1> HIDE DEF SponsorDoc
<1>4. ASSUME NEW q \in requests' PROVE q.event \in SponsorEvents /\ q.copy \in SponsorDoc
  BY <1>1, <1>2, <1>3 DEF SponsorInv
<1>5. ASSUME doc.exists, NEW q \in requests'
      PROVE  /\ q.copy.version <= doc.version
             /\ q.copy.version = doc.version => q.copy.eventIds = doc.eventIds
  BY <1>1, <1>2, <1>3, <1>5 DEF SponsorInv
<1> QED  BY <1>1, <1>3, <1>4, <1>5 DEF SponsorInv, Sponsor!AddedEventStays

\* A save replaces the document by d, of the next version.
LEMMA SponsorSaves ==
  ASSUME SponsorInv, NEW r \in requests, requests' = requests \ {r},
         sponsorRequests' = sponsorRequests, doc.exists,
         NEW l \in Seq(SponsorEvents),
         doc' = [exists |-> TRUE, eventIds |-> l, version |-> doc.version + 1],
         promised' \subseteq Sponsor!Listed(l)
  PROVE  SponsorInv'
<1>1. /\ doc'.exists = TRUE /\ doc'.eventIds = l /\ doc'.version = doc.version + 1
      /\ doc' = [exists |-> doc'.exists, eventIds |-> doc'.eventIds, version |-> doc'.version]
  OBVIOUS
<1>2. doc.version \in Nat /\ doc' \in SponsorDoc
  BY DEF SponsorInv, SponsorDoc
<1>3. ASSUME NEW q \in requests'
        PROVE q.copy.version <= doc.version + 1 /\ q.copy.version # doc.version + 1
  <2>1. q.copy.version <= doc.version /\ q.copy \in SponsorDoc
    BY DEF SponsorInv
  <2>2. q.copy.version \in Nat
    BY <2>1 DEF SponsorDoc
  <2> QED  BY <1>2, <2>1, <2>2
<1> QED  BY <1>1, <1>2, <1>3 DEF SponsorInv, Sponsor!AddedEventStays

LEMMA SponsorDone ==
  ASSUME SponsorInv, NEW r \in requests,
         Sponsor!AddEvent(r) \/ Sponsor!RemoveEvent(r) \/ Sponsor!UpdateSponsor(r)
  PROVE  SponsorInv'
<1>1. /\ requests' = requests \ {r} /\ sponsorRequests' = sponsorRequests
      /\ r.event \in SponsorEvents /\ r.copy \in SponsorDoc
  BY DEF Sponsor!AddEvent, Sponsor!RemoveEvent, Sponsor!UpdateSponsor, Sponsor!Done, SponsorInv
<1>2. CASE doc' = doc /\ promised' = promised
  BY <1>1, <1>2 DEF SponsorInv, Sponsor!AddedEventStays
<1>3. /\ doc.eventIds \in Seq(SponsorEvents) /\ promised \subseteq Sponsor!Listed(doc.eventIds)
      /\ doc.exists \in BOOLEAN
      /\ doc = [exists |-> doc.exists, eventIds |-> doc.eventIds, version |-> doc.version]
  BY DEF SponsorInv, SponsorDoc, Sponsor!AddedEventStays
<1>4. CASE /\ doc.exists /\ promised' = promised \cup {r.event}
           /\ doc' = [doc EXCEPT !.eventIds = Append(doc.eventIds, r.event),
                                !.version = doc.version + 1]
  <2>1. PICK l : l = Append(doc.eventIds, r.event)
    OBVIOUS
  <2>2. l \in Seq(SponsorEvents) /\ Sponsor!Listed(l) = Sponsor!Listed(doc.eventIds) \cup {r.event}
    <3>1. PICK s : s = doc.eventIds
      OBVIOUS
    <3>2. /\ s \in Seq(SponsorEvents) /\ l = Append(s, r.event) /\ Len(s) \in Nat
          /\ l \in Seq(SponsorEvents) /\ Len(l) = Len(s) + 1 /\ l[Len(s) + 1] = r.event
          /\ \A j \in 1 .. Len(s) : l[j] = s[j]
      BY <1>1, <1>3, <2>1, <3>1
    <3>3. DOMAIN l = 1 .. Len(s) + 1 /\ DOMAIN s = 1 .. Len(s)
      BY <3>2
    <3> QED  BY <3>1, <3>2, <3>3 DEF Sponsor!Listed
  <2>3. doc' = [doc EXCEPT !.eventIds = l, !.version = doc.version + 1]
    BY <1>4, <2>1
  <2>4. doc' = [exists |-> TRUE, eventIds |-> l, version |-> doc.version + 1]
    BY <1>3, <1>4, <2>3
  <2> QED  BY <1>1, <1>3, <1>4, <2>2, <2>4, SponsorSaves
<1>5. CASE /\ doc.exists /\ doc.version = r.copy.version /\ promised' = promised \ {r.event}
           /\ doc' = [doc EXCEPT !.eventIds = Sponsor!Without(r.copy.eventIds, r.event),
                                 !.version = doc.version + 1]
  <2>1. r.copy.eventIds = doc.eventIds
    BY <1>5 DEF SponsorInv
  <2>2. PICK l : l = Sponsor!Without(doc.eventIds, r.event)
    OBVIOUS
  <2>3. l \in Seq(SponsorEvents) /\ Sponsor!Listed(l) = Sponsor!Listed(doc.eventIds) \ {r.event}
    BY <1>3, <2>2, WithoutIs
  <2>4. doc' = [exists |-> TRUE, eventIds |-> l, version |-> doc.version + 1]
    BY <1>3, <1>5, <2>1, <2>2
  <2> QED  BY <1>1, <1>3, <1>5, <2>3, <2>4, SponsorSaves
<1>6. CASE Sponsor!AddEvent(r)
  BY <1>2, <1>4, <1>6 DEF Sponsor!AddEvent, Sponsor!Rejected
<1>7. CASE Sponsor!RemoveEvent(r)
  BY <1>2, <1>5, <1>7 DEF Sponsor!RemoveEvent, Sponsor!Rejected, Sponsor!Saved
<1>8. CASE Sponsor!UpdateSponsor(r)
  BY <1>2, <1>8 DEF Sponsor!UpdateSponsor, Sponsor!Rejected
<1> QED  BY <1>6, <1>7, <1>8

LEMMA SponsorSpec == Sponsor!Spec => []SponsorInv
<1>1. SponsorInv /\ [Sponsor!Next]_(Sponsor!vars) => SponsorInv'
  <2> SUFFICES ASSUME SponsorInv, [Sponsor!Next]_(Sponsor!vars) PROVE SponsorInv'
    OBVIOUS
  <2>1. CASE Sponsor!DeleteSponsor
    <3>1. /\ doc' = [exists |-> FALSE, eventIds |-> <<>>, version |-> 0]
          /\ promised' = {} /\ requests' = requests /\ sponsorRequests' = sponsorRequests
          /\ <<>> \in Seq(SponsorEvents)
      BY <2>1 DEF Sponsor!DeleteSponsor, Sponsor!Absent
    <3> QED  BY <3>1 DEF SponsorInv, SponsorDoc, Sponsor!AddedEventStays
  <2>2. CASE UNCHANGED Sponsor!vars
    BY <2>2 DEF Sponsor!vars, SponsorInv, Sponsor!AddedEventStays
  <2> QED  BY <2>1, <2>2, SponsorCreate, SponsorLoad, SponsorDone DEF Sponsor!Next
<1> QED  BY <1>1, SponsorInit, PTL DEF Sponsor!Spec

-----------------------------------------------------------------------------
(* EventStatuses.                                                            *)

StatusCall ==
    [op : Statuses!Ops, status : Statuses!EventStatus, found : Statuses!EventStatus, host : BOOLEAN,
     step : {"new", "findById", "notFound", "refused", "save", "deleteOne", "failed", "done"}]

\* A request gets to its save with what it found, unless another has written since.
StatusCallOK(c) ==
    LET k == eventCalls[c] IN
    /\ k \in StatusCall
    /\ k.step = "save" => k.op \in {"updateStatus", "closeRegistration"}
    /\ k.step = "deleteOne" => k.op = "delete"
    /\ k.step = "save" /\ k.op = "updateStatus" /\ c \notin overtaken => event = {k.found}
    /\ k.step = "done" =>
         /\ k.op = "updateStatus" /\ c \notin overtaken => event = {k.status}
         /\ k.op = "delete" => event = {}
         /\ k.op \notin {"publishResults", "addParticipant"}

StatusInv ==
    /\ event = {} \/ \E s \in Statuses!EventStatus : event = {s}
    /\ eventCalls = [c \in StatusCalls |-> eventCalls[c]]
    /\ \A c \in StatusCalls : StatusCallOK(c)

LEMMA StatusInit == ASSUME Statuses!Init PROVE StatusInv
BY DEF Statuses!Init, StatusInv, StatusCallOK, StatusCall, Statuses!EventStatus, Statuses!Ops

\* What one request's step does to its record: k0 becomes k.
StatusMoves(c, k) ==
    /\ eventCalls' = [d \in StatusCalls |-> eventCalls'[d]]
    /\ eventCalls'[c] = k
    /\ \A d \in StatusCalls \ {c} : eventCalls'[d] = eventCalls[d]

LEMMA StatusGoto ==
  ASSUME StatusInv, NEW c \in StatusCalls, NEW s, Statuses!Goto(c, s)
  PROVE  LET k == eventCalls[c] IN
         StatusMoves(c, [op |-> k.op, step |-> s, host |-> k.host, status |-> k.status,
                         found |-> k.found])
<1>1. PICK f : f = eventCalls
  OBVIOUS
<1>2. PICK o, t, h, u, g : f[c] = [op |-> o, step |-> t, host |-> h, status |-> u, found |-> g]
  BY <1>1 DEF StatusInv, StatusCallOK, StatusCall
<1>3. f = [d \in StatusCalls |-> f[d]] /\ eventCalls' = [f EXCEPT ![c].step = s]
  BY <1>1 DEF StatusInv, Statuses!Goto
<1>4. [f EXCEPT ![c].step = s] = [f EXCEPT ![c] = [op |-> o, step |-> s, host |-> h,
                                                   status |-> u, found |-> g]]
  <2> DEFINE k == f[c]
  <2>1. [f EXCEPT ![c].step = s] = [f EXCEPT ![c] = [k EXCEPT !.step = s]]
    OBVIOUS
  <2>2. k = [op |-> o, step |-> t, host |-> h, status |-> u, found |-> g]
    BY <1>2
  <2> HIDE DEF k
  <2>3. [k EXCEPT !.step = s] = [op |-> o, step |-> s, host |-> h, status |-> u, found |-> g]
    BY <2>2
  <2> QED  BY <2>1, <2>3
<1> QED  BY <1>1, <1>2, <1>3, <1>4 DEF StatusMoves

LEMMA StatusFound ==
  ASSUME StatusInv, NEW c \in StatusCalls, NEW s, NEW st,
         eventCalls' = [eventCalls EXCEPT ![c].step = st, ![c].found = s]
  PROVE  LET k == eventCalls[c] IN
         StatusMoves(c, [op |-> k.op, step |-> st, host |-> k.host, status |-> k.status,
                         found |-> s])
<1>1. PICK f : f = eventCalls
  OBVIOUS
<1>2. PICK o, t, h, u, g : f[c] = [op |-> o, step |-> t, host |-> h, status |-> u, found |-> g]
  BY <1>1 DEF StatusInv, StatusCallOK, StatusCall
<1>3. f = [d \in StatusCalls |-> f[d]] /\ eventCalls' = [f EXCEPT ![c].step = st, ![c].found = s]
  BY <1>1 DEF StatusInv
<1> DEFINE f1 == [f EXCEPT ![c].step = st]
           k1 == [op |-> o, step |-> st, host |-> h, status |-> u, found |-> g]
<1>4. eventCalls' = [f1 EXCEPT ![c].found = s]
  BY <1>3
<1>5. f1 = [f EXCEPT ![c] = k1]
  <2> DEFINE k == f[c]
  <2>1. f1 = [f EXCEPT ![c] = [k EXCEPT !.step = st]]
    OBVIOUS
  <2>2. k = [op |-> o, step |-> t, host |-> h, status |-> u, found |-> g]
    BY <1>2
  <2> HIDE DEF k, f1
  <2>3. [k EXCEPT !.step = st] = k1
    BY <2>2
  <2> QED  BY <2>1, <2>3
<1> HIDE DEF f1
<1>6. f1 = [d \in StatusCalls |-> f1[d]] /\ f1[c] = k1 /\ \A d \in StatusCalls \ {c} : f1[d] = f[d]
  BY <1>3, <1>5
<1>7. [f1 EXCEPT ![c].found = s] = [f1 EXCEPT ![c] = [op |-> o, step |-> st, host |-> h,
                                                      status |-> u, found |-> s]]
  <2> DEFINE k == f1[c]
  <2>1. [f1 EXCEPT ![c].found = s] = [f1 EXCEPT ![c] = [k EXCEPT !.found = s]]
    OBVIOUS
  <2>2. k = k1
    BY <1>6
  <2> HIDE DEF k
  <2>3. [k EXCEPT !.found = s] = [op |-> o, step |-> st, host |-> h, status |-> u, found |-> s]
    BY <2>2
  <2> QED  BY <2>1, <2>3
<1> QED  BY <1>1, <1>2, <1>4, <1>6, <1>7 DEF StatusMoves

\* Those that write nothing.
LEMMA StatusStays ==
  ASSUME StatusInv, NEW c \in StatusCalls, NEW k \in StatusCall, StatusMoves(c, k),
         UNCHANGED <<event, overtaken>>,
         k.step = "save" => k.op \in {"updateStatus", "closeRegistration"},
         k.step = "deleteOne" => k.op = "delete",
         k.step = "save" /\ k.op = "updateStatus" /\ c \notin overtaken => event = {k.found},
         k.step = "done" =>
           /\ k.op = "updateStatus" /\ c \notin overtaken => event = {k.status}
           /\ k.op = "delete" => event = {}
           /\ k.op \notin {"publishResults", "addParticipant"}
  PROVE  StatusInv'
<1>1. ASSUME NEW d \in StatusCalls PROVE StatusCallOK(d)'
  <2>1. CASE d = c
    BY <2>1 DEF StatusMoves, StatusCallOK
  <2>2. CASE d # c
    BY <2>2 DEF StatusMoves, StatusCallOK, StatusInv
  <2> QED  BY <2>1, <2>2
<1> QED  BY <1>1 DEF StatusInv, StatusMoves

\* A write, after which every other request that has found the event is overtaken.
LEMMA StatusWrites ==
  ASSUME StatusInv, NEW c \in StatusCalls, NEW k \in StatusCall, StatusMoves(c, k),
         NEW new, Statuses!Write(c, new), new = {} \/ (new = {k.status} /\ event # {}),
         k.step = "done", k.op = "updateStatus" => new = {k.status}, k.op = "delete" => new = {},
         k.op \in {"updateStatus", "delete"}
  PROVE  StatusInv'
<1>1. /\ event' = new
      /\ overtaken' =
           overtaken \cup {d \in StatusCalls \ {c} : eventCalls[d].step \notin {"new", "findById"}}
  BY DEF Statuses!Write
<1>2. ASSUME NEW d \in StatusCalls PROVE StatusCallOK(d)'
  <2>1. CASE d = c
    BY <1>1, <2>1 DEF StatusMoves, StatusCallOK
  <2>2. CASE d # c
    <3>1. eventCalls'[d] = eventCalls[d] /\ StatusCallOK(d)
      BY <2>2 DEF StatusMoves, StatusInv
    <3>2. CASE eventCalls[d].step \in {"new", "findById"}
      BY <3>1, <3>2 DEF StatusCallOK
    <3>3. CASE eventCalls[d].step \notin {"new", "findById"}
      <4>1. d \in overtaken'
        BY <1>1, <2>2, <3>3
      <4>2. eventCalls[d].step = "done" /\ eventCalls[d].op = "delete" => event' = {}
        BY <1>1, <3>1 DEF StatusCallOK
      <4> QED  BY <3>1, <4>1, <4>2 DEF StatusCallOK
    <3> QED  BY <3>2, <3>3
  <2> QED  BY <2>1, <2>2
<1>3. k.status \in Statuses!EventStatus
  BY DEF StatusCall
<1> QED  BY <1>1, <1>2, <1>3 DEF StatusInv, StatusMoves

LEMMA StatusRequest ==
  ASSUME StatusInv, NEW c \in StatusCalls, NEW op \in Statuses!Ops, NEW host \in BOOLEAN,
         NEW s \in Statuses!EventStatus, Statuses!Request(c, op, host, s)
  PROVE  StatusInv'
<1>1. PICK k : k = [op |-> op, step |-> "findById", host |-> host, status |-> s, found |-> s]
  OBVIOUS
<1>2. k \in StatusCall /\ k.step = "findById"
  BY <1>1 DEF StatusCall
<1>3. eventCalls' = [eventCalls EXCEPT ![c] = k] /\ UNCHANGED <<event, overtaken>>
  BY <1>1 DEF Statuses!Request
<1>4. StatusMoves(c, k)
  BY <1>3 DEF StatusMoves, StatusInv
<1> QED  BY <1>2, <1>3, <1>4, StatusStays

LEMMA StatusFind ==
  ASSUME StatusInv, NEW c \in StatusCalls, Statuses!findById(c) PROVE StatusInv'
<1>1. PICK k : k = eventCalls[c]
  OBVIOUS
<1>2. k \in StatusCall
  BY <1>1 DEF StatusInv, StatusCallOK
<1>3. CASE event = {} /\ Statuses!Goto(c, "notFound")
  <2>1. PICK m : m = [op |-> k.op, step |-> "notFound", host |-> k.host, status |-> k.status,
                      found |-> k.found]
    OBVIOUS
  <2>2. m \in StatusCall /\ m.step = "notFound" /\ StatusMoves(c, m)
    BY <1>1, <1>2, <1>3, <2>1, StatusGoto DEF StatusCall
  <2> QED  BY <2>2, StatusStays DEF Statuses!findById
<1>4. ASSUME NEW s \in event,
             eventCalls' = [eventCalls EXCEPT ![c].step = Statuses!AfterFind(c, s), ![c].found = s]
      PROVE  StatusInv'
  <2>1. s \in Statuses!EventStatus /\ event = {s}
    BY <1>4 DEF StatusInv
  <2>2. PICK t, m : /\ t = Statuses!AfterFind(c, s)
                    /\ m = [op |-> k.op, step |-> t, host |-> k.host, status |-> k.status,
                            found |-> s]
    OBVIOUS
  <2>3. StatusMoves(c, m)
    <3>1. PICK u : u = s
      OBVIOUS
    <3>2. eventCalls' = [eventCalls EXCEPT ![c].step = t, ![c].found = u]
      BY <1>4, <2>2, <3>1
    <3> QED  BY <1>1, <2>2, <3>1, <3>2, StatusFound
  <2>4. /\ t \in {"refused", "save", "done", "deleteOne"}
        /\ t = "save" => k.op \in {"updateStatus", "closeRegistration"}
        /\ t = "deleteOne" => k.op = "delete"
        /\ t = "done" => k.op \in {"removeParticipant", "isOpenForSubmissions"}
    <3>1. s # "undefined"
      BY <2>1 DEF Statuses!EventStatus
    <3>2. k.op \in Statuses!Ops
      BY <1>2 DEF StatusCall
    <3> QED  BY <1>1, <2>2, <3>1, <3>2
         DEF Statuses!AfterFind, Statuses!Ops, Statuses!ACTIVE, Statuses!updateStatus,
             Statuses!closeRegistration, Statuses!publishResults, Statuses!addParticipant,
             Statuses!removeParticipant, Statuses!isOpenForSubmissions, Statuses!delete
  <2>5. /\ m \in StatusCall /\ m.step = t /\ m.op = k.op /\ m.found = s
    BY <1>2, <2>1, <2>2, <2>4 DEF StatusCall
  <2> QED  BY <2>1, <2>3, <2>4, <2>5, StatusStays DEF Statuses!findById
<1> QED  BY <1>3, <1>4 DEF Statuses!findById

LEMMA StatusSave ==
  ASSUME StatusInv, NEW c \in StatusCalls,
         Statuses!save(c) \/ Statuses!deleteOne(c) PROVE StatusInv'
<1>1. PICK k : k = eventCalls[c]
  OBVIOUS
<1>2. k \in StatusCall /\ StatusCallOK(c)
  BY <1>1 DEF StatusInv, StatusCallOK
<1>3. CASE event = {} /\ Statuses!Goto(c, "failed") /\ UNCHANGED <<event, overtaken>>
  <2>1. PICK m : m = [op |-> k.op, step |-> "failed", host |-> k.host, status |-> k.status,
                      found |-> k.found]
    OBVIOUS
  <2>2. m \in StatusCall /\ m.step = "failed" /\ StatusMoves(c, m)
    BY <1>1, <1>2, <1>3, <2>1, StatusGoto DEF StatusCall
  <2> QED  BY <1>3, <2>2, StatusStays
<1>4. CASE Statuses!Goto(c, "done")
           /\ ~(event = {} /\ Statuses!Goto(c, "failed") /\ UNCHANGED <<event, overtaken>>)
  <2>1. PICK m : m = [op |-> k.op, step |-> "done", host |-> k.host, status |-> k.status,
                      found |-> k.found]
    OBVIOUS
  <2>2. /\ m \in StatusCall /\ m.step = "done" /\ m.op = k.op /\ m.status = k.status
        /\ m.found = k.found /\ StatusMoves(c, m)
    BY <1>1, <1>2, <1>4, <2>1, StatusGoto DEF StatusCall
  <2>3. CASE Statuses!deleteOne(c)
    <3>1. Statuses!Write(c, {}) /\ k.op = "delete"
      BY <1>1, <1>2, <2>3 DEF Statuses!deleteOne, StatusCallOK
    <3>2. PICK n : n = {}
      OBVIOUS
    <3>3. Statuses!Write(c, n)
      BY <3>1, <3>2
    <3>4. m.op = "delete" /\ m.op # "updateStatus"
      BY <2>2, <3>1
    <3>5. /\ m \in StatusCall /\ StatusMoves(c, m) /\ m.step = "done"
          /\ n = {} \/ (n = {m.status} /\ event # {})
          /\ (m.op = "updateStatus" => n = {m.status}) /\ (m.op = "delete" => n = {})
          /\ m.op \in {"updateStatus", "delete"}
      BY <2>2, <3>2, <3>4
    <3> QED  BY <3>3, <3>5, StatusWrites
  <2>4. CASE Statuses!save(c)
    <3>1. /\ k.op \in {"updateStatus", "closeRegistration"} /\ event # {} /\ k.step = "save"
          /\ IF k.op = "updateStatus" /\ k.status # k.found THEN Statuses!Write(c, {k.status})
             ELSE UNCHANGED <<event, overtaken>>
      BY <1>1, <1>2, <1>4, <2>4 DEF Statuses!save, StatusCallOK
    <3>2. CASE k.op = "updateStatus" /\ k.status # k.found
      BY <2>2, <3>1, <3>2, StatusWrites
    <3>3. CASE ~(k.op = "updateStatus" /\ k.status # k.found)
      <4>1. k.op = "updateStatus" /\ c \notin overtaken => event = {k.status}
        BY <1>1, <1>2, <3>1, <3>3 DEF StatusCallOK
      <4> QED  BY <2>2, <3>1, <3>3, <4>1, StatusStays
    <3> QED  BY <3>2, <3>3
  <2> QED  BY <2>3, <2>4
<1> QED  BY <1>3, <1>4 DEF Statuses!save, Statuses!deleteOne

LEMMA StatusesSpec == Statuses!Spec => []StatusInv
<1>1. StatusInv /\ [Statuses!Next]_(Statuses!vars) => StatusInv'
  <2> SUFFICES ASSUME StatusInv, [Statuses!Next]_(Statuses!vars) PROVE StatusInv'
    OBVIOUS
  <2>1. CASE UNCHANGED Statuses!vars
    BY <2>1 DEF Statuses!vars, StatusInv, StatusCallOK
  <2> QED  BY <2>1, StatusRequest, StatusFind, StatusSave DEF Statuses!Next
<1> QED  BY <1>1, StatusInit, PTL DEF Statuses!Spec

LEMMA StatusPromise == ASSUME StatusInv PROVE Statuses!StatusIsAsAsked
BY DEF StatusInv, StatusCallOK, StatusCall, Statuses!StatusIsAsAsked

-----------------------------------------------------------------------------
(* Teams.                                                                    *)

TeamOps == {"createTeam"} \cup Team!OwnersOps \cup Team!InvitedOps

TeamCall ==
    [op : TeamOps, user : TeamUsers \cup {0}, name : TeamNames \cup {0}, team : Nat,
     step : {"new", "find", "save", "saved", "refused"}]

\* A team is as its maker made it.
TeamOK(t) ==
    \E u \in TeamUsers : t.ownerId = Team!ObjectId(u) /\ t.members = {Team!Text(u)}
      /\ t.invitations = {}

TeamCallOK(k) ==
    /\ k \in TeamCall
    /\ k.step # "new" => k.user \in TeamUsers /\ k.name \in TeamNames
    /\ k.op # "createTeam" /\ k.step = "find" => k.team \in DOMAIN teams
    /\ k.op = "createTeam" /\ k.step = "saved" =>
         /\ k.team \in DOMAIN teams /\ teams[k.team].name = k.name
         /\ teams[k.team].members = {Team!Text(k.user)}

TeamsInv ==
    /\ teams \in Seq(Team!Team) /\ \A n \in DOMAIN teams : TeamOK(teams[n])
    /\ \A m, n \in DOMAIN teams : teams[m].name = teams[n].name => m = n
    /\ teamCalls = [c \in TeamCalls |-> teamCalls[c]]
    /\ \A c \in TeamCalls : TeamCallOK(teamCalls[c])

LEMMA TeamsInit == ASSUME Team!Init PROVE TeamsInv
<1>1. teamCalls = [c \in TeamCalls |-> [op |-> "createTeam", user |-> 0, name |-> 0, team |-> 0,
                                        step |-> "new"]]
  BY DEF Team!Init
<1>2. PICK k : k = [op |-> "createTeam", user |-> 0, name |-> 0, team |-> 0, step |-> "new"]
  OBVIOUS
<1>3. k \in TeamCall /\ k.step = "new"
  BY <1>2 DEF TeamCall, TeamOps
<1>4. teams = <<>> /\ TeamCallOK(k)
  BY <1>3 DEF Team!Init, TeamCallOK
<1>5. teamCalls = [c \in TeamCalls |-> k]
  BY <1>1, <1>2
<1> QED  BY <1>4, <1>5 DEF TeamsInv

\* One request's step takes it to k, while teams are only added.
LEMMA TeamsMove ==
  ASSUME TeamsInv, NEW c \in TeamCalls, NEW k,
         teamCalls' = [teamCalls EXCEPT ![c] = k], TeamCallOK(k)',
         \A n \in DOMAIN teams : n \in DOMAIN teams' /\ teams'[n] = teams[n]
  PROVE  /\ teamCalls' = [d \in TeamCalls |-> teamCalls'[d]]
         /\ \A d \in TeamCalls : TeamCallOK(teamCalls[d])'
<1>1. /\ teamCalls' = [d \in TeamCalls |-> teamCalls'[d]] /\ teamCalls'[c] = k
      /\ \A d \in TeamCalls \ {c} : teamCalls'[d] = teamCalls[d]
  BY DEF TeamsInv
<1>2. ASSUME NEW d \in TeamCalls PROVE TeamCallOK(teamCalls[d])'
  <2>1. CASE d = c
    BY <1>1, <2>1 DEF TeamCallOK
  <2>2. CASE d # c
    <3>1. PICK j : j = teamCalls[d]
      OBVIOUS
    <3>2. teamCalls'[d] = j /\ TeamCallOK(j)
      BY <1>1, <2>2, <3>1 DEF TeamsInv
    <3>3. TeamCallOK(j)'
      BY <3>2 DEF TeamCallOK
    <3> QED  BY <3>2, <3>3 DEF TeamCallOK
  <2> QED  BY <2>1, <2>2
<1> QED  BY <1>1, <1>2

\* And most steps only change their request's.
LEMMA TeamsStay ==
  ASSUME TeamsInv, NEW c \in TeamCalls, NEW k, teamCalls' = [teamCalls EXCEPT ![c] = k],
         teams' = teams, TeamCallOK(k)
  PROVE  TeamsInv'
<1>1. TeamCallOK(k)'
  BY DEF TeamCallOK
<1>2. \A n \in DOMAIN teams : n \in DOMAIN teams' /\ teams'[n] = teams[n]
  OBVIOUS
<1>3. /\ teamCalls' = [d \in TeamCalls |-> teamCalls'[d]]
      /\ \A d \in TeamCalls : TeamCallOK(teamCalls[d])'
  BY <1>1, <1>2, TeamsMove
<1> QED  BY <1>3 DEF TeamsInv, TeamOK

LEMMA TeamsGoto ==
  ASSUME TeamsInv, NEW c \in TeamCalls, NEW s, Team!Goto(c, s)
  PROVE  LET k == teamCalls[c] IN
         teamCalls' = [teamCalls EXCEPT ![c] =
            [op |-> k.op, user |-> k.user, name |-> k.name, team |-> k.team, step |-> s]]
<1>1. PICK f : f = teamCalls
  OBVIOUS
<1>2. PICK o, u, n, t, st : f[c] = [op |-> o, user |-> u, name |-> n, team |-> t, step |-> st]
  BY <1>1 DEF TeamsInv, TeamCallOK, TeamCall
<1>3. teamCalls' = [f EXCEPT ![c].step = s]
  BY <1>1 DEF Team!Goto
<1> DEFINE k == f[c]
<1>4. [f EXCEPT ![c].step = s] = [f EXCEPT ![c] = [k EXCEPT !.step = s]]
  OBVIOUS
<1>5. k = [op |-> o, user |-> u, name |-> n, team |-> t, step |-> st]
  BY <1>2
<1> HIDE DEF k
<1>6. [k EXCEPT !.step = s] = [op |-> o, user |-> u, name |-> n, team |-> t, step |-> s]
  BY <1>5
<1> QED  BY <1>1, <1>2, <1>3, <1>4, <1>6

LEMMA TeamsSaved ==
  ASSUME TeamsInv, NEW c \in TeamCalls, NEW s, NEW m,
         teamCalls' = [teamCalls EXCEPT ![c].step = s, ![c].team = m]
  PROVE  LET k == teamCalls[c] IN
         teamCalls' = [teamCalls EXCEPT ![c] =
            [op |-> k.op, user |-> k.user, name |-> k.name, team |-> m, step |-> s]]
<1>1. PICK f : f = teamCalls
  OBVIOUS
<1>2. PICK o, u, n, t, st : f[c] = [op |-> o, user |-> u, name |-> n, team |-> t, step |-> st]
  BY <1>1 DEF TeamsInv, TeamCallOK, TeamCall
<1>3. teamCalls' = [f EXCEPT ![c].step = s, ![c].team = m] /\ f = [d \in TeamCalls |-> f[d]]
  BY <1>1 DEF TeamsInv
<1> DEFINE f1 == [f EXCEPT ![c].step = s]
           k == f[c]
           k1 == [op |-> o, user |-> u, name |-> n, team |-> t, step |-> s]
           k2 == [op |-> o, user |-> u, name |-> n, team |-> m, step |-> s]
<1>4. teamCalls' = [f1 EXCEPT ![c].team = m]
  BY <1>3
<1>5. f1 = [f EXCEPT ![c] = [k EXCEPT !.step = s]]
  OBVIOUS
<1>6. k = [op |-> o, user |-> u, name |-> n, team |-> t, step |-> st]
  BY <1>2
<1> HIDE DEF k, f1
<1>7. [k EXCEPT !.step = s] = k1
  BY <1>6
<1>8. f1 = [f EXCEPT ![c] = k1]
  BY <1>5, <1>7
<1>9. f1 = [d \in TeamCalls |-> f1[d]] /\ f1[c] = k1
  BY <1>3, <1>8
<1> DEFINE j == f1[c]
<1>10. [f1 EXCEPT ![c].team = m] = [f1 EXCEPT ![c] = [j EXCEPT !.team = m]]
  OBVIOUS
<1>11. j = k1
  BY <1>9
<1> HIDE DEF j
<1>12. [j EXCEPT !.team = m] = k2
  BY <1>11
<1> HIDE DEF k1, k2
<1>13. [f1 EXCEPT ![c] = k2] = [f EXCEPT ![c] = k2]
  BY <1>3, <1>8
<1>14. teamCalls' = [f EXCEPT ![c] = k2]
  BY <1>4, <1>10, <1>12, <1>13
<1> QED  BY <1>1, <1>2, <1>14 DEF k2

LEMMA TeamsRequest ==
  ASSUME TeamsInv, NEW c \in TeamCalls, NEW o, NEW u \in TeamUsers, NEW n \in TeamNames,
         NEW t \in Nat, Team!Request(c, o, u, n, t),
         o = "createTeam" \/ (o \in Team!OwnersOps \cup Team!InvitedOps /\ t \in DOMAIN teams)
  PROVE  TeamsInv'
<1>1. PICK k : k = [op |-> o, user |-> u, name |-> n, team |-> t, step |-> "find"]
  OBVIOUS
<1>2. k \in TeamCall /\ k.op = o /\ k.user = u /\ k.name = n /\ k.team = t /\ k.step = "find"
  BY <1>1 DEF TeamCall, TeamOps
<1>3. TeamCallOK(k)
  BY <1>2 DEF TeamCallOK
<1>4. teamCalls' = [teamCalls EXCEPT ![c] = k] /\ teams' = teams
  BY <1>1 DEF Team!Request
<1> QED  BY <1>3, <1>4, TeamsStay

LEMMA TeamsAsked ==
  ASSUME TeamsInv, NEW c \in TeamCalls, NEW u \in TeamUsers,
         \/ \E k \in TeamNames : Team!createTeam(c, u, k)
         \/ \E o \in Team!OwnersOps \cup Team!InvitedOps : Team!ForTeam(c, o, u)
  PROVE  TeamsInv'
<1>1. ASSUME NEW k \in TeamNames, Team!createTeam(c, u, k) PROVE TeamsInv'
  BY <1>1, TeamsRequest DEF Team!createTeam
<1>2. ASSUME NEW o \in Team!OwnersOps \cup Team!InvitedOps, Team!ForTeam(c, o, u) PROVE TeamsInv'
  <2>1. PICK n \in DOMAIN teams : Team!Request(c, o, u, teams[n].name, n)
    BY <1>2 DEF Team!ForTeam
  <2>2. PICK k : k = teams[n].name
    OBVIOUS
  <2>3. n \in Nat /\ k \in TeamNames /\ Team!Request(c, o, u, k, n)
    <3>1. teams \in Seq(Team!Team)
      BY DEF TeamsInv
    <3>2. n \in Nat /\ teams[n] \in Team!Team
      BY <2>1, <3>1
    <3> QED  BY <2>1, <2>2, <3>2 DEF Team!Team
  <2> QED  BY <2>3, TeamsRequest
<1> QED  BY <1>1, <1>2

LEMMA TeamsFind ==
  ASSUME TeamsInv, NEW c \in TeamCalls,
         Team!FindByName(c) \/ Team!FindForOwner(c) \/ Team!FindInvitation(c)
  PROVE  TeamsInv'
<1>1. PICK k : k = teamCalls[c]
  OBVIOUS
<1>2. TeamCallOK(k) /\ k \in TeamCall /\ k.user \in TeamUsers /\ k.name \in TeamNames
  BY <1>1 DEF TeamsInv, TeamCallOK, Team!FindByName, Team!FindForOwner, Team!FindInvitation,
              Team!At
<1>3. ASSUME Team!FindForOwner(c) \/ Team!FindInvitation(c) PROVE Team!Goto(c, "refused")
  <2>1. k.op # "createTeam" /\ k.step = "find"
    BY <1>1, <1>3 DEF Team!FindForOwner, Team!FindInvitation, Team!OwnersOps, Team!InvitedOps
  <2>2. k.team \in DOMAIN teams
    BY <1>2, <2>1 DEF TeamCallOK
  <2>3. PICK u \in TeamUsers :
           teams[k.team].ownerId = Team!ObjectId(u) /\ teams[k.team].invitations = {}
    BY <2>2 DEF TeamsInv, TeamOK
  <2>4. ~Team!IsOwner(k.team, k.user)
    BY <2>3 DEF Team!IsOwner, Team!ObjectId, Team!Text
  <2> QED  BY <1>1, <1>3, <2>3, <2>4 DEF Team!FindForOwner, Team!FindInvitation
<1>4. PICK s \in {"save", "refused"} : Team!Goto(c, s)
  BY <1>3 DEF Team!FindByName
<1>5. PICK m : m = [op |-> k.op, user |-> k.user, name |-> k.name, team |-> k.team, step |-> s]
  OBVIOUS
<1>6. teamCalls' = [teamCalls EXCEPT ![c] = m]
  BY <1>1, <1>4, <1>5, TeamsGoto
<1>7. m \in TeamCall /\ m.step = s /\ m.user = k.user /\ m.name = k.name
  BY <1>2, <1>5 DEF TeamCall
<1>8. TeamCallOK(m)
  BY <1>2, <1>7 DEF TeamCallOK
<1>9. teams' = teams
  BY DEF Team!FindByName, Team!FindForOwner, Team!FindInvitation
<1> QED  BY <1>6, <1>8, <1>9, TeamsStay

LEMMA TeamsSave == ASSUME TeamsInv, NEW c \in TeamCalls, Team!Save(c) PROVE TeamsInv'
<1>1. PICK k : k = teamCalls[c]
  OBVIOUS
<1>2. /\ TeamCallOK(k) /\ k \in TeamCall /\ k.op = "createTeam"
      /\ k.user \in TeamUsers /\ k.name \in TeamNames
  BY <1>1 DEF TeamsInv, TeamCallOK, Team!Save, Team!At
<1>3. CASE ~Team!Fits(k.name)
  <2>1. teams' = teams /\ Team!Goto(c, "refused")
    BY <1>1, <1>3 DEF Team!Save
  <2>2. PICK m : m = [op |-> k.op, user |-> k.user, name |-> k.name, team |-> k.team,
                      step |-> "refused"]
    OBVIOUS
  <2>3. teamCalls' = [teamCalls EXCEPT ![c] = m]
    BY <1>1, <2>1, <2>2, TeamsGoto
  <2>4. m \in TeamCall /\ m.step = "refused" /\ m.user = k.user /\ m.name = k.name
    BY <1>2, <2>2 DEF TeamCall
  <2>5. TeamCallOK(m)
    BY <1>2, <2>4 DEF TeamCallOK
  <2> QED  BY <2>1, <2>3, <2>5, TeamsStay
<1>4. CASE Team!Fits(k.name)
  <2>1. PICK t, n : /\ t = [name |-> k.name, ownerId |-> Team!ObjectId(k.user),
                            members |-> {Team!Text(k.user)}, invitations |-> {}]
                    /\ n = Len(teams) + 1
    OBVIOUS
  <2>2. teams' = Append(teams, t)
        /\ teamCalls' = [teamCalls EXCEPT ![c].step = "saved", ![c].team = n]
    BY <1>1, <1>4, <2>1 DEF Team!Save
  <2>3. k.user \in TeamUsers /\ k.name \in TeamNames
    BY <1>2
  <2>4. t \in Team!Team /\ TeamOK(t) /\ t.name = k.name /\ t.members = {Team!Text(k.user)}
    BY <2>1, <2>3 DEF Team!Team, TeamOK
  <2>5. /\ teams' \in Seq(Team!Team) /\ n \in Nat /\ n \in DOMAIN teams' /\ teams'[n] = t
        /\ DOMAIN teams' = DOMAIN teams \cup {n}
        /\ \A i \in DOMAIN teams : i \in DOMAIN teams' /\ teams'[i] = teams[i]
    <3>1. teams \in Seq(Team!Team) /\ Len(teams) \in Nat /\ DOMAIN teams = 1 .. Len(teams)
      BY DEF TeamsInv
    <3>2. /\ teams' \in Seq(Team!Team) /\ Len(teams') = n /\ n \in Nat /\ teams'[n] = t
          /\ \A i \in 1 .. Len(teams) : teams'[i] = teams[i]
      BY <2>1, <2>2, <2>4, <3>1
    <3> QED  BY <2>1, <3>1, <3>2
  <2>6. \A i \in DOMAIN teams : teams[i].name # k.name
    BY <1>4 DEF Team!Fits, Team!Named
  <2>7. \A i, j \in DOMAIN teams' : teams'[i].name = teams'[j].name => i = j
    BY <2>4, <2>5, <2>6 DEF TeamsInv
  <2>8. \A i \in DOMAIN teams' : TeamOK(teams[i])'
    BY <2>4, <2>5 DEF TeamsInv, TeamOK
  <2>9. PICK m : m = [op |-> k.op, user |-> k.user, name |-> k.name, team |-> n, step |-> "saved"]
    OBVIOUS
  <2>10. teamCalls' = [teamCalls EXCEPT ![c] = m]
    BY <1>1, <2>2, <2>9, TeamsSaved
  <2>11. m \in TeamCall /\ m.op = "createTeam" /\ m.team = n /\ m.name = k.name /\ m.user = k.user
    BY <1>2, <2>5, <2>9 DEF TeamCall
  <2>12. TeamCallOK(m)'
    BY <2>3, <2>4, <2>5, <2>11 DEF TeamCallOK
  <2>13. /\ teamCalls' = [d \in TeamCalls |-> teamCalls'[d]]
         /\ \A d \in TeamCalls : TeamCallOK(teamCalls[d])'
    BY <2>5, <2>10, <2>12, TeamsMove
  <2> QED  BY <2>5, <2>7, <2>8, <2>13 DEF TeamsInv
<1> QED  BY <1>3, <1>4

LEMMA TeamsSpec == Team!Spec => []TeamsInv
<1>1. TeamsInv /\ [Team!Next]_(Team!vars) => TeamsInv'
  <2> SUFFICES ASSUME TeamsInv, [Team!Next]_(Team!vars) PROVE TeamsInv'
    OBVIOUS
  <2>1. CASE UNCHANGED Team!vars
    BY <2>1 DEF Team!vars, TeamsInv, TeamCallOK, TeamOK
  <2>2. ASSUME NEW c \in TeamCalls, NEW u \in TeamUsers,
               \/ Team!updateTeam(c, u) \/ Team!deleteTeam(c, u) \/ Team!inviteMember(c, u)
               \/ Team!removeMember(c, u) \/ Team!acceptInvitation(c, u)
                 \/ Team!declineInvitation(c, u)
        PROVE  TeamsInv'
    <3>1. \E o \in Team!OwnersOps \cup Team!InvitedOps : Team!ForTeam(c, o, u)
      BY <2>2 DEF Team!OwnersOps, Team!InvitedOps, Team!updateTeam, Team!deleteTeam,
            Team!inviteMember, Team!removeMember, Team!acceptInvitation, Team!declineInvitation
    <3> QED  BY <3>1, TeamsAsked
  <2>3. ASSUME NEW c \in TeamCalls, NEW u \in TeamUsers, NEW k \in TeamNames,
               Team!createTeam(c, u, k)
        PROVE  TeamsInv'
    BY <2>3, TeamsAsked
  <2> QED  BY <2>1, <2>2, <2>3, TeamsFind, TeamsSave DEF Team!Next
<1> QED  BY <1>1, TeamsInit, PTL DEF Team!Spec

LEMMA TeamsPromise == ASSUME TeamsInv PROVE Team!NamesAreUnique
<1>1. \A c \in TeamCalls : TeamCallOK(teamCalls[c]) /\ teamCalls[c] \in TeamCall
  BY DEF TeamsInv, TeamCallOK
<1> QED  BY <1>1 DEF TeamsInv, TeamCallOK, Team!NamesAreUnique, Team!At, Team!getTeamsForUser

-----------------------------------------------------------------------------
(* Pages.  A page has at least one document.                                 *)

PageLimits == pageSize \in Nat \ {0} /\ MaxDocs \in Nat

LEMMA PagesCount == ASSUME NEW S PROVE Listed!Cardinality(S) = Cardinality(S)
BY DEF Listed!Cardinality, Cardinality

\* The documents of a set that are listed before d, and how many they are.
Newer(D, d) == {e \in D : e > d}
Rank(D, d) == Cardinality(Newer(D, d))

\* A finite set of document numbers.
Docs(D) == D \subseteq Nat /\ IsFiniteSet(D)

LEMMA RankType ==
  ASSUME NEW D, Docs(D), NEW d
  PROVE  IsFiniteSet(Newer(D, d)) /\ Rank(D, d) \in Nat
<1>1. Newer(D, d) \in SUBSET D
  BY DEF Newer
<1>2. IsFiniteSet(Newer(D, d))
  BY <1>1, FS_Subset DEF Docs
<1> QED  BY <1>2, FS_CardinalityType DEF Rank

\* What is taken away, or comes, moves those listed after it by one place.
LEMMA RankWithout ==
  ASSUME NEW D, Docs(D), NEW x \in D, NEW d \in Nat
  PROVE  Rank(D \ {x}, d) = IF x > d THEN Rank(D, d) - 1 ELSE Rank(D, d)
<1>1. Newer(D \ {x}, d) = Newer(D, d) \ {x} /\ (x \in Newer(D, d) <=> x > d)
  BY DEF Newer
<1>2. IsFiniteSet(Newer(D, d))
  BY RankType
<1>3. Cardinality(Newer(D, d) \ {x})
        = IF x \in Newer(D, d) THEN Cardinality(Newer(D, d)) - 1 ELSE Cardinality(Newer(D, d))
  BY <1>2, FS_RemoveElement
<1> QED  BY <1>1, <1>3 DEF Rank

LEMMA RankWith ==
  ASSUME NEW D, Docs(D), NEW x \in Nat \ D, NEW d \in Nat
  PROVE  Rank(D \cup {x}, d) = IF x > d THEN Rank(D, d) + 1 ELSE Rank(D, d)
<1>1. IsFiniteSet(Newer(D, d)) /\ x \notin Newer(D, d)
  BY RankType DEF Newer
<1>2. CASE x > d
  <2>1. Newer(D \cup {x}, d) = Newer(D, d) \cup {x}
    BY <1>2 DEF Newer
  <2>2. Cardinality(Newer(D, d) \cup {x}) = Cardinality(Newer(D, d)) + 1
    BY <1>1, FS_AddElement
  <2> QED  BY <1>2, <2>1, <2>2 DEF Rank
<1>3. CASE ~(x > d)
  <2>1. Newer(D \cup {x}, d) = Newer(D, d)
    BY <1>3 DEF Newer
  <2> QED  BY <1>3, <2>1 DEF Rank
<1> QED  BY <1>2, <1>3

\* No two of the documents have one place.
LEMMA RankOrder ==
  ASSUME NEW D, Docs(D), NEW d \in D, NEW e \in D, e < d
  PROVE  Rank(D, d) + 1 <= Rank(D, e)
<1>1. IsFiniteSet(Newer(D, d)) /\ d \notin Newer(D, d) /\ IsFiniteSet(Newer(D, e))
  <2>1. d \in Nat
    BY DEF Docs
  <2> QED  BY <2>1, RankType DEF Newer
<1>2. Newer(D, d) \cup {d} \in SUBSET Newer(D, e)
  <2> SUFFICES ASSUME NEW x \in Newer(D, d) \cup {d} PROVE x \in D /\ x > e
    BY DEF Newer
  <2>1. x \in D /\ (x > d \/ x = d)
    BY DEF Newer
  <2>2. x \in Nat /\ d \in Nat /\ e \in Nat
    BY <2>1 DEF Docs
  <2> QED  BY <2>1, <2>2
<1>3. PICK A, B : A = Newer(D, d) \cup {d} /\ B = Newer(D, e)
  OBVIOUS
<1>4. Cardinality(A) <= Cardinality(B)
  BY <1>1, <1>2, <1>3, FS_Subset
<1>5. Cardinality(A) = Cardinality(Newer(D, d)) + 1
  BY <1>1, <1>3, FS_AddElement
<1> QED  BY <1>3, <1>4, <1>5 DEF Rank

\* At most as many documents are listed from place k on as there are beyond k.
LEMMA RankedBeyond ==
  ASSUME NEW D, Docs(D), NEW k \in Nat, NEW Y, Y = {d \in D : Rank(D, d) >= k}
  PROVE  /\ IsFiniteSet(Y) /\ Cardinality(Y) \in Nat /\ Cardinality(D) \in Nat
         /\ Y = {} \/ Cardinality(Y) + k <= Cardinality(D)
<1>1. IsFiniteSet(Y) /\ Cardinality(Y) \in Nat /\ Cardinality(D) \in Nat
  <2>1. Y \in SUBSET D
    OBVIOUS
  <2>2. IsFiniteSet(Y)
    BY <2>1, FS_Subset DEF Docs
  <2> QED  BY <2>2, FS_CardinalityType DEF Docs
<1>2. ASSUME Y # {} PROVE Cardinality(Y) + k <= Cardinality(D)
  <2>1. PICK T : T = {Rank(D, d) : d \in Y}
    OBVIOUS
  <2>2. T \subseteq Nat /\ T # {}
    BY <1>2, <2>1, RankType
  <2>3. PICK t \in T : \A n \in T : t <= n
    BY <2>2, LeastNatural
  <2>4. PICK m \in Y : t = Rank(D, m)
    BY <2>1, <2>3
  <2>5. ASSUME NEW d \in Y PROVE ~(d > m)
    <3>1. d \in D /\ m \in D /\ Rank(D, m) <= Rank(D, d)
      BY <2>1, <2>3, <2>4
    <3>2. d > m => Rank(D, d) + 1 <= Rank(D, m)
      BY <3>1, RankOrder DEF Docs
    <3>3. Rank(D, d) \in Nat /\ Rank(D, m) \in Nat
      BY RankType
    <3> QED  BY <3>1, <3>2, <3>3
  <2>6. PICK N : N = Newer(D, m)
    OBVIOUS
  <2>7. IsFiniteSet(N) /\ Cardinality(N) \in Nat /\ Cardinality(N) >= k /\ Y \cap N = {}
          /\ N \subseteq D
    <3>1. IsFiniteSet(N) /\ Cardinality(N) \in Nat
      BY <2>6, RankType DEF Rank
    <3>2. Cardinality(N) >= k
      BY <2>6 DEF Rank
    <3>3. Y \cap N = {} /\ N \subseteq D
      BY <2>5, <2>6 DEF Newer
    <3> QED  BY <3>1, <3>2, <3>3
  <2>8. PICK U, V : U = Y \cup N /\ V = Y \cap N
    OBVIOUS
  <2>9. Cardinality(U) = Cardinality(Y) + Cardinality(N) - Cardinality(V) /\ IsFiniteSet(U)
    BY <1>1, <2>7, <2>8, FS_Union
  <2>10. Cardinality(V) = 0
    BY <2>7, <2>8, FS_EmptySet
  <2>11. Cardinality(U) <= Cardinality(D)
    <3>1. U \in SUBSET D
      BY <2>7, <2>8
    <3> QED  BY <3>1, FS_Subset DEF Docs
  <2> QED  BY <1>1, <2>7, <2>9, <2>10, <2>11
<1> QED  BY <1>1, <1>2

\* The client has had what it was given and what its page's find has returned; the pages
\* it has had end at Bound.
Had == pagesGot \cup UNION pageData
Bound == IF pageData = {} THEN (page - 1) * pageSize ELSE page * pageSize
Missing == atStart \ Had
\* Of what it is missing, that which no later page will bring.
PassedBy(M, D, B) == {d \in M : d \notin D \/ Rank(D, d) < B}

\* What it is missing, so long as it walks on, is paid for by what has ceased to match; a
\* count of n documents and the page it is at leave so many more than n that came between.
WalkOK ==
    /\ Cardinality(PassedBy(Missing, listedDocs, Bound)) <= went
    /\ \A n \in pageTotal :
         IF pageData = {} THEN Cardinality(listedDocs) <= n + torn
         ELSE \E y \in Nat : /\ Cardinality(Missing) <= went + y
                             /\ y = 0 \/ y + Bound <= n + torn

\* So long as no document comes, none is given twice.
OnceOK ==
    /\ ~repeated
    /\ page > 0 =>
         /\ \A d \in listedDocs \cap Had : Rank(listedDocs, d) < Bound
         /\ \A D \in pageData : D \cap pagesGot = {}

PageTypes ==
    /\ newest \in Nat /\ listedDocs \subseteq 1 .. newest /\ IsFiniteSet(listedDocs)
    /\ IsFiniteSet(atStart) /\ atStart \subseteq Nat
    /\ page \in Nat /\ came \in Nat /\ went \in Nat /\ torn \in Nat /\ torn <= came
    /\ pageTotal = {} \/ \E n \in Nat : pageTotal = {n}
    /\ pageData = {} \/ (page > 0 /\ \E D : pageData = {D})

PagesInv ==
    /\ PageTypes
    /\ page > 0 => WalkOK
    /\ page = 0 => Cardinality((atStart \cap listedDocs) \ pagesGot) <= went + torn
    /\ came + went = 0 => listedDocs = atStart /\ Had \subseteq listedDocs
    /\ came = 0 => OnceOK

LEMMA PageFacts ==
  ASSUME PageTypes
  PROVE  /\ Docs(listedDocs) /\ Cardinality(listedDocs) \in Nat
         /\ IsFiniteSet(Missing) /\ Missing \subseteq Nat
<1>1. Docs(listedDocs) /\ Cardinality(listedDocs) \in Nat
  BY FS_CardinalityType DEF PageTypes, Docs
<1>2. PICK M : M = Missing
  OBVIOUS
<1>3. M \in SUBSET atStart /\ IsFiniteSet(atStart) /\ atStart \subseteq Nat
  BY <1>2 DEF Missing, PageTypes
<1>4. IsFiniteSet(M)
  BY <1>3, FS_Subset
<1> QED  BY <1>1, <1>2, <1>3, <1>4

LEMMA PageBounds ==
  ASSUME PageLimits, page \in Nat, page > 0
  PROVE  /\ (page - 1) * pageSize \in Nat /\ page * pageSize \in Nat
         /\ page * pageSize = (page - 1) * pageSize + pageSize
         /\ (page + 1 - 1) * pageSize = page * pageSize
BY DEF PageLimits

\* A set within another, but for one element.
LEMMA OneElementMore ==
  ASSUME NEW X, NEW Y, NEW z, IsFiniteSet(X), Y \subseteq X \cup {z}
  PROVE  Cardinality(Y) <= Cardinality(X) + 1
<1>1. PICK U : U = X \cup {z}
  OBVIOUS
<1>2. IsFiniteSet(U) /\ Cardinality(U) <= Cardinality(X) + 1
  <2>1. Cardinality(X) \in Nat
    BY FS_CardinalityType
  <2>2. /\ IsFiniteSet(X \cup {z})
        /\ Cardinality(X \cup {z}) = IF z \in X THEN Cardinality(X) ELSE Cardinality(X) + 1
    BY FS_AddElement
  <2> QED  BY <1>1, <2>1, <2>2
<1>3. Y \in SUBSET U
  BY <1>1
<1>4. IsFiniteSet(Y) /\ Cardinality(Y) <= Cardinality(U)
  BY <1>2, <1>3, FS_Subset
<1>5. Cardinality(Y) \in Nat /\ Cardinality(U) \in Nat /\ Cardinality(X) \in Nat
  BY <1>2, <1>4, FS_CardinalityType
<1> QED  BY <1>2, <1>4, <1>5

LEMMA Within ==
  ASSUME NEW X, NEW Y, IsFiniteSet(X), Y \subseteq X
  PROVE  Cardinality(Y) <= Cardinality(X) /\ Cardinality(Y) \in Nat /\ Cardinality(X) \in Nat
<1>1. Y \in SUBSET X
  OBVIOUS
<1>2. IsFiniteSet(Y) /\ Cardinality(Y) <= Cardinality(X)
  BY <1>1, FS_Subset
<1> QED  BY <1>2, FS_CardinalityType

\* What is missing has been passed, or is beyond the bound.
LEMMA MissingBound ==
  ASSUME NEW M, IsFiniteSet(M), NEW D, Docs(D), NEW B \in Nat, NEW w \in Nat,
         Cardinality(PassedBy(M, D, B)) <= w
  PROVE  \E y \in Nat : /\ Cardinality(M) <= w + y
                        /\ y = 0 \/ y + B <= Cardinality(D)
<1>1. PICK P, Y : P = PassedBy(M, D, B) /\ Y = {d \in D : Rank(D, d) >= B}
  OBVIOUS
<1>2. /\ IsFiniteSet(P) /\ Cardinality(P) \in Nat /\ Cardinality(P) <= w
      /\ Cardinality(M) \in Nat
  <2>1. P \in SUBSET M
    BY <1>1 DEF PassedBy
  <2>2. IsFiniteSet(P)
    BY <2>1, FS_Subset
  <2> QED  BY <1>1, <2>2, FS_CardinalityType
<1>3. /\ IsFiniteSet(Y) /\ Cardinality(Y) \in Nat /\ Cardinality(D) \in Nat
      /\ Y = {} \/ Cardinality(Y) + B <= Cardinality(D)
  BY <1>1, RankedBeyond
<1>4. M \subseteq P \cup Y
  <2> SUFFICES ASSUME NEW d \in M, d \notin P PROVE d \in Y
    OBVIOUS
  <2>1. d \in D /\ ~(Rank(D, d) < B)
    BY <1>1 DEF PassedBy
  <2>2. Rank(D, d) \in Nat
    BY RankType
  <2> QED  BY <1>1, <2>1, <2>2
<1>5. PICK U, V : U = P \cup Y /\ V = P \cap Y
  OBVIOUS
<1>6. /\ IsFiniteSet(U) /\ Cardinality(U) = Cardinality(P) + Cardinality(Y) - Cardinality(V)
  BY <1>2, <1>3, <1>5, FS_Union
<1>7. Cardinality(V) \in Nat
  <2>1. V \subseteq P
    BY <1>5
  <2> QED  BY <1>2, <2>1, Within
<1>8. Cardinality(M) <= Cardinality(U)
  BY <1>4, <1>5, <1>6, Within
<1>9. Cardinality(M) <= w + Cardinality(Y)
  BY <1>2, <1>3, <1>6, <1>7, <1>8
<1>10. Cardinality(Y) = 0 \/ Cardinality(Y) + B <= Cardinality(D)
  BY <1>3, FS_EmptySet
<1> QED  BY <1>3, <1>9, <1>10

\* A document that comes puts others off, and so passes none that was not passed.
LEMMA PassedWith ==
  ASSUME NEW M, M \subseteq Nat, NEW D, Docs(D), NEW B \in Nat, NEW x \in Nat \ D
  PROVE  PassedBy(M, D \cup {x}, B) \subseteq PassedBy(M, D, B)
<1> SUFFICES ASSUME NEW d \in PassedBy(M, D \cup {x}, B), d \in D
             PROVE  Rank(D, d) < B
  BY DEF PassedBy
<1>1. d \in Nat /\ Rank(D \cup {x}, d) < B
  BY DEF PassedBy
<1>2. Rank(D, d) \in Nat
  BY RankType
<1>3. Rank(D \cup {x}, d) = IF x > d THEN Rank(D, d) + 1 ELSE Rank(D, d)
  BY <1>1, RankWith
<1> QED  BY <1>1, <1>2, <1>3

\* One that ceases to match passes at most one: itself, or that which the bound was at.
LEMMA PassedWithout ==
  ASSUME NEW M, M \subseteq Nat, NEW D, Docs(D), NEW B \in Nat, NEW x \in D
  PROVE  \E z : PassedBy(M, D \ {x}, B) \subseteq PassedBy(M, D, B) \cup {z}
<1>1. ASSUME NEW d \in PassedBy(M, D \ {x}, B), d \notin PassedBy(M, D, B)
      PROVE  /\ d \in D
             /\ d = x => Rank(D, x) >= B
             /\ d # x => x > d /\ Rank(D, d) = B /\ Rank(D, x) < B
  <2>1. d \in Nat /\ d \in M /\ x \in Nat /\ Rank(D, d) \in Nat /\ Rank(D, x) \in Nat
    BY RankType DEF PassedBy, Docs
  <2>2. d \in D /\ ~(Rank(D, d) < B)
    BY <1>1, <2>1 DEF PassedBy
  <2>3. ASSUME d # x PROVE x > d /\ Rank(D, d) = B /\ Rank(D, x) < B
    <3>1. Rank(D \ {x}, d) < B
      BY <2>2, <2>3 DEF PassedBy
    <3>2. Rank(D \ {x}, d) = IF x > d THEN Rank(D, d) - 1 ELSE Rank(D, d)
      BY <2>1, RankWithout
    <3>3. x > d /\ Rank(D, d) = B
      BY <2>1, <2>2, <3>1, <3>2
    <3>4. Rank(D, x) + 1 <= Rank(D, d)
      BY <2>1, <2>2, <3>3, RankOrder
    <3> QED  BY <2>1, <3>3, <3>4
  <2> QED  BY <2>1, <2>2, <2>3
<1>2. ASSUME NEW d \in PassedBy(M, D \ {x}, B), d \notin PassedBy(M, D, B),
             NEW e \in PassedBy(M, D \ {x}, B), e \notin PassedBy(M, D, B)
      PROVE  d = e
  <2>1. d \in D /\ e \in D /\ d \in Nat /\ e \in Nat
    BY <1>1, <1>2 DEF Docs
  <2>2. CASE Rank(D, x) >= B
    <3>1. Rank(D, x) \in Nat
      BY RankType
    <3>2. ~(Rank(D, x) < B)
      BY <2>2, <3>1
    <3> QED  BY <1>1, <1>2, <3>2
  <2>3. CASE ~(Rank(D, x) >= B)
    <3>1. Rank(D, d) = B /\ Rank(D, e) = B
      BY <1>1, <1>2, <2>3
    <3>2. ~(d < e) /\ ~(e < d)
      BY <2>1, <3>1, RankOrder
    <3> QED  BY <2>1, <3>2
  <2> QED  BY <2>2, <2>3
<1> QED  BY <1>2

\* The last page is the last that the count makes.
LEMMA LastPage ==
  ASSUME PageLimits, NEW n \in Nat, NEW p \in Nat, ~(p < Listed!totalPages(n))
  PROVE  n <= p * pageSize
<1>1. PICK L, q : L = pageSize /\ q = (n + L - 1) \div L
  OBVIOUS
<1>2. L \in Nat /\ L > 0 /\ n + L - 1 \in Nat
  BY <1>1 DEF PageLimits
<1>3. q \in Int /\ n + L - 1 < L * q + L
  BY <1>1, <1>2
<1>4. q <= p
  BY <1>1, <1>3 DEF Listed!totalPages
<1>5. L * q <= L * p
  BY <1>2, <1>3, <1>4
<1>6. L * p = p * L /\ L * q \in Int /\ L * p \in Int
  BY <1>2, <1>3
<1> QED  BY <1>1, <1>2, <1>3, <1>5, <1>6

LEMMA PagesInit == ASSUME PageLimits, Listed!Init PROVE PagesInv
<1>1. PICK n \in Nat : newest = n /\ listedDocs = 1 .. n /\ atStart = 1 .. n
  BY DEF Listed!Init, PageLimits
<1>2. IsFiniteSet(1 .. n) /\ 1 .. n \subseteq Nat
  BY <1>1, FS_Interval
<1>3. /\ page = 1 /\ pageData = {} /\ pageTotal = {} /\ pagesGot = {}
      /\ ~repeated /\ came = 0 /\ went = 0 /\ torn = 0
  BY DEF Listed!Init
<1>4. PageTypes
  <2>1. newest \in Nat /\ listedDocs \subseteq 1 .. newest /\ IsFiniteSet(listedDocs)
    BY <1>1, <1>2
  <2>2. IsFiniteSet(atStart) /\ atStart \subseteq Nat
    BY <1>1, <1>2
  <2>3. page \in Nat /\ came \in Nat /\ went \in Nat /\ torn \in Nat /\ torn <= came
    BY <1>3
  <2>4. (pageTotal = {} \/ \E k \in Nat : pageTotal = {k}) /\ pageData = {}
    BY <1>3
  <2>5. pageData = {} \/ (page > 0 /\ \E D : pageData = {D})
    BY <2>4
  <2> QED  BY <2>1, <2>2, <2>3, <2>4, <2>5 DEF PageTypes
<1>5. Bound = 0 /\ Had = {}
  BY <1>3 DEF Bound, Had, PageLimits
<1>6. PassedBy(Missing, listedDocs, Bound) = {}
  <2> SUFFICES ASSUME NEW d \in PassedBy(Missing, listedDocs, Bound) PROVE FALSE
    OBVIOUS
  <2>1. Docs(listedDocs) /\ d \in listedDocs
    BY <1>1, <1>2 DEF PassedBy, Missing, Docs
  <2>2. PICK D, B, r : D = listedDocs /\ B = Bound /\ r = Rank(listedDocs, d)
    OBVIOUS
  <2>3. r \in Nat /\ B = 0
    BY <1>5, <2>1, <2>2, RankType
  <2> QED  BY <1>1, <2>1, <2>2, <2>3 DEF PassedBy
<1>7. WalkOK
  BY <1>3, <1>6, FS_EmptySet DEF WalkOK
<1>8. OnceOK
  BY <1>3, <1>5 DEF OnceOK
<1> QED  BY <1>1, <1>3, <1>4, <1>5, <1>7, <1>8 DEF PagesInv

\* What was given by the find of a page.
LEMMA PagesFind ==
  ASSUME PageLimits, PagesInv, NEW l, Listed!find(l)
  PROVE  PagesInv'
<1>1. PICK D, B, C, M, P, w, n : /\ D = listedDocs /\ B = Bound /\ C = page * pageSize
        /\ M = Missing /\ P = Listed!Page /\ w = went /\ n = Cardinality(listedDocs)
  OBVIOUS
<1>2. /\ page > 0 /\ pageData = {} /\ pageData' = {P} /\ page' = page /\ pageTotal' = pageTotal
      /\ listedDocs' = D /\ newest' = newest /\ pagesGot' = pagesGot /\ repeated' = repeated
      /\ atStart' = atStart /\ came' = came /\ went' = went /\ torn' = torn
  BY <1>1 DEF Listed!find
<1>3. PageTypes /\ Docs(D) /\ IsFiniteSet(M) /\ M \subseteq Nat /\ w \in Nat /\ n \in Nat
  BY <1>1, PageFacts DEF PagesInv, PageTypes
<1>4. PageTypes'
  BY <1>1, <1>2, <1>3 DEF PageTypes
<1>5. B = (page - 1) * pageSize /\ B \in Nat /\ C \in Nat /\ B <= C /\ Bound' = C
  <2>1. page \in Nat /\ pageSize \in Nat
    BY <1>3 DEF PageTypes, PageLimits
  <2>2. B = (page - 1) * pageSize
    BY <1>1, <1>2 DEF Bound
  <2>3. Bound' = C
    BY <1>1, <1>2 DEF Bound
  <2> QED  BY <1>1, <1>2, <2>1, <2>2, <2>3, PageBounds
<1>6. /\ P = {d \in D : Rank(D, d) >= B /\ Rank(D, d) < C}
      /\ \A d \in D : Rank(D, d) \in Nat
  <2>1. \A d \in D : Listed!Before(d) = Rank(D, d)
    BY <1>1, PagesCount DEF Listed!Before, Rank, Newer
  <2>2. \A d \in D : Rank(D, d) \in Nat
    BY <1>3, RankType
  <2>3. \A k \in Nat : k \in B .. C - 1 <=> k >= B /\ k < C
    BY <1>5
  <2>4. P = {d \in D : Listed!Before(d) \in B .. C - 1}
    BY <1>1, <1>5 DEF Listed!Page
  <2> QED  BY <2>1, <2>2, <2>3, <2>4
<1>7. Had = pagesGot /\ Had' = pagesGot \cup P /\ Missing' = M \ P
  <2>1. UNION pageData = {} /\ UNION (pageData') = P
    BY <1>2
  <2> QED  BY <1>1, <1>2, <2>1 DEF Had, Missing
<1>8. PassedBy(Missing', D, C) \subseteq PassedBy(M, D, B)
  <2> SUFFICES ASSUME NEW d \in M \ P, d \in D, Rank(D, d) < C PROVE Rank(D, d) < B
    BY <1>7 DEF PassedBy
  <2> QED  BY <1>5, <1>6
<1>9. WalkOK'
  <2>1. PICK M2 : M2 = Missing'
    OBVIOUS
  <2>2. PassedBy(M, D, B) \in SUBSET M /\ M2 \in SUBSET M
    BY <1>7, <2>1 DEF PassedBy
  <2>3. IsFiniteSet(PassedBy(M, D, B)) /\ IsFiniteSet(M2)
    BY <1>3, <2>2, FS_Subset
  <2>4. Cardinality(PassedBy(M, D, B)) <= w
    BY <1>1, <1>2 DEF PagesInv, WalkOK
  <2>5. Cardinality(PassedBy(M2, D, C)) <= w
    <3>1. PICK X, Y : X = PassedBy(M, D, B) /\ Y = PassedBy(M2, D, C)
      OBVIOUS
    <3>2. Cardinality(Y) <= Cardinality(X) /\ Cardinality(Y) \in Nat /\ Cardinality(X) \in Nat
      BY <1>8, <2>1, <2>3, <3>1, Within
    <3> QED  BY <1>3, <2>4, <3>1, <3>2
  <2>6. PICK y \in Nat : Cardinality(M2) <= w + y /\ (y = 0 \/ y + C <= n)
    BY <1>1, <1>3, <1>5, <2>3, <2>5, MissingBound
  <2>7. ASSUME NEW k \in pageTotal'
        PROVE  \E z \in Nat : /\ Cardinality(M2) <= w + z
                              /\ z = 0 \/ z + C <= k + torn
    <3>1. n <= k + torn /\ k \in Nat /\ torn \in Nat
      BY <1>1, <1>2, <1>3, <2>7 DEF PagesInv, WalkOK, PageTypes
    <3> QED  BY <1>3, <1>5, <2>6, <3>1
  <2>8. Bound' = C /\ listedDocs' = D /\ went' = w /\ Missing' = M2 /\ torn' = torn
        /\ pageData' # {}
    BY <1>1, <1>2, <1>5, <2>1
  <2> QED  BY <2>5, <2>7, <2>8 DEF WalkOK
<1>10. ASSUME came + went = 0 PROVE (listedDocs = atStart /\ Had \subseteq listedDocs)'
  <2>1. listedDocs = atStart /\ Had \subseteq listedDocs
    BY <1>10 DEF PagesInv
  <2> QED  BY <1>1, <1>2, <1>6, <1>7, <2>1
<1>11. ASSUME came = 0 PROVE OnceOK'
  <2>1. ~repeated /\ \A d \in D \cap Had : Rank(D, d) < B
    BY <1>1, <1>2, <1>11 DEF PagesInv, OnceOK
  <2>2. \A d \in D \cap (Had \cup P) : Rank(D, d) < C
    BY <1>5, <1>6, <2>1
  <2>3. P \cap pagesGot = {}
    BY <1>5, <1>6, <1>7, <2>1
  <2> QED  BY <1>1, <1>2, <1>5, <1>7, <2>1, <2>2, <2>3 DEF OnceOK
<1> QED  BY <1>1, <1>2, <1>4, <1>9, <1>10, <1>11 DEF PagesInv

LEMMA PagesCounted ==
  ASSUME PageLimits, PagesInv, Listed!countDocuments
  PROVE  PagesInv'
<1>1. PICK D, B, M, w, n : /\ D = listedDocs /\ B = Bound /\ M = Missing /\ w = went
                           /\ n = Cardinality(listedDocs)
  OBVIOUS
<1>2. /\ page > 0 /\ pageTotal' = {n} /\ page' = page /\ pageData' = pageData
      /\ listedDocs' = D /\ newest' = newest /\ pagesGot' = pagesGot /\ repeated' = repeated
      /\ atStart' = atStart /\ came' = came /\ went' = went /\ torn' = torn
  BY <1>1, PagesCount DEF Listed!countDocuments
<1>3. PageTypes /\ Docs(D) /\ IsFiniteSet(M) /\ M \subseteq Nat /\ w \in Nat /\ n \in Nat
      /\ torn \in Nat
  BY <1>1, PageFacts DEF PagesInv, PageTypes
<1>4. PageTypes'
  BY <1>1, <1>2, <1>3 DEF PageTypes
<1>5. Bound' = B /\ Had' = Had /\ Missing' = M
  BY <1>1, <1>2 DEF Bound, Had, Missing
<1>6. B \in Nat
  BY <1>1, <1>2, <1>3, PageBounds DEF Bound, PageTypes
<1>7. WalkOK'
  <2>1. Cardinality(PassedBy(M, D, B)) <= w
    BY <1>1, <1>2 DEF PagesInv, WalkOK
  <2>2. PICK y \in Nat : Cardinality(M) <= w + y /\ (y = 0 \/ y + B <= n)
    BY <1>1, <1>3, <1>6, <2>1, MissingBound
  <2>3. y = 0 \/ y + B <= n + torn
    BY <1>3, <1>6, <2>2
  <2>4. n <= n + torn
    BY <1>3
  <2> QED  BY <1>1, <1>2, <1>5, <2>1, <2>2, <2>3, <2>4 DEF WalkOK
<1>8. came = 0 => OnceOK'
  BY <1>1, <1>2, <1>5 DEF PagesInv, OnceOK
<1> QED  BY <1>1, <1>2, <1>4, <1>5, <1>7, <1>8 DEF PagesInv

LEMMA PagesAnswer ==
  ASSUME PageLimits, PagesInv, Listed!Answer
  PROVE  PagesInv'
<1>1. PICK d \in pageData, n \in pageTotal :
        /\ pagesGot' = pagesGot \cup d
        /\ repeated' = (repeated \/ pagesGot \cap d # {})
        /\ page' = IF page < Listed!totalPages(n) THEN page + 1 ELSE 0
  BY DEF Listed!Answer
<1>2. /\ pageData' = {} /\ pageTotal' = {} /\ listedDocs' = listedDocs /\ newest' = newest
      /\ atStart' = atStart /\ came' = came /\ went' = went /\ torn' = torn
  BY DEF Listed!Answer
<1>3. PageTypes
  BY DEF PagesInv
<1>4. pageData = {d} /\ pageTotal = {n} /\ n \in Nat /\ page \in Nat /\ page > 0
  BY <1>3 DEF PageTypes
<1>5. Had = pagesGot \cup d /\ Had' = pagesGot \cup d /\ Missing' = Missing
  BY <1>1, <1>2, <1>4 DEF Had, Missing
<1>6. PageTypes'
  <2>1. page' \in Nat
    BY <1>1, <1>4
  <2>2. (pageTotal = {} \/ \E k \in Nat : pageTotal = {k})'
    BY <1>2
  <2>3. (pageData = {} \/ (page > 0 /\ \E D : pageData = {D}))'
    BY <1>2
  <2>4. (/\ newest \in Nat /\ listedDocs \subseteq 1 .. newest /\ IsFiniteSet(listedDocs)
         /\ IsFiniteSet(atStart) /\ atStart \subseteq Nat)'
    BY <1>2, <1>3 DEF PageTypes
  <2>5. (came \in Nat /\ went \in Nat /\ torn \in Nat /\ torn <= came)'
    BY <1>2, <1>3 DEF PageTypes
  <2> QED  BY <2>1, <2>2, <2>3, <2>4, <2>5 DEF PageTypes
<1>7. /\ page * pageSize \in Nat /\ (page + 1 - 1) * pageSize = page * pageSize
      /\ Bound = page * pageSize
  BY <1>4, PageBounds DEF Bound
<1>8. ASSUME came = 0 PROVE ~repeated'
  <2>1. pagesGot \cap d = {} /\ ~repeated
    BY <1>4, <1>8 DEF PagesInv, OnceOK
  <2> QED  BY <1>1, <2>1
<1>9. ASSUME came + went = 0 PROVE (listedDocs = atStart /\ Had \subseteq listedDocs)'
  BY <1>2, <1>5, <1>9 DEF PagesInv
<1>10. CASE page < Listed!totalPages(n)
  <2>1. page' = page + 1 /\ Bound' = Bound
    <3>1. page' = page + 1
      BY <1>1, <1>10
    <3>2. Bound' = (page' - 1) * pageSize
      BY <1>2 DEF Bound
    <3>3. page' - 1 = page
      BY <1>4, <3>1
    <3>4. Bound' = page * pageSize
      BY <3>2, <3>3, Zenon
    <3> QED  BY <1>7, <3>1, <3>4
  <2>2. WalkOK'
    BY <1>2, <1>4, <1>5, <2>1 DEF PagesInv, WalkOK
  <2>3. came = 0 => OnceOK'
    BY <1>2, <1>4, <1>5, <1>8, <2>1 DEF PagesInv, OnceOK
  <2>4. page' > 0 /\ page' # 0
    BY <1>4, <2>1
  <2> QED  BY <1>2, <1>6, <1>9, <2>2, <2>3, <2>4 DEF PagesInv
<1>11. CASE ~(page < Listed!totalPages(n))
  <2>1. page' = 0
    BY <1>1, <1>11
  <2>2. n <= page * pageSize
    BY <1>4, <1>11, LastPage
  <2>3. PICK y \in Nat : /\ Cardinality(Missing) <= went + y
                         /\ y = 0 \/ y + Bound <= n + torn
    BY <1>4 DEF PagesInv, WalkOK
  <2>4. went \in Nat /\ torn \in Nat
    BY <1>3 DEF PageTypes
  <2>5. y <= torn
    BY <1>4, <1>7, <2>2, <2>3, <2>4
  <2>6. PICK R, M : R = ((atStart \cap listedDocs) \ pagesGot)' /\ M = Missing
    OBVIOUS
  <2>7. R \subseteq M /\ IsFiniteSet(M)
    BY <1>1, <1>2, <1>3, <1>5, <2>6, PageFacts DEF Missing
  <2>8. Cardinality(R) <= Cardinality(M) /\ Cardinality(R) \in Nat /\ Cardinality(M) \in Nat
    BY <2>7, Within
  <2>9. Cardinality(M) <= went + y
    BY <2>3, <2>6
  <2>10. Cardinality(R) <= went + torn
    BY <2>4, <2>5, <2>8, <2>9
  <2>11. (Cardinality((atStart \cap listedDocs) \ pagesGot) <= went + torn)'
    BY <1>2, <2>6, <2>10
  <2>12. came = 0 => OnceOK'
    BY <1>8, <2>1 DEF OnceOK
  <2>13. ~(page' > 0)
    BY <2>1
  <2> QED  BY <1>2, <1>6, <1>9, <2>11, <2>12, <2>13 DEF PagesInv
<1> QED  BY <1>10, <1>11

LEMMA PagesMatch ==
  ASSUME PageLimits, PagesInv, Listed!Matches
  PROVE  PagesInv'
<1>1. PICK D, B, M, w, P : /\ D = listedDocs /\ B = Bound /\ M = Missing /\ w = went
                           /\ P = PassedBy(Missing, listedDocs, Bound)
  OBVIOUS
<1>2. /\ page > 0 /\ pageTotal' = pageTotal /\ page' = page /\ pageData' = pageData
      /\ pagesGot' = pagesGot /\ repeated' = repeated
      /\ atStart' = atStart /\ came' = came + 1 /\ went' = w
      /\ torn' = IF pageTotal # {} /\ pageData = {} THEN torn + 1 ELSE torn
  BY <1>1 DEF Listed!Matches, Listed!Change
<1>3. /\ PageTypes /\ Docs(D) /\ IsFiniteSet(M) /\ M \subseteq Nat /\ w \in Nat
      /\ torn \in Nat /\ came \in Nat /\ torn <= came /\ newest \in Nat /\ D \subseteq 1 .. newest
  BY <1>1, PageFacts DEF PagesInv, PageTypes
<1>4. PICK x \in Nat \ D : /\ listedDocs' = D \cup {x} /\ newest' \in Nat
                           /\ D \cup {x} \subseteq 1 .. newest'
  <2>1. CASE newest' = newest + 1 /\ listedDocs' = listedDocs \cup {newest'}
    <3>1. newest + 1 \in Nat \ D
      BY <1>3
    <3>2. D \cup {newest + 1} \subseteq 1 .. (newest + 1)
      BY <1>3
    <3> QED  BY <1>1, <2>1, <3>1, <3>2
  <2>2. CASE newest' = newest /\ \E d \in (1 .. newest) \ listedDocs :
                                   listedDocs' = listedDocs \cup {d}
    <3>1. PICK d \in (1 .. newest) \ D : listedDocs' = D \cup {d}
      BY <1>1, <2>2
    <3>2. d \in Nat \ D /\ D \cup {d} \subseteq 1 .. newest
      BY <1>3
    <3> QED  BY <1>3, <2>2, <3>1, <3>2
  <2> QED  BY <2>1, <2>2 DEF Listed!Matches
<1>5. PICK E : E = D \cup {x}
  OBVIOUS
<1>6. IsFiniteSet(E) /\ Cardinality(E) = Cardinality(D) + 1 /\ Cardinality(D) \in Nat
  <2>1. IsFiniteSet(D) /\ Cardinality(D) \in Nat
    BY <1>3, FS_CardinalityType DEF Docs
  <2> QED  BY <1>5, <2>1, FS_AddElement
<1>7. torn' \in Nat /\ torn <= torn' /\ torn' <= came'
  BY <1>2, <1>3
<1>8. PageTypes'
  BY <1>2, <1>3, <1>4, <1>5, <1>6, <1>7 DEF PageTypes
<1>9. Bound' = B /\ Had' = Had /\ Missing' = M /\ B \in Nat
  BY <1>1, <1>2, <1>3, PageBounds DEF Bound, Had, Missing, PageTypes
<1>10. WalkOK'
  <2>1. PassedBy(M, E, B) \subseteq P
    BY <1>1, <1>3, <1>5, <1>9, PassedWith
  <2>2. IsFiniteSet(P) /\ Cardinality(P) <= w
    <3>1. P \in SUBSET M
      BY <1>1 DEF PassedBy
    <3> QED  BY <1>1, <1>2, <1>3, <3>1, FS_Subset DEF PagesInv, WalkOK
  <2>3. Cardinality(PassedBy(M, E, B)) <= w
    <3>1. PICK Y : Y = PassedBy(M, E, B)
      OBVIOUS
    <3>2. Cardinality(Y) <= Cardinality(P) /\ Cardinality(Y) \in Nat /\ Cardinality(P) \in Nat
      BY <2>1, <2>2, <3>1, Within
    <3> QED  BY <1>3, <2>2, <3>1, <3>2
  <2>4. ASSUME NEW n \in pageTotal, pageData = {} PROVE Cardinality(E) <= n + torn'
    <3>1. Cardinality(D) <= n + torn /\ n \in Nat
      BY <1>1, <1>2, <1>3, <2>4 DEF PagesInv, WalkOK, PageTypes
    <3>2. torn' = torn + 1
      BY <1>2, <2>4
    <3> QED  BY <1>3, <1>6, <3>1, <3>2
  <2>5. ASSUME NEW n \in pageTotal, pageData # {}
        PROVE  \E y \in Nat : /\ Cardinality(M) <= w + y
                              /\ y = 0 \/ y + B <= n + torn'
    BY <1>1, <1>2, <2>5 DEF PagesInv, WalkOK
  <2> QED  BY <1>2, <1>4, <1>5, <1>9, <2>3, <2>4, <2>5 DEF WalkOK
<1>11. page' # 0 /\ came' # 0 /\ came' + went' # 0
  BY <1>2, <1>3
<1> QED  BY <1>8, <1>10, <1>11 DEF PagesInv

LEMMA PagesCease ==
  ASSUME PageLimits, PagesInv, Listed!Ceases
  PROVE  PagesInv'
<1>1. PICK D, B, M, w, P : /\ D = listedDocs /\ B = Bound /\ M = Missing /\ w = went
                           /\ P = PassedBy(Missing, listedDocs, Bound)
  OBVIOUS
<1>2. /\ page > 0 /\ pageTotal' = pageTotal /\ page' = page /\ pageData' = pageData
      /\ pagesGot' = pagesGot /\ repeated' = repeated /\ newest' = newest
      /\ atStart' = atStart /\ came' = came /\ went' = w + 1 /\ torn' = torn
  BY <1>1 DEF Listed!Ceases, Listed!Change
<1>3. /\ PageTypes /\ Docs(D) /\ IsFiniteSet(M) /\ M \subseteq Nat /\ w \in Nat
      /\ torn \in Nat /\ came \in Nat
  BY <1>1, PageFacts DEF PagesInv, PageTypes
<1>4. PICK x \in D : listedDocs' = D \ {x}
  BY <1>1 DEF Listed!Ceases
<1>5. PICK E : E = D \ {x}
  OBVIOUS
<1>6. /\ IsFiniteSet(E) /\ Cardinality(E) <= Cardinality(D) /\ Cardinality(D) \in Nat
      /\ Cardinality(E) \in Nat /\ E \subseteq D
  <2>1. IsFiniteSet(D) /\ E \subseteq D /\ E \in SUBSET D
    BY <1>3, <1>5 DEF Docs
  <2> QED  BY <2>1, Within, FS_Subset
<1>7. PageTypes'
  BY <1>1, <1>2, <1>3, <1>4, <1>5, <1>6 DEF PageTypes
<1>8. Bound' = B /\ Had' = Had /\ Missing' = M /\ B \in Nat
  BY <1>1, <1>2, <1>3, PageBounds DEF Bound, Had, Missing, PageTypes
<1>9. WalkOK'
  <2>1. PICK z : PassedBy(M, E, B) \subseteq P \cup {z}
    BY <1>1, <1>3, <1>5, <1>8, PassedWithout
  <2>2. IsFiniteSet(P) /\ Cardinality(P) <= w /\ Cardinality(P) \in Nat
    <3>1. P \in SUBSET M
      BY <1>1 DEF PassedBy
    <3>2. IsFiniteSet(P)
      BY <1>3, <3>1, FS_Subset
    <3>3. Cardinality(P) <= w
      BY <1>1, <1>2 DEF PagesInv, WalkOK
    <3> QED  BY <3>2, <3>3, FS_CardinalityType
  <2>3. Cardinality(PassedBy(M, E, B)) <= w + 1
    <3>1. PICK Y : Y = PassedBy(M, E, B)
      OBVIOUS
    <3>2. Y \in SUBSET M
      BY <3>1 DEF PassedBy
    <3>3. IsFiniteSet(Y)
      BY <1>3, <3>2, FS_Subset
    <3>4. Cardinality(Y) <= Cardinality(P) + 1
      BY <2>1, <2>2, <3>1, OneElementMore
    <3>5. Cardinality(Y) \in Nat
      BY <3>3, FS_CardinalityType
    <3> QED  BY <1>3, <2>2, <3>1, <3>4, <3>5
  <2>4. ASSUME NEW n \in pageTotal, pageData = {} PROVE Cardinality(E) <= n + torn
    <3>1. Cardinality(D) <= n + torn /\ n \in Nat
      BY <1>1, <1>2, <1>3, <2>4 DEF PagesInv, WalkOK, PageTypes
    <3> QED  BY <1>3, <1>6, <3>1
  <2>5. ASSUME NEW n \in pageTotal, pageData # {}
        PROVE  \E y \in Nat : /\ Cardinality(M) <= w + 1 + y
                              /\ y = 0 \/ y + B <= n + torn
    <3>1. PICK y \in Nat : /\ Cardinality(M) <= w + y
                           /\ y = 0 \/ y + B <= n + torn
      BY <1>1, <1>2, <2>5 DEF PagesInv, WalkOK
    <3>2. Cardinality(M) \in Nat
      BY <1>3, FS_CardinalityType
    <3>3. Cardinality(M) <= w + 1 + y
      BY <1>3, <3>1, <3>2
    <3> QED  BY <3>1, <3>3
  <2> QED  BY <1>2, <1>4, <1>5, <1>8, <2>3, <2>4, <2>5 DEF WalkOK
<1>10. ASSUME came = 0 PROVE OnceOK'
  <2>1. /\ ~repeated
        /\ \A d \in D \cap Had : Rank(D, d) < B
        /\ \A X \in pageData : X \cap pagesGot = {}
    BY <1>1, <1>2, <1>10 DEF PagesInv, OnceOK
  <2>2. ASSUME NEW d \in E \cap Had PROVE Rank(E, d) < B
    <3>1. d \in Nat /\ d \in D \cap Had /\ Rank(D, d) \in Nat
      BY <1>3, <1>6, <2>2, RankType DEF Docs
    <3>2. Rank(E, d) <= Rank(D, d) /\ Rank(E, d) \in Nat
      <4>1. Rank(E, d) = IF x > d THEN Rank(D, d) - 1 ELSE Rank(D, d)
        BY <1>3, <1>5, <3>1, RankWithout
      <4>2. Docs(E)
        BY <1>3, <1>6 DEF Docs
      <4> QED  BY <3>1, <4>1, <4>2, RankType
    <3> QED  BY <1>8, <2>1, <3>1, <3>2
  <2> QED  BY <1>2, <1>4, <1>5, <1>8, <2>1, <2>2 DEF OnceOK
<1>11. page' # 0 /\ came' + went' # 0
  BY <1>2, <1>3
<1> QED  BY <1>2, <1>7, <1>9, <1>10, <1>11 DEF PagesInv

LEMMA PagesSpec == ASSUME PageLimits PROVE Listed!Spec => []PagesInv
<1>1. Listed!Init => PagesInv
  BY PagesInit
<1>2. PagesInv /\ [Listed!Next]_(Listed!vars) => PagesInv'
  <2> SUFFICES ASSUME PagesInv, [Listed!Next]_(Listed!vars) PROVE PagesInv'
    OBVIOUS
  <2>1. ASSUME NEW l, Listed!find(l) PROVE PagesInv'
    BY <2>1, PagesFind
  <2>2. CASE Listed!countDocuments
    BY <2>2, PagesCounted
  <2>3. CASE Listed!Answer
    BY <2>3, PagesAnswer
  <2>4. CASE Listed!Matches
    BY <2>4, PagesMatch
  <2>5. CASE Listed!Ceases
    BY <2>5, PagesCease
  <2>6. CASE UNCHANGED Listed!vars
    BY <2>6 DEF Listed!vars, PagesInv, PageTypes, WalkOK, OnceOK, Had, Bound, Missing
  <2> QED
    BY <2>1, <2>2, <2>3, <2>4, <2>5, <2>6
    DEF Listed!Next, Listed!findAllEvents, Listed!findAllUsers, Listed!findByHost,
        Listed!findByJudge, Listed!findWithOptimization, Listed!findAllSponsors,
        Listed!findAllTeams
<1> QED  BY <1>1, <1>2, PTL DEF Listed!Spec

LEMMA PagesPromise == ASSUME PagesInv PROVE Listed!WalkSeesAll
<1>1. PageTypes
  BY DEF PagesInv
<1>2. came \in Nat /\ went \in Nat /\ torn \in Nat /\ torn <= came
  BY <1>1 DEF PageTypes
<1>3. PICK R : R = (atStart \cap listedDocs) \ pagesGot
  OBVIOUS
<1>4. ASSUME page = 0 PROVE Listed!Cardinality(R) <= went + torn
  BY <1>3, <1>4, PagesCount DEF PagesInv
<1>5. ASSUME page = 0, came + went = 0 PROVE pagesGot = listedDocs
  <2>1. pageData = {}
    BY <1>1, <1>5 DEF PageTypes
  <2>2. listedDocs = atStart /\ pagesGot \subseteq listedDocs
    BY <1>5, <2>1 DEF PagesInv, Had
  <2>3. Cardinality(R) <= 0
    <3>1. went = 0 /\ torn = 0
      BY <1>2, <1>5
    <3> QED  BY <1>3, <1>5, <3>1 DEF PagesInv
  <2>4. IsFiniteSet(R)
    <3>1. R \subseteq atStart /\ R \in SUBSET atStart /\ IsFiniteSet(atStart)
      BY <1>1, <1>3 DEF PageTypes
    <3> QED  BY <3>1, FS_Subset
  <2>5. Cardinality(R) \in Nat
    BY <2>4, FS_CardinalityType
  <2>6. Cardinality(R) = 0
    BY <2>3, <2>5
  <2>7. R = {}
    BY <2>4, <2>6, FS_EmptySet
  <2> QED  BY <1>3, <2>2, <2>7
<1>6. ASSUME repeated PROVE came > 0
  BY <1>2, <1>6 DEF PagesInv, OnceOK
<1> QED  BY <1>3, <1>4, <1>5, <1>6 DEF Listed!WalkSeesAll

\* However requests overlap: an event added to a sponsor and a change of an event stay as
\* they were confirmed, no two teams of an event have one name and none is ever changed, and
\* a client that reads page after page misses only what changed meanwhile.
THEOREM DocumentsStayRight ==
  ASSUME PageLimits
  PROVE  Sponsor!Spec /\ Statuses!Spec /\ Listed!Spec /\ Team!Spec => []DocumentsAreAsAsked
<1>1. SponsorInv => Sponsor!AddedEventStays
  BY DEF SponsorInv
<1>2. SponsorInv /\ StatusInv /\ PagesInv /\ TeamsInv => DocumentsAreAsAsked
  BY <1>1, StatusPromise, PagesPromise, TeamsPromise DEF DocumentsAreAsAsked
<1> QED  BY <1>2, SponsorSpec, StatusesSpec, PagesSpec, TeamsSpec, PTL

-----------------------------------------------------------------------------
\* Types of the statuses.
LEMMA StatusesTypes == Statuses!Spec => []Statuses!TypeOK
<1>1. Statuses!Init => overtaken \subseteq StatusCalls
  BY DEF Statuses!Init
<1>2. overtaken \subseteq StatusCalls /\ [Statuses!Next]_(Statuses!vars)
        => (overtaken \subseteq StatusCalls)'
  BY DEF Statuses!Next, Statuses!vars, Statuses!Request, Statuses!findById, Statuses!save,
         Statuses!deleteOne, Statuses!Write
<1>3. ASSUME StatusInv, overtaken \subseteq StatusCalls PROVE Statuses!TypeOK
  <2>1. Statuses!Cardinality(event) = Cardinality(event)
    BY DEF Statuses!Cardinality, Cardinality
  <2>2. event \subseteq Statuses!EventStatus /\ Cardinality(event) <= 1
    <3>1. CASE event = {}
      BY <3>1, FS_EmptySet
    <3>2. ASSUME NEW s \in Statuses!EventStatus, event = {s}
          PROVE  event \subseteq Statuses!EventStatus /\ Cardinality(event) <= 1
      <4>1. Cardinality({s}) = 1
        BY FS_Singleton
      <4> QED  BY <3>2, <4>1
    <3> QED  BY <1>3, <3>1, <3>2 DEF StatusInv
  <2>3. \A c \in StatusCalls : eventCalls[c] \in StatusCall
    BY <1>3 DEF StatusInv, StatusCallOK
  <2> QED  BY <1>3, <2>1, <2>2, <2>3 DEF Statuses!TypeOK, StatusCall
<1> QED  BY <1>1, <1>2, <1>3, StatusesSpec, PTL DEF Statuses!Spec

-----------------------------------------------------------------------------
\* A request is for a team there is, or for none.
TeamsBounded == \A c \in TeamCalls : teamCalls[c].team <= Len(teams)

LEMMA TeamsBoundedNext ==
  ASSUME TeamsInv, TeamsInv', TeamsBounded, [Team!Next]_(Team!vars)
  PROVE  TeamsBounded'
<1>1. Len(teams) \in Nat /\ DOMAIN teams = 1 .. Len(teams) /\ teams \in Seq(Team!Team)
        /\ teamCalls = [c \in TeamCalls |-> teamCalls[c]]
  BY DEF TeamsInv
<1>2. ASSUME NEW c \in TeamCalls, NEW s, Team!Goto(c, s), teams' = teams PROVE TeamsBounded'
  <2>1. \A d \in TeamCalls : teamCalls'[d].team = teamCalls[d].team
    <3> SUFFICES ASSUME NEW d \in TeamCalls PROVE teamCalls'[d].team = teamCalls[d].team
      OBVIOUS
    <3>1. PICK k : k = teamCalls[c]
      OBVIOUS
    <3>2. k \in TeamCall /\ teamCalls' = [teamCalls EXCEPT ![c] = [k EXCEPT !.step = s]]
      BY <1>2, <3>1 DEF Team!Goto, TeamsInv, TeamCallOK
    <3>3. [k EXCEPT !.step = s].team = k.team
      BY <3>2 DEF TeamCall
    <3> QED  BY <1>1, <3>1, <3>2, <3>3
  <2> QED  BY <1>2, <2>1 DEF TeamsBounded
<1>3. ASSUME NEW c \in TeamCalls, NEW op, NEW u, NEW k, NEW n \in 0 .. Len(teams),
             Team!Request(c, op, u, k, n)
      PROVE  TeamsBounded'
  BY <1>1, <1>3 DEF Team!Request, TeamsBounded
<1>4. ASSUME NEW c \in TeamCalls, NEW op, NEW u, Team!ForTeam(c, op, u) PROVE TeamsBounded'
  <2>1. PICK n \in DOMAIN teams : Team!Request(c, op, u, teams[n].name, n)
    BY <1>4 DEF Team!ForTeam
  <2>2. n \in 0 .. Len(teams)
    BY <1>1
  <2> QED  BY <1>3, <2>1, <2>2
<1>5. ASSUME NEW c \in TeamCalls, Team!Save(c) PROVE TeamsBounded'
  <2>1. CASE teams' = teams
    BY <1>2, <1>5, <2>1 DEF Team!Save
  <2>2. CASE teams' # teams
    <3>1. PICK k : /\ k = teamCalls[c] /\ k \in TeamCall
                   /\ k.user \in TeamUsers /\ k.name \in TeamNames
      BY <1>5 DEF TeamsInv, TeamCallOK, Team!Save, Team!At
    <3>2. PICK t : t = [name |-> k.name, ownerId |-> Team!ObjectId(k.user),
                        members |-> {Team!Text(k.user)}, invitations |-> {}]
      OBVIOUS
    <3>3. t \in Team!Team
      BY <3>1, <3>2 DEF Team!Team
    <3>4. teams' = Append(teams, t)
      BY <1>5, <2>2, <3>1, <3>2 DEF Team!Save
    <3>5. Len(teams') = Len(teams) + 1
      BY <1>1, <3>3, <3>4
    <3>6. teamCalls' = [teamCalls EXCEPT ![c].step = "saved", ![c].team = Len(teams) + 1]
      BY <1>5, <2>2 DEF Team!Save
    <3>7. teamCalls' = [teamCalls EXCEPT ![c] = [k EXCEPT !.step = "saved", !.team = Len(teams) + 1]]
      BY <3>1, <3>6
    <3>8. [k EXCEPT !.step = "saved", !.team = Len(teams) + 1].team = Len(teams) + 1
      BY <3>1 DEF TeamCall
    <3>9. \A d \in TeamCalls : \/ teamCalls'[d].team = Len(teams) + 1
                               \/ teamCalls'[d].team = teamCalls[d].team
      BY <1>1, <3>7, <3>8
    <3>10. \A d \in TeamCalls : teamCalls[d].team \in Nat
      BY DEF TeamsInv, TeamCallOK, TeamCall
    <3>11. \A d \in TeamCalls : teamCalls'[d].team <= Len(teams')
      BY <1>1, <3>5, <3>9, <3>10 DEF TeamsBounded
    <3> QED  BY <1>1, <3>4, <3>5, <3>11 DEF TeamsBounded
  <2> QED  BY <2>1, <2>2
<1>6. ASSUME NEW c \in TeamCalls,
             Team!FindByName(c) \/ Team!FindForOwner(c) \/ Team!FindInvitation(c)
      PROVE  TeamsBounded'
  BY <1>2, <1>6 DEF Team!FindByName, Team!FindForOwner, Team!FindInvitation
<1>7. CASE UNCHANGED Team!vars
  BY <1>7 DEF Team!vars, TeamsBounded
<1>8. ASSUME NEW c \in TeamCalls, NEW u \in TeamUsers, NEW k \in TeamNames,
             Team!createTeam(c, u, k)
      PROVE  TeamsBounded'
  <2>1. 0 \in 0 .. Len(teams)
    BY <1>1
  <2> QED  BY <1>3, <1>8, <2>1 DEF Team!createTeam
<1>9. ASSUME NEW c \in TeamCalls, NEW u \in TeamUsers,
             \/ Team!updateTeam(c, u) \/ Team!deleteTeam(c, u) \/ Team!inviteMember(c, u)
             \/ Team!removeMember(c, u) \/ Team!acceptInvitation(c, u)
                 \/ Team!declineInvitation(c, u)
      PROVE  TeamsBounded'
  BY <1>4, <1>9 DEF Team!updateTeam, Team!deleteTeam, Team!inviteMember, Team!removeMember,
                    Team!acceptInvitation, Team!declineInvitation
<1> QED  BY <1>5, <1>6, <1>7, <1>8, <1>9 DEF Team!Next

LEMMA TeamsTypes == Team!Spec => []Team!TypeOK
<1>1. Team!Init => TeamsBounded
  <2> SUFFICES ASSUME Team!Init PROVE TeamsBounded
    OBVIOUS
  <2>1. Len(teams) = 0 /\ \A c \in TeamCalls : teamCalls[c].team = 0
    BY DEF Team!Init
  <2> QED  BY <2>1 DEF TeamsBounded
<1>2. TeamsInv /\ TeamsInv' /\ TeamsBounded /\ [Team!Next]_(Team!vars) => TeamsBounded'
  BY TeamsBoundedNext
<1>3. ASSUME TeamsInv, TeamsBounded PROVE Team!TypeOK
  <2>1. Len(teams) \in Nat /\ teams \in Seq(Team!Team)
    BY <1>3 DEF TeamsInv
  <2>2. \A c \in TeamCalls : teamCalls[c] \in TeamCall
    BY <1>3 DEF TeamsInv, TeamCallOK
  <2>3. \A c \in TeamCalls : teamCalls[c].team \in Nat
          /\ teamCalls[c].step \in {"new", "find", "save", "saved", "refused"}
    BY <2>2 DEF TeamCall
  <2> QED  BY <1>3, <2>1, <2>3 DEF TeamsBounded, Team!TypeOK
<1> QED  BY <1>1, <1>2, <1>3, TeamsSpec, PTL DEF Team!Spec

-----------------------------------------------------------------------------
\* The files of the days there have been, none empty.
LogsTyped ==
    /\ logToFile \in BOOLEAN /\ currentLogFile <= logDay
    /\ \A f \in logFiles : f.day > 0 /\ f.day <= logDay /\ f.size > 0

LEMMA LogsTypedNext ==
  ASSUME LogLimits, LogsInv, LogsTyped, [Logs!Next]_(Logs!vars) PROVE LogsTyped'
<1>1. /\ logDay \in Nat \ {0} /\ currentLogFile \in Nat /\ (logToFile => currentLogFile # 0)
      /\ \A f \in logFiles : f \in LogFile
  BY DEF LogsInv, DirectoryInv, DirectoryOK
<1>2. ASSUME Logs!rotateLogFile, logDay' = logDay, logToFile' = TRUE PROVE LogsTyped'
  <2>1. ASSUME NEW g \in Logs!Rotated PROVE g.day > 0 /\ g.day <= logDay /\ g.size > 0
    <3>1. PICK f \in logFiles : g = f \/ g = [f EXCEPT !.renamed = logTime]
      BY DEF Logs!Rotated
    <3>2. f \in LogFile /\ f.day > 0 /\ f.day <= logDay /\ f.size > 0
      BY <1>1 DEF LogsTyped
    <3>3. g.day = f.day /\ g.size = f.size
      BY <3>1, <3>2 DEF LogFile
    <3> QED  BY <3>2, <3>3
  <2>2. logFiles' \subseteq Logs!Rotated /\ currentLogFile' = logDay
    BY <1>2 DEF Logs!rotateLogFile, Logs!cleanOldLogFiles
  <2> QED  BY <1>1, <1>2, <2>1, <2>2 DEF LogsTyped
<1>3. CASE Logs!writeLog
  <2>1. /\ logToFile' = logToFile /\ currentLogFile' = currentLogFile /\ logDay' = logDay
        /\ logFiles' = IF logToFile THEN Logs!Appended(currentLogFile) ELSE logFiles
    BY <1>3 DEF Logs!writeLog
  <2>2. ASSUME NEW g \in logFiles' PROVE g.day > 0 /\ g.day <= logDay /\ g.size > 0
    <3>1. CASE g \in logFiles
      BY <3>1 DEF LogsTyped
    <3>2. CASE g \notin logFiles
      <4>1. PICK N, c : N = Logs!Named(currentLogFile) /\ c = CHOOSE f \in N : TRUE
        OBVIOUS
      <4>2. /\ logToFile
            /\ g = [day |-> currentLogFile, renamed |-> 0, time |-> logTime,
                    size |-> IF N = {} THEN 1 ELSE 1 + c.size]
        BY <2>1, <3>2, <4>1 DEF Logs!Appended
      <4>3. g.day = currentLogFile /\ g.size = IF N = {} THEN 1 ELSE 1 + c.size
        BY <4>2
      <4>4. N # {} => c.size \in Nat
        <5>1. N \subseteq logFiles /\ (N # {} => c \in N)
          BY <4>1 DEF Logs!Named
        <5> QED  BY <1>1, <5>1 DEF LogFile
      <4> QED  BY <1>1, <4>2, <4>3, <4>4 DEF LogsTyped
    <3> QED  BY <3>1, <3>2
  <2> QED  BY <2>1, <2>2 DEF LogsTyped
<1>4. CASE Logs!enableFileLogging
  BY <1>2, <1>4 DEF Logs!enableFileLogging
<1>5. CASE Logs!Restart
  <2>1. CASE logToFile' = TRUE /\ Logs!rotateLogFile
    BY <1>2, <1>5, <2>1 DEF Logs!Restart
  <2>2. CASE logToFile' = FALSE /\ currentLogFile' = 0 /\ logFiles' = logFiles
    <3>1. logDay' = logDay /\ FALSE \in BOOLEAN /\ 0 <= logDay
      BY <1>1, <1>5 DEF Logs!Restart
    <3> QED  BY <2>2, <3>1 DEF LogsTyped
  <2> QED  BY <1>5, <2>1, <2>2 DEF Logs!Restart
<1>6. CASE Logs!NextDay
  <2>1. /\ logToFile' = logToFile /\ currentLogFile' = currentLogFile /\ logDay' = logDay + 1
        /\ logFiles' = logFiles
    BY <1>6 DEF Logs!NextDay
  <2>2. \A f \in logFiles : f.day \in Nat
    BY <1>1 DEF LogFile
  <2>3. currentLogFile <= logDay + 1
    BY <1>1 DEF LogsTyped
  <2> QED  BY <1>1, <2>1, <2>2, <2>3 DEF LogsTyped
<1>7. CASE Logs!clearBuffer \/ Logs!disableFileLogging \/ UNCHANGED Logs!vars
  BY <1>7 DEF Logs!clearBuffer, Logs!disableFileLogging, Logs!vars, LogsTyped
<1> QED  BY <1>3, <1>4, <1>5, <1>6, <1>7 DEF Logs!Next

LEMMA LogsTypes == ASSUME LogLimits PROVE Logs!Spec => []Logs!TypeOK
<1>1. Logs!Init => LogsTyped
  BY DEF Logs!Init, LogsTyped
<1>2. LogsInv /\ LogsTyped /\ [Logs!Next]_(Logs!vars) => LogsTyped'
  BY LogsTypedNext
<1>3. ASSUME LogsInv, LogsTyped PROVE Logs!TypeOK
  <2>1. /\ logDay \in Nat /\ currentLogFile \in Nat /\ (logToFile => currentLogFile # 0)
        /\ \A f \in logFiles : f \in LogFile /\ f.renamed < logTime /\ f.time < logTime
    BY <1>3 DEF LogsInv, DirectoryInv, DirectoryOK
  <2>2. \A f \in logFiles : f.day \in 1 .. logDay
    BY <1>3, <2>1 DEF LogsTyped, LogFile
  <2>3. currentLogFile \in 0 .. logDay /\ (logToFile => currentLogFile > 0)
    BY <1>3, <2>1 DEF LogsTyped
  <2> QED  BY <1>3, <2>1, <2>2, <2>3 DEF LogsTyped, Logs!TypeOK
<1> QED  BY <1>1, <1>2, <1>3, LogsSpec, PTL DEF Logs!Spec

-----------------------------------------------------------------------------
\* Each request counts once in the version: while it waits, or by its save.
SponsorRequest ==
    [no : 1 .. MaxSponsorRequests, kind : {"add", "remove", "update"}, event : SponsorEvents,
     copy : [exists : BOOLEAN, eventIds : Seq(SponsorEvents), version : 0 .. MaxSponsorRequests]]

SponsorTyped ==
    /\ IsFiniteSet(requests) /\ requests \subseteq SponsorRequest
    /\ sponsorRequests <= MaxSponsorRequests
    /\ doc.version + Cardinality(requests) <= sponsorRequests

LEMMA SponsorTypedNext ==
  ASSUME MaxSponsorRequests \in Nat \ {0}, SponsorInv, SponsorTyped, [Sponsor!Next]_(Sponsor!vars)
  PROVE  SponsorTyped'
<1>1. /\ doc \in SponsorDoc /\ doc.version \in Nat /\ doc.eventIds \in Seq(SponsorEvents)
      /\ doc.exists \in BOOLEAN /\ sponsorRequests \in Nat
      /\ doc = [exists |-> doc.exists, eventIds |-> doc.eventIds, version |-> doc.version]
  BY DEF SponsorInv, SponsorDoc
<1>2. IsFiniteSet(requests) /\ Cardinality(requests) \in Nat
  BY FS_CardinalityType DEF SponsorTyped
<1>3. ASSUME NEW s, Sponsor!CreateSponsor(s) PROVE SponsorTyped'
  <2>1. /\ sponsorRequests = 0 /\ sponsorRequests' = 1 /\ requests' = {} /\ requests = {}
        /\ doc'.version = 0
    BY <1>3 DEF Sponsor!CreateSponsor, SponsorInv
  <2>2. IsFiniteSet({}) /\ Cardinality({}) = 0
    BY FS_EmptySet
  <2> QED  BY <2>1, <2>2 DEF SponsorTyped
<1>4. ASSUME NEW e \in SponsorEvents, NEW kind \in {"add", "remove", "update"},
             Sponsor!Load(kind, e)
      PROVE  SponsorTyped'
  <2>1. PICK r : r = [no |-> sponsorRequests + 1, kind |-> kind, event |-> e, copy |-> doc]
    OBVIOUS
  <2>2. /\ requests' = requests \cup {r} /\ sponsorRequests' = sponsorRequests + 1 /\ doc' = doc
        /\ sponsorRequests < MaxSponsorRequests
    BY <1>4, <2>1 DEF Sponsor!Load
  <2>3. doc.version \in 0 .. MaxSponsorRequests /\ sponsorRequests + 1 \in 1 .. MaxSponsorRequests
    BY <1>1, <1>2, <2>2 DEF SponsorTyped
  <2>4. doc \in [exists : BOOLEAN, eventIds : Seq(SponsorEvents), version : 0 .. MaxSponsorRequests]
    BY <1>1, <2>3
  <2>5. r \in SponsorRequest
    BY <2>1, <2>3, <2>4 DEF SponsorRequest
  <2>6. /\ IsFiniteSet(requests \cup {r})
        /\ Cardinality(requests \cup {r}) \in {Cardinality(requests), Cardinality(requests) + 1}
    BY <1>2, FS_AddElement
  <2>7. doc'.version + Cardinality(requests') <= sponsorRequests'
    BY <1>1, <1>2, <2>2, <2>6 DEF SponsorTyped
  <2> QED  BY <1>1, <2>2, <2>5, <2>6, <2>7 DEF SponsorTyped
<1>5. ASSUME NEW r \in requests,
             Sponsor!AddEvent(r) \/ Sponsor!RemoveEvent(r) \/ Sponsor!UpdateSponsor(r)
      PROVE  SponsorTyped'
  <2>1. /\ requests' = requests \ {r} /\ sponsorRequests' = sponsorRequests
        /\ doc'.version = doc.version \/ doc'.version = doc.version + 1
    <3>1. requests' = requests \ {r} /\ sponsorRequests' = sponsorRequests
      BY <1>5 DEF Sponsor!AddEvent, Sponsor!RemoveEvent, Sponsor!UpdateSponsor, Sponsor!Done
    <3>2. \/ doc' = doc \/ \E l : doc' = [doc EXCEPT !.eventIds = l, !.version = doc.version + 1]
      BY <1>5 DEF Sponsor!AddEvent, Sponsor!RemoveEvent, Sponsor!UpdateSponsor, Sponsor!Saved,
                  Sponsor!Rejected
    <3>3. doc' = doc \/ doc'.version = doc.version + 1
      BY <1>1, <3>2
    <3> QED  BY <3>1, <3>3
  <2>2. IsFiniteSet(requests \ {r}) /\ Cardinality(requests \ {r}) = Cardinality(requests) - 1
    BY <1>2, FS_RemoveElement
  <2>3. doc'.version + Cardinality(requests') <= sponsorRequests'
    BY <1>1, <1>2, <2>1, <2>2 DEF SponsorTyped
  <2> QED  BY <2>1, <2>2, <2>3 DEF SponsorTyped
<1>6. CASE Sponsor!DeleteSponsor
  <2>1. doc'.version = 0 /\ requests' = requests /\ sponsorRequests' = sponsorRequests
    BY <1>6 DEF Sponsor!DeleteSponsor, Sponsor!Absent
  <2> QED  BY <1>1, <1>2, <2>1 DEF SponsorTyped
<1>7. CASE UNCHANGED Sponsor!vars
  BY <1>7 DEF Sponsor!vars, SponsorTyped
<1> QED  BY <1>3, <1>4, <1>5, <1>6, <1>7 DEF Sponsor!Next

LEMMA SponsorTypes ==
  ASSUME MaxSponsorRequests \in Nat \ {0} PROVE Sponsor!Spec => []Sponsor!TypeOK
<1>1. Sponsor!Init => SponsorTyped
  <2>1. IsFiniteSet({}) /\ Cardinality({}) = 0
    BY FS_EmptySet
  <2> QED  BY <2>1 DEF Sponsor!Init, Sponsor!Absent, SponsorTyped
<1>2. SponsorInv /\ SponsorTyped /\ [Sponsor!Next]_(Sponsor!vars) => SponsorTyped'
  BY SponsorTypedNext
<1>3. ASSUME SponsorInv, SponsorTyped PROVE Sponsor!TypeOK
  <2>1. /\ doc.version \in Nat /\ doc.eventIds \in Seq(SponsorEvents)
        /\ doc.exists \in BOOLEAN /\ sponsorRequests \in Nat
        /\ doc = [exists |-> doc.exists, eventIds |-> doc.eventIds, version |-> doc.version]
    BY <1>3 DEF SponsorInv, SponsorDoc
  <2>2. Cardinality(requests) \in Nat
    BY <1>3, FS_CardinalityType DEF SponsorTyped
  <2>3. doc.version \in 0 .. MaxSponsorRequests /\ sponsorRequests \in 0 .. MaxSponsorRequests
    BY <1>3, <2>1, <2>2 DEF SponsorTyped
  <2>4. doc \in [exists : BOOLEAN, eventIds : Seq(SponsorEvents), version : 0 .. MaxSponsorRequests]
    BY <2>1, <2>3
  <2>5. promised \subseteq SponsorEvents
    BY <1>3, <2>1 DEF SponsorInv, Sponsor!AddedEventStays, Sponsor!Listed
  <2> QED  BY <1>3, <2>3, <2>4, <2>5 DEF SponsorTyped, SponsorRequest, Sponsor!TypeOK
<1> QED  BY <1>1, <1>2, <1>3, SponsorSpec, PTL DEF Sponsor!Spec

-----------------------------------------------------------------------------
\* What the cleanup has counted and has still to count is of different sessions.
TopicsTyped ==
    /\ enabled \in BOOLEAN /\ disconnecting \subseteq TopicIds /\ extended \subseteq TopicIds
    /\ topicTime <= MaxTopicTime
    /\ \A t \in Topics!Active :
          session[t].expiry > 0 /\ session[t].expiry <= MaxTopicTime + 1
    /\ cleaned \in Nat /\ cleaned <= Cardinality(TopicIds)
    /\ cleanup # Topics!Idle => cleaned + Len(cleanup) <= Cardinality(TopicIds)

LEMMA TopicsListLength ==
  ASSUME NEW S, S \subseteq TopicIds, TopicLimits
  PROVE  Len(Topics!SetToSeq(S)) <= Cardinality(TopicIds)
<1>1. IsFiniteSet(S) /\ Cardinality(S) <= Cardinality(TopicIds)
  BY FS_Subset DEF TopicLimits
<1>2. PICK n : n = Cardinality(S) /\ n \in Nat /\ ExistsBijection(1 .. n, S)
  BY <1>1, FS_CardinalityType
<1>3. Topics!Cardinality(S) = n
  BY <1>2 DEF Topics!Cardinality, Cardinality
<1>4. \E f \in [1 .. n -> S] : Topics!IsInjective(f)
  <2>1. PICK f : f \in Bijection(1 .. n, S)
    BY <1>2 DEF ExistsBijection
  <2>2. f \in [1 .. n -> S] /\ \A a, b \in 1 .. n : f[a] = f[b] => a = b
    BY <2>1 DEF Bijection, Injection, IsInjective
  <2> QED  BY <2>2 DEF Topics!IsInjective
<1>5. Topics!SetToSeq(S) \in [1 .. n -> S]
  BY <1>3, <1>4 DEF Topics!SetToSeq
<1>6. Len(Topics!SetToSeq(S)) = n
  BY <1>2, <1>5
<1> QED  BY <1>1, <1>2, <1>6

LEMMA TopicsTypedNext ==
  ASSUME TopicLimits, MaxTopicTime \in Nat, TopicsInv, TopicsTyped, [Topics!Next]_(Topics!vars)
  PROVE  TopicsTyped'
<1>1. /\ topicTime \in Nat /\ Topics!Active \subseteq TopicIds
      /\ session = [t \in TopicIds |-> session[t]] /\ Cardinality(TopicIds) \in Nat
      /\ \A t \in Topics!Active : session[t] \in [expiry : Nat, accounts : AccountSets]
  <2>1. Cardinality(TopicIds) \in Nat
    BY FS_CardinalityType DEF TopicLimits
  <2> QED  BY <2>1, TopicFields DEF TopicsInv, TopicTypes, Topics!Active
\* The steps of the wallets, and what the ends of the awaits do to a session.
<1>2. ASSUME NEW t \in TopicIds, NEW s, session' = [session EXCEPT ![t] = s],
             s # Topics!None => s.expiry > 0 /\ s.expiry <= MaxTopicTime + 1,
             UNCHANGED <<enabled, cleanup, cleaned, topicTime>>,
             disconnecting' \subseteq TopicIds, extended' \subseteq TopicIds
      PROVE  TopicsTyped'
  <2>1. \A x \in TopicIds : session'[x] = IF x = t THEN s ELSE session[x]
    BY <1>1, <1>2
  <2>2. \A x \in Topics!Active' : session'[x].expiry > 0 /\ session'[x].expiry <= MaxTopicTime + 1
    BY <1>2, <2>1 DEF Topics!Active, TopicsTyped
  <2> QED  BY <1>2, <2>2 DEF TopicsTyped
<1>3. ASSUME NEW t \in TopicIds, NEW accounts \in AccountSets, Topics!Settled(t, accounts)
      PROVE  TopicsTyped'
  <2>1. PICK s : s = [expiry |-> topicTime + 1, accounts |-> accounts]
    OBVIOUS
  <2>2. s.expiry > 0 /\ s.expiry <= MaxTopicTime + 1
    BY <1>1, <2>1 DEF TopicsTyped
  <2> QED  BY <1>2, <1>3, <2>1, <2>2 DEF Topics!Settled, TopicsTyped
<1>4. ASSUME NEW t \in TopicIds, NEW accounts \in AccountSets, Topics!Updated(t, accounts)
      PROVE  TopicsTyped'
  <2>1. PICK s : s = [session[t] EXCEPT !.accounts = accounts]
    OBVIOUS
  <2>2. t \in Topics!Active /\ session' = [session EXCEPT ![t] = s]
    BY <1>4, <2>1 DEF Topics!Updated
  <2>3. s.expiry = session[t].expiry
    BY <1>1, <2>1, <2>2
  <2>4. s.expiry > 0 /\ s.expiry <= MaxTopicTime + 1
    BY <2>2, <2>3 DEF TopicsTyped
  <2> QED  BY <1>2, <1>4, <2>2, <2>4 DEF Topics!Updated, TopicsTyped
<1>5. ASSUME NEW t \in TopicIds, Topics!Extended(t) PROVE TopicsTyped'
  <2>1. PICK s : s = [session[t] EXCEPT !.expiry = topicTime + 1]
    OBVIOUS
  <2>2. t \in Topics!Active /\ session' = [session EXCEPT ![t] = s]
    BY <1>5, <2>1 DEF Topics!Extended
  <2>3. s.expiry = topicTime + 1
    BY <1>1, <2>1, <2>2
  <2>4. s.expiry > 0 /\ s.expiry <= MaxTopicTime + 1
    BY <1>1, <2>3 DEF TopicsTyped
  <2> QED  BY <1>2, <1>5, <2>2, <2>4 DEF Topics!Extended, TopicsTyped
<1>6. ASSUME NEW t \in TopicIds, Topics!DeletedByPeer(t) PROVE TopicsTyped'
  BY <1>2, <1>6 DEF Topics!DeletedByPeer, Topics!Removed, TopicsTyped
<1>7. ASSUME NEW t \in TopicIds, Topics!DisconnectSession(t) PROVE TopicsTyped'
  BY <1>7 DEF Topics!DisconnectSession, Topics!Active, TopicsTyped
<1>8. ASSUME NEW t \in TopicIds, Topics!Disconnected(t) PROVE TopicsTyped'
  <2>1. CASE Topics!Removed(t)
    BY <1>2, <1>8, <2>1 DEF Topics!Disconnected, Topics!Removed, TopicsTyped
  <2>2. CASE session' = session
    BY <1>8, <2>2 DEF Topics!Disconnected, Topics!Active, TopicsTyped
  <2> QED  BY <1>8, <2>1, <2>2 DEF Topics!Disconnected
<1>9. CASE Topics!CleanupExpiredSessions
  <2>1. PICK S : S = {t \in Topics!Active : Topics!HasExpired(session[t].expiry)}
    OBVIOUS
  <2>2. /\ S \subseteq TopicIds /\ cleanup' = Topics!SetToSeq(S) /\ cleaned' = 0 /\ extended' = {}
        /\ UNCHANGED <<enabled, session, used, disconnecting, topicTime>>
    BY <1>1, <1>9, <2>1 DEF Topics!CleanupExpiredSessions
  <2>3. Len(cleanup') <= Cardinality(TopicIds) /\ Len(cleanup') \in Nat
    BY <2>2, TopicsListLength, TopicsListed
  <2> QED  BY <1>1, <2>2, <2>3 DEF TopicsTyped, Topics!Active
<1>10. CASE Topics!CleanupDisconnects
  <2>1. /\ cleanup # Topics!Idle /\ cleanup # <<>> /\ cleanup \in Seq(TopicIds)
        /\ cleanup' = Tail(cleanup) /\ cleaned' = cleaned + 1
        /\ UNCHANGED <<enabled, used, disconnecting, extended, topicTime>>
    BY <1>10 DEF Topics!CleanupDisconnects, TopicsInv, ListOK
  <2>2. /\ Len(cleanup') = Len(cleanup) - 1 /\ Len(cleanup) \in Nat /\ Len(cleanup) > 0
        /\ Head(cleanup) \in TopicIds
    BY <2>1
  <2>3. /\ cleaned \in Nat /\ cleaned + Len(cleanup) <= Cardinality(TopicIds)
        /\ cleaned + 1 <= Cardinality(TopicIds)
    BY <1>1, <2>1, <2>2 DEF TopicsTyped
  <2>4. cleaned' \in Nat /\ cleaned' <= Cardinality(TopicIds)
          /\ cleaned' + Len(cleanup') <= Cardinality(TopicIds)
    BY <2>1, <2>2, <2>3
  <2>5. \A t \in Topics!Active' : t \in Topics!Active /\ session'[t] = session[t]
    <3>1. \A t \in TopicIds : session'[t] \in {Topics!None, session[t]}
      BY <1>1, <1>10, <2>2 DEF Topics!CleanupDisconnects, Topics!Removed
    <3> QED  BY <3>1 DEF Topics!Active
  <2> QED  BY <2>1, <2>4, <2>5 DEF TopicsTyped
<1>11. CASE Topics!CleanupEnds
  BY <1>11 DEF Topics!CleanupEnds, TopicsTyped, Topics!Active
<1>12. CASE Topics!Tick
  <2>1. /\ topicTime' = topicTime + 1 /\ topicTime < MaxTopicTime
        /\ UNCHANGED <<enabled, session, used, disconnecting, cleanup, cleaned, extended>>
    BY <1>12 DEF Topics!Tick
  <2>2. topicTime' <= MaxTopicTime
    BY <1>1, <2>1
  <2> QED  BY <2>1, <2>2 DEF TopicsTyped, Topics!Active
<1>13. CASE UNCHANGED Topics!vars
  BY <1>13 DEF Topics!vars, TopicsTyped, Topics!Active
<1> QED  BY <1>3, <1>4, <1>5, <1>6, <1>7, <1>8, <1>9, <1>10, <1>11, <1>12, <1>13 DEF Topics!Next

LEMMA TopicsTypes ==
  ASSUME TopicLimits, MaxTopicTime \in Nat PROVE Topics!Spec => []Topics!TypeOK
<1>1. Topics!Init => TopicsTyped
  <2>1. Cardinality(TopicIds) \in Nat
    BY FS_CardinalityType DEF TopicLimits
  <2> QED  BY <2>1 DEF Topics!Init, TopicsTyped, Topics!Active
<1>2. TopicsInv /\ TopicsTyped /\ [Topics!Next]_(Topics!vars) => TopicsTyped'
  BY TopicsTypedNext
<1>3. ASSUME TopicsInv, TopicsTyped PROVE Topics!TypeOK
  <2>1. Topics!Cardinality(TopicIds) = Cardinality(TopicIds) /\ Cardinality(TopicIds) \in Nat
    BY FS_CardinalityType DEF TopicLimits, Topics!Cardinality, Cardinality
  <2>2. cleaned \in 0 .. Topics!Cardinality(TopicIds) /\ topicTime \in 0 .. MaxTopicTime
    BY <1>3, <2>1 DEF TopicsTyped, TopicsInv, TopicTypes
  <2>3. session \in [TopicIds -> {Topics!None} \cup
                                 [expiry : 1 .. MaxTopicTime + 1, accounts : AccountSets]]
    <3>1. session \in [TopicIds -> {Topics!None} \cup [expiry : Nat, accounts : AccountSets]]
      BY <1>3 DEF TopicsInv, TopicTypes
    <3>2. ASSUME NEW t \in TopicIds, session[t] # Topics!None
          PROVE  session[t] \in [expiry : 1 .. MaxTopicTime + 1, accounts : AccountSets]
      <4>1. PICK s : s = session[t] /\ s \in [expiry : Nat, accounts : AccountSets]
        BY <3>1, <3>2
      <4>2. s.expiry > 0 /\ s.expiry <= MaxTopicTime + 1
        BY <1>3, <3>2, <4>1 DEF TopicsTyped, Topics!Active
      <4>3. s.expiry \in 1 .. MaxTopicTime + 1
        BY <4>1, <4>2
      <4> QED  BY <4>1, <4>3
    <3> QED  BY <3>1, <3>2
  <2>4. cleanup = Topics!Idle \/ cleanup \in Seq(TopicIds)
    BY <1>3 DEF TopicsInv, ListOK
  <2>5. used \subseteq TopicIds
    BY <1>3 DEF TopicsInv, TopicTypes
  <2> QED  BY <1>3, <2>2, <2>3, <2>4, <2>5 DEF TopicsTyped, Topics!TypeOK
<1> QED  BY <1>1, <1>2, <1>3, TopicsSpec, PTL DEF Topics!Spec

-----------------------------------------------------------------------------
UploadsTyped ==
    /\ count \in 0 .. MaxUploads /\ uploadTime \in 0 .. MaxUploadTime
    /\ given \subseteq Files!Ids /\ clashed \subseteq given
    /\ \A w \in saving : w.no \in 1 .. MaxUploads
    /\ IsFiniteSet(deleting) /\ \A d \in deleting : d.no \in 0 .. MaxUploads

LEMMA UploadsTypedNext ==
  ASSUME MaxUploads \in Nat, MaxUploadTime \in Nat, UploadsInv, UploadsTyped,
         [Files!Next]_(Files!vars)
  PROVE  UploadsTyped'
<1>1. ASSUME NEW n \in FileNames, Files!UploadFile(n) PROVE UploadsTyped'
  <2>1. PICK f, w : f = Files!FileId(n) /\ w = [id |-> f, no |-> count', written |-> FALSE]
    OBVIOUS
  <2>2. /\ count' = count + 1 /\ count < MaxUploads /\ saving' = saving \cup {w}
        /\ given' = given \cup {f} /\ clashed' = clashed \cup (given \cap {f})
        /\ UNCHANGED <<uploads, disk, deleting, uploadTime>>
    BY <1>1, <2>1 DEF Files!UploadFile
  <2>3. f \in Files!Ids
    BY <2>1 DEF Files!FileId, Files!Ids, UploadsTyped
  <2>4. count' \in 1 .. MaxUploads /\ w.no = count'
    BY <2>1, <2>2 DEF UploadsTyped
  <2> QED  BY <2>2, <2>3, <2>4 DEF UploadsTyped
<1>2. ASSUME NEW w \in saving, Files!Written(w) \/ Files!WriteFailed(w) \/ Files!Uploaded(w)
      PROVE  UploadsTyped'
  <2>1. /\ UNCHANGED <<deleting, given, count, uploadTime>>
        /\ clashed' = clashed \/ clashed' = clashed \cup {w.id}
        /\ saving' \subseteq saving \cup {[w EXCEPT !.written = TRUE]}
    BY <1>2 DEF Files!Written, Files!WriteFailed, Files!Uploaded
  <2>2. w.id \in given /\ w = [id |-> w.id, no |-> w.no, written |-> w.written]
    BY DEF UploadsInv, UploadTypes
  <2>3. [w EXCEPT !.written = TRUE].no = w.no
    BY <2>2
  <2> QED  BY <2>1, <2>2, <2>3 DEF UploadsTyped
<1>3. ASSUME NEW id, Files!DeleteFile(id) PROVE UploadsTyped'
  <2>1. PICK n, d : n = Cardinality(deleting) /\ d = [id |-> id, no |-> n, unlinked |-> FALSE]
    OBVIOUS
  <2>2. n \in Nat /\ Files!Cardinality(deleting) = n
    BY <2>1, FS_CardinalityType DEF UploadsTyped, Files!Cardinality, Cardinality
  <2>3. n < MaxUploads /\ deleting' = deleting \cup {d}
        /\ UNCHANGED <<saving, given, clashed, count, uploadTime>>
    BY <1>3, <2>1, <2>2 DEF Files!DeleteFile
  <2>4. IsFiniteSet(deleting')
    BY <2>3, FS_AddElement DEF UploadsTyped
  <2>5. d.no \in 0 .. MaxUploads
    BY <2>1, <2>2, <2>3
  <2> QED  BY <2>3, <2>4, <2>5 DEF UploadsTyped
<1>4. ASSUME NEW d \in deleting, Files!Unlinked(d) \/ Files!Deleted(d) \/ Files!UnlinkFailed(d)
      PROVE  UploadsTyped'
  <2>1. PICK e : e = [d EXCEPT !.unlinked = TRUE]
    OBVIOUS
  <2>2. UNCHANGED <<saving, given, clashed, count, uploadTime>>
        /\ (deleting' = deleting \ {d} \/ deleting' = (deleting \ {d}) \cup {e})
    BY <1>4, <2>1 DEF Files!Unlinked, Files!Deleted, Files!UnlinkFailed
  <2>3. d = [id |-> d.id, no |-> d.no, unlinked |-> d.unlinked]
    BY DEF UploadsInv, UploadTypes
  <2>4. e.no = d.no
    BY <2>1, <2>3
  <2>5. IsFiniteSet(deleting \ {d})
    BY FS_RemoveElement DEF UploadsTyped
  <2>6. IsFiniteSet((deleting \ {d}) \cup {e})
    BY <2>5, FS_AddElement
  <2> QED  BY <2>2, <2>4, <2>5, <2>6 DEF UploadsTyped
<1>5. CASE Files!Tick
  <2>1. /\ uploadTime' = uploadTime + 1 /\ uploadTime < MaxUploadTime
        /\ UNCHANGED <<uploads, disk, saving, deleting, given, clashed, count>>
    BY <1>5 DEF Files!Tick
  <2>2. uploadTime' \in 0 .. MaxUploadTime
    BY <2>1 DEF UploadsTyped
  <2> QED  BY <2>1, <2>2 DEF UploadsTyped
<1>6. CASE UNCHANGED Files!vars
  BY <1>6 DEF Files!vars, UploadsTyped
<1> QED  BY <1>1, <1>2, <1>3, <1>4, <1>5, <1>6 DEF Files!Next

LEMMA UploadsTypes ==
  ASSUME MaxUploads \in Nat, MaxUploadTime \in Nat PROVE Files!Spec => []Files!TypeOK
<1>1. Files!Init => UploadsTyped
  BY FS_EmptySet DEF Files!Init, UploadsTyped
<1>2. UploadsInv /\ UploadsTyped /\ [Files!Next]_(Files!vars) => UploadsTyped'
  BY UploadsTypedNext
<1>3. ASSUME UploadsInv, UploadsTyped PROVE Files!TypeOK
  <2>1. ASSUME NEW w \in saving
        PROVE  w \in [id : Files!Ids, no : 1 .. MaxUploads, written : BOOLEAN]
    <3>1. /\ w = [id |-> w.id, no |-> w.no, written |-> w.written] /\ w.written \in BOOLEAN
          /\ w.id \in Files!Ids /\ w.no \in 1 .. MaxUploads
      BY <1>3 DEF UploadsInv, UploadTypes, UploadsTyped
    <3> QED  BY <3>1
  <2>2. ASSUME NEW d \in deleting
        PROVE  d \in [id : Files!Ids, no : 0 .. MaxUploads, unlinked : BOOLEAN]
    <3>1. /\ d = [id |-> d.id, no |-> d.no, unlinked |-> d.unlinked] /\ d.unlinked \in BOOLEAN
          /\ d.id \in Files!Ids /\ d.no \in 0 .. MaxUploads
      BY <1>3 DEF UploadsInv, UploadTypes, UploadsTyped
    <3> QED  BY <3>1
  <2>3. uploads \subseteq Files!Ids /\ disk \subseteq Files!Ids
    BY <1>3 DEF UploadsInv, UploadTypes, UploadsTyped
  <2> QED  BY <1>3, <2>1, <2>2, <2>3 DEF UploadsTyped, Files!TypeOK
<1> QED  BY <1>1, <1>2, <1>3, UploadsSpec, PTL DEF Files!Spec

-----------------------------------------------------------------------------
(* The types of the contract service.                                        *)

ChainBounded ==
    /\ chainBlock <= MaxBlock /\ txStatus.confirmations <= MaxBlock
    /\ txWait \in {"idle", "waiting", "confirmed", "timed out"}

LEMMA ChainBoundedNext ==
  ASSUME ContractLimits, ContractInv, ChainBounded, [Contract!Next]_(Contract!vars)
  PROVE  ChainBounded'
<1>0. chainBlock \in Nat /\ MaxBlock \in Nat
  BY DEF ContractInv, InfoInv, InfoTypes, ContractLimits
<1>b. chainBlock <= MaxBlock /\ txStatus.confirmations <= MaxBlock
  BY DEF ChainBounded
<1>1. CASE Contract!Mine
  <2>1. UNCHANGED <<txStatus, txWait>> /\ chainBlock < MaxBlock /\ chainBlock' = chainBlock + 1
    BY <1>1 DEF Contract!Mine, Contract!readers
  <2>2. chainBlock' <= MaxBlock
    BY <1>0, <2>1
  <2> QED  BY <2>1, <2>2 DEF ChainBounded
<1>2. CASE \/ Contract!createEvent \/ Contract!fundEvent \/ Contract!sendRawTransaction
           \/ Contract!Sent \/ Contract!Receipt
  <2>1. UNCHANGED <<chainBlock, txStatus, txWait>>
    BY <1>2 DEF Contract!createEvent, Contract!fundEvent, Contract!sendRawTransaction,
          Contract!Begin, Contract!Sent, Contract!Receipt, Contract!Broadcast, Contract!chain,
          Contract!readers
  <2> QED  BY <2>1 DEF ChainBounded
<1>3. CASE \/ Contract!GetTransaction \/ Contract!GetTransactionReceipt \/ Contract!StatusAgain
  <2>1. UNCHANGED <<chainBlock, txWait>>
    BY <1>3 DEF Contract!GetTransaction, Contract!GetTransactionReceipt, Contract!StatusAgain,
          Contract!chain
  <2>2. txStatus \in Asked
    BY DEF ContractInv, ReportsInv, StatusOK
  <2>3. txStatus'.confirmations = txStatus.confirmations \/ txStatus'.confirmations = 0
    <3>1. CASE Contract!GetTransaction
      BY <2>2, <3>1 DEF Contract!GetTransaction, Asked
    <3>2. CASE Contract!GetTransactionReceipt
      <4>1. PICK a, s : a = chainTx.at /\ s = chainTx.status
        OBVIOUS
      <4>2. txStatus' = [txStatus EXCEPT !.step = "receipt", !.status = s, !.at = a]
        BY <3>2, <4>1 DEF Contract!GetTransactionReceipt
      <4> QED  BY <2>2, <4>2 DEF Asked
    <3>3. CASE Contract!StatusAgain
      BY <3>3 DEF Contract!StatusAgain, Contract!NotAsked
    <3> QED  BY <1>3, <3>1, <3>2, <3>3
  <2>4. txStatus'.confirmations <= MaxBlock
    BY <1>0, <1>b, <2>3
  <2> QED  BY <2>1, <2>4 DEF ChainBounded
<1>4. CASE Contract!GetBlockNumber
  <2>1. UNCHANGED <<chainBlock, txWait>>
    BY <1>4 DEF Contract!GetBlockNumber, Contract!chain
  <2>2. txStatus \in Asked /\ txStatus.at \in Nat
    BY DEF ContractInv, ReportsInv, StatusOK, Asked
  <2>3. txStatus'.confirmations = IF txStatus.status = "pending" THEN 0
                                  ELSE chainBlock - txStatus.at
    BY <1>4, <2>2 DEF Contract!GetBlockNumber, Asked
  <2>4. txStatus'.confirmations <= MaxBlock
    BY <1>0, <1>b, <2>2, <2>3
  <2> QED  BY <2>1, <2>4 DEF ChainBounded
<1>5. CASE Contract!WaitForTransaction
  BY <1>5 DEF Contract!WaitForTransaction, Contract!chain, ChainBounded
<1>6. ASSUME NEW c \in NetworkCallers,
             \/ Contract!getNetworkInfo(c) \/ Contract!getProviderStats(c)
             \/ Contract!estimateGas(c) \/ Contract!checkConnection(c)
             \/ Contract!NetworkRead(c) \/ Contract!BlockRead(c) \/ Contract!GasPriceRead(c)
             \/ Contract!getGasPrice(c) \/ Contract!GasLimitRead(c) \/ Contract!FeeDataRead(c)
             \/ Contract!ReadFails(c)
      PROVE  ChainBounded'
  <2>1. UNCHANGED <<Contract!chain, Contract!readers>>
    BY <1>6 DEF Contract!getNetworkInfo, Contract!getProviderStats, Contract!estimateGas,
          Contract!checkConnection, Contract!NetworkRead, Contract!BlockRead,
          Contract!GasPriceRead, Contract!getGasPrice, Contract!GasLimitRead,
          Contract!FeeDataRead, Contract!ReadFails, Contract!Called, Contract!Unkept
  <2> QED  BY <2>1 DEF Contract!chain, Contract!readers, ChainBounded
<1>7. CASE UNCHANGED Contract!vars
  BY <1>7 DEF Contract!vars, ChainBounded
<1> QED  BY <1>1, <1>2, <1>3, <1>4, <1>5, <1>6, <1>7 DEF Contract!Next

LEMMA ContractTypes ==
  ASSUME ContractLimits PROVE Contract!Spec => []Contract!TypeOK
<1>1. Contract!Init => ChainBounded
  BY DEF Contract!Init, Contract!NotAsked, ChainBounded, ContractLimits
<1>2. ContractInv /\ ChainBounded /\ [Contract!Next]_(Contract!vars) => ChainBounded'
  BY ChainBoundedNext
<1>3. ASSUME ContractInv, ChainBounded PROVE Contract!TypeOK
  <2>1. /\ chainTx.status \in {"none", "pending", "success", "failed"} /\ chainTx.at \in 0 .. chainBlock
        /\ contractCall \in {"idle", "skipped", "sending", "waiting", "success", "failure"}
    BY <1>3 DEF ContractInv, ReportsInv, ChainTypes, SenderOK
  <2>2. /\ txStatus.step \in {"idle", "known", "unknown", "receipt", "done"}
        /\ txStatus.status \in {"pending", "success", "failed"}
        /\ txStatus.confirmations \in Nat
    BY <1>3 DEF ContractInv, ReportsInv, StatusOK, Asked, Mined
  <2>5. txStatus.confirmations \in 0 .. MaxBlock
    <3>1. txStatus.confirmations <= MaxBlock /\ MaxBlock \in Nat
      BY <1>3 DEF ChainBounded, ContractLimits
    <3> QED  BY <2>2, <3>1
  <2>3. networkInfo \subseteq
          [blockNumber : 0 .. chainBlock, gasPrice : 0 .. chainBlock, began : 0 .. chainBlock]
    <3> SUFFICES ASSUME NEW i \in networkInfo
                 PROVE  i \in [blockNumber : 0 .. chainBlock, gasPrice : 0 .. chainBlock,
                               began : 0 .. chainBlock]
      OBVIOUS
    <3>1. /\ i \in [blockNumber : Nat, gasPrice : Nat, began : Nat] /\ chainBlock \in Nat
          /\ i.began <= i.blockNumber /\ i.blockNumber <= i.gasPrice /\ i.gasPrice <= chainBlock
      BY <1>3 DEF ContractInv, InfoInv, InfoTypes
    <3>2. i.blockNumber \in 0 .. chainBlock /\ i.gasPrice \in 0 .. chainBlock
          /\ i.began \in 0 .. chainBlock
      BY <3>1
    <3> QED  BY <3>1, <3>2
  <2>4. ASSUME NEW c \in NetworkCallers
        PROVE  {networkCalls[c].began, networkCalls[c].blockNumber, networkCalls[c].gasPrice}
                 \subseteq 0 .. chainBlock
    <3>1. PICK k : k = networkCalls[c]
      OBVIOUS
    <3>2. NetworkCallOK(k) /\ k \in NetworkCall /\ chainBlock \in Nat
      BY <1>3, <3>1, NetworkCallFields DEF ContractInv
    <3>3. k.began \in Nat /\ k.blockNumber \in Nat /\ k.gasPrice \in Nat
      BY <3>2 DEF NetworkCall
    <3>4. k.began <= chainBlock /\ k.blockNumber <= chainBlock /\ k.gasPrice <= chainBlock
      BY <3>2 DEF NetworkCallOK
    <3> QED  BY <3>1, <3>2, <3>3, <3>4
  <2> QED  BY <1>3, <2>1, <2>2, <2>3, <2>4, <2>5 DEF Contract!TypeOK, ChainBounded
<1> QED  BY <1>1, <1>2, <1>3, ContractSpec, PTL DEF Contract!Spec

-----------------------------------------------------------------------------
(* The types of the pages.                                                   *)

\* No two documents have one place, so that a page has no more of them than it has places.
LEMMA PageFits ==
  ASSUME NEW D, Docs(D), NEW b \in Nat, NEW L \in Nat, NEW P, P \subseteq D,
         \A d \in P : b <= Rank(D, d) /\ Rank(D, d) < b + L
  PROVE  Cardinality(P) <= L
<1> DEFINE T == b .. b + L - 1
           f == [d \in P |-> Rank(D, d)]
<1>1. IsFiniteSet(P) /\ Cardinality(P) \in Nat
  <2>1. P \in SUBSET D
    OBVIOUS
  <2>2. IsFiniteSet(P)
    BY <2>1, FS_Subset DEF Docs
  <2> QED  BY <2>2, FS_CardinalityType
<1>2. IsFiniteSet(T) /\ Cardinality(T) = L
  <2>1. PICK e : e = b + L - 1
    OBVIOUS
  <2>2. e \in Int /\ T = b .. e
    BY <2>1
  <2>3. IsFiniteSet(b .. e) /\ Cardinality(b .. e) = IF b > e THEN 0 ELSE e - b + 1
    BY <2>2, FS_Interval
  <2> QED  BY <2>1, <2>2, <2>3
<1>3. f \in [P -> T]
  <2> SUFFICES ASSUME NEW d \in P PROVE Rank(D, d) \in T
    OBVIOUS
  <2>1. PICK r : r = Rank(D, d)
    OBVIOUS
  <2>2. r \in Nat /\ b <= r /\ r < b + L
    BY <2>1, RankType
  <2> QED  BY <2>1, <2>2
<1>4. ASSUME NEW x \in P, NEW y \in P, x # y PROVE f[x] # f[y]
  <2>1. x \in Nat /\ y \in Nat /\ x \in D /\ y \in D
    BY DEF Docs
  <2>2. PICK r, s : r = Rank(D, x) /\ s = Rank(D, y)
    OBVIOUS
  <2>3. r \in Nat /\ s \in Nat
    BY <2>2, RankType
  <2>4. x < y => s + 1 <= r
    BY <2>1, <2>2, RankOrder
  <2>5. y < x => r + 1 <= s
    BY <2>1, <2>2, RankOrder
  <2>6. r # s
    BY <1>4, <2>1, <2>3, <2>4, <2>5
  <2> QED  BY <2>2, <2>6
<1>5. ~(Cardinality(T) < Cardinality(P))
  <2> HIDE DEF T, f
  <2> QED  BY <1>1, <1>2, <1>3, <1>4, FS_PigeonHole
<1> QED  BY <1>1, <1>2, <1>5

\* The pages of more documents are no fewer.
LEMMA MorePages ==
  ASSUME PageLimits, NEW n \in Nat, n <= MaxDocs
  PROVE  /\ Listed!totalPages(n) \in Int /\ Listed!totalPages(MaxDocs) \in Nat
         /\ Listed!totalPages(n) <= Listed!totalPages(MaxDocs)
<1>1. PICK L, m, p, q : L = pageSize /\ m = MaxDocs
         /\ p = (n + L - 1) \div L /\ q = (m + L - 1) \div L
  OBVIOUS
<1>2. L \in Nat /\ L > 0 /\ m \in Nat /\ n <= m
  BY <1>1 DEF PageLimits
<1>3. p \in Int /\ n + L - 1 >= L * p /\ n + L - 1 < L * p + L
  BY <1>1, <1>2
<1>4. q \in Int /\ m + L - 1 >= L * q /\ m + L - 1 < L * q + L
  BY <1>1, <1>2
<1>5. p <= q
  <2> SUFFICES ASSUME q + 1 <= p PROVE FALSE
    BY <1>3, <1>4
  <2>1. L * (q + 1) <= L * p
    BY <1>2, <1>3, <1>4
  <2>2. L * (q + 1) = L * q + L /\ L * q \in Int /\ L * p \in Int
    BY <1>2, <1>3, <1>4
  <2> QED  BY <1>2, <1>3, <1>4, <2>1, <2>2
<1>6. q >= 0
  <2> SUFFICES ASSUME q + 1 <= 0 PROVE FALSE
    BY <1>4
  <2>1. L * (q + 1) <= 0 /\ L * (q + 1) = L * q + L /\ L * q \in Int
    BY <1>2, <1>4
  <2> QED  BY <1>2, <1>4, <2>1
<1> QED  BY <1>1, <1>3, <1>4, <1>5, <1>6 DEF Listed!totalPages

\* Numbers up to the newest document's, and pages that fit.
PagesTyped ==
    /\ listing \in Listed!Listings /\ repeated \in BOOLEAN /\ newest <= MaxDocs
    /\ atStart \subseteq 1 .. newest /\ pagesGot \subseteq 1 .. newest
    /\ page <= Listed!totalPages(MaxDocs) + 1
    /\ \A d \in pageData : d \subseteq 1 .. newest /\ Cardinality(d) <= pageSize
    /\ \A n \in pageTotal : n <= MaxDocs

LEMMA PagesTypedFind ==
  ASSUME PageLimits, PagesInv, PagesTyped, NEW l, Listed!find(l) PROVE PagesTyped'
<1>1. PICK D, B, P : D = listedDocs /\ B = (page - 1) * pageSize /\ P = Listed!Page
  OBVIOUS
<1>2. /\ page > 0 /\ page \in Nat /\ Docs(D) /\ D \subseteq 1 .. newest /\ pageSize \in Nat
  BY <1>1, PageFacts DEF PagesInv, PageTypes, Listed!find, PageLimits
<1>3. B \in Nat /\ page * pageSize = B + pageSize
  BY <1>1, <1>2, PageBounds
<1>4. P \subseteq D /\ \A d \in P : B <= Rank(D, d) /\ Rank(D, d) < B + pageSize
  <2>1. P = {d \in D : Listed!Before(d) \in B .. B + pageSize - 1}
    <3>1. PICK c : c = page * pageSize
      OBVIOUS
    <3>2. P = {d \in D : Listed!Before(d) \in B .. c - 1}
      BY <1>1, <3>1 DEF Listed!Page
    <3>3. c = B + pageSize
      BY <1>3, <3>1
    <3>4. c - 1 = B + pageSize - 1
      BY <1>2, <1>3, <3>3
    <3> QED  BY <3>2, <3>4, Zenon
  <2>2. \A d \in D : Listed!Before(d) = Rank(D, d)
    BY <1>1, PagesCount DEF Listed!Before, Rank, Newer
  <2>3. \A k \in B .. B + pageSize - 1 : B <= k /\ k < B + pageSize
    BY <1>2, <1>3
  <2> QED  BY <2>1, <2>2, <2>3
<1>5. Cardinality(P) <= pageSize
  BY <1>2, <1>3, <1>4, PageFits
<1>6. pageData' = {P} /\ UNCHANGED <<listing, repeated, newest, atStart, pagesGot, page, pageTotal>>
  BY <1>1 DEF Listed!find
<1> QED  BY <1>2, <1>4, <1>5, <1>6 DEF PagesTyped, Listed!totalPages

LEMMA PagesTypedAnswer ==
  ASSUME PageLimits, PagesInv, PagesTyped, Listed!Answer PROVE PagesTyped'
<1>1. PICK d \in pageData, n \in pageTotal :
        /\ pagesGot' = pagesGot \cup d
        /\ repeated' = (repeated \/ pagesGot \cap d # {})
        /\ page' = IF page < Listed!totalPages(n) THEN page + 1 ELSE 0
  BY DEF Listed!Answer
<1>2. pageData' = {} /\ pageTotal' = {} /\ UNCHANGED <<listing, newest, atStart>>
  BY DEF Listed!Answer
<1>3. page \in Nat /\ n \in Nat /\ n <= MaxDocs
  BY DEF PagesInv, PageTypes, PagesTyped
<1>4. page' <= Listed!totalPages(MaxDocs) + 1
  <2>1. PICK p, q : p = Listed!totalPages(n) /\ q = Listed!totalPages(MaxDocs)
    OBVIOUS
  <2>2. p \in Int /\ q \in Nat /\ p <= q
    BY <1>3, <2>1, MorePages
  <2>3. page' = IF page < p THEN page + 1 ELSE 0
    BY <1>1, <2>1
  <2>4. page' <= q + 1
    BY <1>3, <2>2, <2>3
  <2> QED  BY <2>1, <2>4
<1>5. pagesGot' \subseteq 1 .. newest /\ repeated' \in BOOLEAN
  BY <1>1 DEF PagesTyped
<1>6. Listed!totalPages(MaxDocs)' = Listed!totalPages(MaxDocs)
  BY DEF Listed!totalPages
<1> QED  BY <1>2, <1>4, <1>5, <1>6 DEF PagesTyped

LEMMA PagesTypedNext ==
  ASSUME PageLimits, PagesInv, PagesTyped, [Listed!Next]_(Listed!vars) PROVE PagesTyped'
<1>0. newest \in Nat /\ MaxDocs \in Nat /\ Listed!totalPages(MaxDocs)' = Listed!totalPages(MaxDocs)
  BY DEF PagesInv, PageTypes, PageLimits, Listed!totalPages
<1>1. ASSUME NEW l, Listed!find(l) PROVE PagesTyped'
  BY <1>1, PagesTypedFind
<1>2. CASE Listed!countDocuments
  <2>1. pageTotal' = {Cardinality(listedDocs)}
        /\ UNCHANGED <<listing, newest, atStart, page, pageData, pagesGot, repeated>>
    BY <1>2, PagesCount DEF Listed!countDocuments
  <2>2. Cardinality(listedDocs) <= MaxDocs
    <3>1. listedDocs \subseteq 1 .. newest /\ newest <= MaxDocs
      BY DEF PagesInv, PageTypes, PagesTyped
    <3>2. IsFiniteSet(1 .. newest) /\ Cardinality(1 .. newest) = newest
      <4>1. IsFiniteSet(1 .. newest)
            /\ Cardinality(1 .. newest) = IF 1 > newest THEN 0 ELSE newest - 1 + 1
        BY <1>0, FS_Interval
      <4> QED  BY <1>0, <4>1
    <3>3. Cardinality(listedDocs) <= newest /\ Cardinality(listedDocs) \in Nat
      BY <3>1, <3>2, Within
    <3> QED  BY <1>0, <3>1, <3>3
  <2> QED  BY <1>0, <2>1, <2>2 DEF PagesTyped
<1>3. CASE Listed!Answer
  BY <1>3, PagesTypedAnswer
<1>4. CASE Listed!Matches \/ Listed!Ceases
  <2>1. UNCHANGED <<listing, page, pageData, pageTotal, pagesGot, repeated, atStart>>
    BY <1>4 DEF Listed!Matches, Listed!Ceases, Listed!Change
  <2>2. newest' = newest \/ (newest < MaxDocs /\ newest' = newest + 1)
    BY <1>4 DEF Listed!Matches, Listed!Ceases
  <2>3. newest' <= MaxDocs /\ 1 .. newest \subseteq 1 .. newest'
    <3>1. newest <= MaxDocs
      BY DEF PagesTyped
    <3> QED  BY <1>0, <2>2, <3>1
  <2>4. /\ atStart \subseteq 1 .. newest' /\ pagesGot \subseteq 1 .. newest'
        /\ \A d \in pageData : d \subseteq 1 .. newest'
    BY <2>3 DEF PagesTyped
  <2> QED  BY <1>0, <2>1, <2>3, <2>4 DEF PagesTyped
<1>5. CASE UNCHANGED Listed!vars
  BY <1>0, <1>5 DEF Listed!vars, PagesTyped
<1> QED
  BY <1>1, <1>2, <1>3, <1>4, <1>5
  DEF Listed!Next, Listed!findAllEvents, Listed!findAllUsers, Listed!findByHost,
      Listed!findByJudge, Listed!findWithOptimization, Listed!findAllSponsors,
      Listed!findAllTeams

LEMMA PagesTypedInit == ASSUME PageLimits, Listed!Init PROVE PagesTyped
<1>1. newest \in 0 .. MaxDocs /\ MaxDocs \in Nat
  BY DEF Listed!Init, PageLimits
<1>2. newest <= MaxDocs
  BY <1>1
<1>3. Listed!totalPages(MaxDocs) \in Nat
  BY <1>1, MorePages
<1>4. page <= Listed!totalPages(MaxDocs) + 1
  <2>1. page = 1
    BY DEF Listed!Init
  <2> QED  BY <1>3, <2>1
<1> QED  BY <1>2, <1>4 DEF Listed!Init, PagesTyped

LEMMA PagesTypesHold == ASSUME PageLimits, PagesInv, PagesTyped PROVE Listed!TypeOK
<1>1. newest \in 0 .. MaxDocs
  <2>1. newest \in Nat /\ newest <= MaxDocs /\ MaxDocs \in Nat
    BY DEF PagesInv, PageTypes, PagesTyped, PageLimits
  <2> QED  BY <2>1
<1>2. page \in 0 .. Listed!totalPages(MaxDocs) + 1
  <2>1. page \in Nat /\ page <= Listed!totalPages(MaxDocs) + 1
    BY DEF PagesInv, PageTypes, PagesTyped
  <2>2. MaxDocs \in Nat /\ MaxDocs <= MaxDocs
    BY DEF PageLimits
  <2>3. Listed!totalPages(MaxDocs) \in Nat
    BY <2>2, MorePages
  <2> QED  BY <2>1, <2>3
<1>3. Listed!Cardinality(pageData) <= 1
  <2>1. Cardinality(pageData) <= 1
    <3>1. CASE pageData = {}
      BY <3>1, FS_EmptySet
    <3>2. ASSUME NEW D, pageData = {D} PROVE Cardinality(pageData) <= 1
      <4>1. Cardinality({D}) = 1
        BY FS_Singleton
      <4> QED  BY <3>2, <4>1
    <3> QED  BY <3>1, <3>2 DEF PagesInv, PageTypes
  <2> QED  BY <2>1, PagesCount
<1>4. \A d \in pageData : Listed!Cardinality(d) <= pageSize
  BY PagesCount DEF PagesTyped
<1>5. pageTotal \subseteq 0 .. MaxDocs
  <2> SUFFICES ASSUME NEW n \in pageTotal PROVE n \in 0 .. MaxDocs
    OBVIOUS
  <2>1. n \in Nat /\ n <= MaxDocs /\ MaxDocs \in Nat
    BY DEF PagesInv, PageTypes, PagesTyped, PageLimits
  <2> QED  BY <2>1
<1>6. listing \in Listed!Listings /\ repeated \in BOOLEAN /\ listedDocs \subseteq 1 .. newest
      /\ atStart \subseteq 1 .. newest /\ pagesGot \subseteq 1 .. newest
  BY DEF PagesInv, PageTypes, PagesTyped
<1> QED  BY <1>1, <1>2, <1>3, <1>4, <1>5, <1>6 DEF Listed!TypeOK

LEMMA PagesAreTyped == ASSUME PageLimits PROVE Listed!Spec => []Listed!TypeOK
<1>1. Listed!Init => PagesTyped
  BY PagesTypedInit
<1>2. PagesInv /\ PagesTyped /\ [Listed!Next]_(Listed!vars) => PagesTyped'
  BY PagesTypedNext
<1>3. PagesInv /\ PagesTyped => Listed!TypeOK
  BY PagesTypesHold
<1> QED  BY <1>1, <1>2, <1>3, PagesSpec, PTL DEF Listed!Spec

=============================================================================
