----------------------------- MODULE SignInProofs -----------------------------
(***************************************************************************)
(* What TLAPS proves of SignIn, for any number of calls, addresses and     *)
(* nonces and any lifetime of a nonce.                                     *)
(***************************************************************************)
EXTENDS SignIn, TLAPS

\* A stored nonce belongs to one address.
Stored ==
    /\ written \subseteq 1 .. issued
    /\ \A a \in Accounts : nonces[a].nonce \in written \cup {0}
    /\ \A a, b \in Accounts : nonces[a].nonce = nonces[b].nonce /\ nonces[a].nonce # 0 => a = b

\* A nonce on its way to the collection is new.
Issuing ==
    /\ \A c \in Calls : At(c, "issue") =>
          /\ calls[c].nonce \in (1 .. issued) \ written
          /\ calls[c].doc.nonce = calls[c].nonce
    /\ \A c, d \in Calls : At(c, "issue") /\ At(d, "issue") /\ calls[c].nonce = calls[d].nonce => c = d

\* A login's nonce is a stored one, no other address has it once it was found, and
\* none has it once it was consumed.
Given ==
    \A c \in Calls :
        /\ calls[c].pc \notin {"idle", "issue"} => calls[c].nonce \in written
        /\ calls[c].pc \in {"checkNonce", "deleteExpired", "consume"} =>
              \A b \in Accounts \ {calls[c].account} : nonces[b].nonce # calls[c].nonce
        /\ At(c, "upsertUser") => \A b \in Accounts : nonces[b].nonce # calls[c].nonce

\* Where a login with an outdated nonce can be.
Outdated ==
    \A c \in Calls : calls[c].outdated =>
        \/ At(c, "findNonce") /\ ~IsValid(calls[c].account, calls[c].nonce)
        \/ At(c, "checkNonce") /\ IsExpired(calls[c].doc)
        \/ At(c, "deleteExpired")

Used == \A n \in Nonces : sessions[n] > 0 => n \in written

IInv == TypeOK /\ Stored /\ Issuing /\ Given /\ Outdated /\ Used /\ UsedNonceIsGone

USE SignInAssumption

\* A document is of a nonce that is not 0, or it is NoDoc.
LEMMA DocFields ==
  ASSUME NEW doc \in NonceDoc
  PROVE  /\ doc.nonce \in Nat /\ doc.expiresAt \in Nat
         /\ doc.nonce = 0 <=> doc = NoDoc
BY DEF NonceDoc, NoDoc, Nonces

LEMMA CallFields ==
  ASSUME NEW call \in Call
  PROVE  /\ call.account \in Accounts /\ call.nonce \in Nonces \cup {0}
         /\ call.signed \in BOOLEAN /\ call.doc \in NonceDoc /\ call.outdated \in BOOLEAN
BY DEF Call

LEMMA IdleCall ==
  ASSUME NEW a \in Accounts
  PROVE  /\ Idle(a) \in Call
         /\ Idle(a).pc = "idle" /\ Idle(a).account = a /\ Idle(a).nonce = 0
         /\ Idle(a).outdated = FALSE
BY DEF Idle, Call, NonceDoc

LEMMA InitIInv == Init => IInv
<1> SUFFICES ASSUME Init PROVE IInv
  OBVIOUS
<1> DEFINE a0 == CHOOSE a \in Accounts : TRUE
<1>1. a0 \in Accounts
  OBVIOUS
<1>2. Idle(a0) \in Call /\ Idle(a0).pc = "idle" /\ Idle(a0).outdated = FALSE
  BY <1>1, IdleCall
<1>3. \A c \in Calls : calls[c] = Idle(a0)
  BY DEF Init
<1> HIDE DEF a0
<1>4. TypeOK
  <2>1. calls \in [Calls -> Call]
    BY <1>2 DEF Init, a0
  <2> QED
    BY <2>1 DEF Init, TypeOK, NonceDoc, Nonces
<1>5. Stored
  BY DEF Init, Stored, NoDoc
<1>6. Issuing /\ Given /\ Outdated
  BY <1>2, <1>3 DEF Issuing, Given, Outdated, At
<1>7. Used /\ UsedNonceIsGone
  BY DEF Init, Used, UsedNonceIsGone, Nonces
<1> QED
  BY <1>4, <1>5, <1>6, <1>7 DEF IInv

-----------------------------------------------------------------------------
(* Steps that write no document and give no token: only the call changes.    *)

\* What IInv asks of one call.
Allowed(call) ==
    /\ call.pc \notin {"idle", "issue"} => call.nonce \in written
    /\ call.pc \in {"checkNonce", "deleteExpired", "consume"} =>
          \A b \in Accounts \ {call.account} : nonces[b].nonce # call.nonce
    /\ call.pc = "upsertUser" => \A b \in Accounts : nonces[b].nonce # call.nonce
    /\ call.outdated =>
          \/ call.pc = "findNonce" /\ ~IsValid(call.account, call.nonce)
          \/ call.pc = "checkNonce" /\ IsExpired(call.doc)
          \/ call.pc = "deleteExpired"

LEMMA CallStep ==
  ASSUME IInv, NEW c \in Calls, NEW call \in Call,
         calls' = [calls EXCEPT ![c] = call],
         UNCHANGED <<now, nonces, issued, written, users, sessions>>,
         started' \in 0 .. MaxStarts, deaths' \in 0 .. MaxDeaths,
         call.pc # "issue", Allowed(call)
  PROVE  IInv'
<1>1. calls'[c] = call /\ \A d \in Calls : d # c => calls'[d] = calls[d]
  BY DEF IInv, TypeOK
<1>2. TypeOK' /\ Stored' /\ Used' /\ UsedNonceIsGone'
  BY DEF IInv, TypeOK, Stored, Used, UsedNonceIsGone
<1>3. Issuing'
  BY <1>1 DEF IInv, Issuing, At
<1>4. Given'
  BY <1>1 DEF IInv, Given, At, Allowed
<1>5. Outdated'
  BY <1>1 DEF IInv, Outdated, At, Allowed, IsValid, IsExpired
<1> QED
  BY <1>2, <1>3, <1>4, <1>5 DEF IInv

LEMMA CallsAllowed ==
  ASSUME IInv, NEW c \in Calls
  PROVE  Allowed(calls[c])
BY DEF IInv, Given, Outdated, At, Allowed

LEMMA EndStep ==
  ASSUME IInv, NEW c \in Calls, End(c),
         UNCHANGED <<now, nonces, issued, written, users, sessions, started>>,
         deaths' \in 0 .. MaxDeaths
  PROVE  IInv'
<1> DEFINE call == Idle(calls[c].account)
<1>1. call \in Call /\ call.pc = "idle" /\ ~call.outdated
  BY CallFields, IdleCall DEF IInv, TypeOK
<1>2. Allowed(call)
  BY <1>1 DEF Allowed
<1>3. calls' = [calls EXCEPT ![c] = call] /\ started' \in 0 .. MaxStarts
  BY DEF End, IInv, TypeOK
<1> HIDE DEF call
<1> QED
  BY <1>1, <1>2, <1>3, CallStep

LEMMA LoginStep ==
  ASSUME IInv, NEW c \in Calls, NEW a \in Accounts, NEW n \in written, NEW signed \in BOOLEAN,
         Login(c, a, n, signed)
  PROVE  IInv'
<1> DEFINE call == [Idle(a) EXCEPT !.pc = "findNonce", !.nonce = n, !.signed = signed,
                                   !.outdated = ~IsValid(a, n)]
<1>1. n \in Nonces
  BY DEF IInv, TypeOK
<1>2. /\ call \in Call /\ call.pc = "findNonce" /\ call.nonce = n /\ call.account = a
      /\ call.outdated = ~IsValid(a, n)
  BY <1>1 DEF Idle, Call, NonceDoc, IsValid
<1>3. Allowed(call)
  BY <1>2 DEF Allowed
<1>4. /\ calls' = [calls EXCEPT ![c] = call] /\ started' \in 0 .. MaxStarts
      /\ UNCHANGED <<now, nonces, issued, written, users, sessions, deaths>>
  BY DEF Login, Start, IInv, TypeOK
<1>5. deaths' \in 0 .. MaxDeaths
  BY <1>4 DEF IInv, TypeOK
<1> HIDE DEF call
<1> QED
  BY <1>2, <1>3, <1>4, <1>5, CallStep

\* A document that is found is the account's, so no other address has its nonce; if
\* the login's nonce was outdated when it began, the document has expired.
LEMMA FindNonceStep ==
  ASSUME IInv, NEW c \in Calls, FindNonce(c)
  PROVE  IInv'
<1> DEFINE doc == nonces[calls[c].account]
<1>1. calls[c] \in Call /\ calls[c].account \in Accounts
  BY CallFields DEF IInv, TypeOK
<1>2. UNCHANGED <<now, nonces, issued, written, users, sessions, started, deaths>>
  BY DEF FindNonce, OnlyCalls
<1>3. started' \in 0 .. MaxStarts /\ deaths' \in 0 .. MaxDeaths
  BY <1>2 DEF IInv, TypeOK
<1>4. CASE Matches(doc, calls[c].nonce)
  <2> DEFINE call == [calls[c] EXCEPT !.pc = "checkNonce", !.doc = doc]
  <2>1. doc \in NonceDoc
    BY <1>1 DEF IInv, TypeOK
  <2>2. /\ call \in Call /\ call.pc = "checkNonce" /\ call.doc = doc
        /\ call.nonce = calls[c].nonce /\ call.account = calls[c].account
        /\ call.outdated = calls[c].outdated
    BY <1>1, <2>1 DEF Call
  <2>3. calls' = [calls EXCEPT ![c] = call]
    BY <1>1, <1>4 DEF FindNonce, IInv, TypeOK, Call
  <2>4. calls[c].nonce \in written /\ calls[c].nonce # 0 /\ doc.nonce = calls[c].nonce
    BY <1>4 DEF FindNonce, At, Matches, IInv, Given, TypeOK, Nonces
  <2>5. \A b \in Accounts \ {calls[c].account} : nonces[b].nonce # calls[c].nonce
    BY <1>1, <2>4 DEF IInv, Stored
  <2>6. calls[c].outdated => IsExpired(doc)
    BY <2>4 DEF FindNonce, At, IInv, Outdated, IsValid
  <2>7. Allowed(call)
    BY <2>2, <2>4, <2>5, <2>6 DEF Allowed
  <2> HIDE DEF call
  <2> QED
    BY <1>2, <1>3, <2>2, <2>3, <2>7, CallStep
<1>5. CASE ~Matches(doc, calls[c].nonce)
  BY <1>2, <1>3, <1>5, EndStep DEF FindNonce
<1> QED
  BY <1>4, <1>5

LEMMA CheckNonceStep ==
  ASSUME IInv, NEW c \in Calls, CheckNonce(c)
  PROVE  IInv'
<1>1. calls[c] \in Call /\ calls[c].pc = "checkNonce"
  BY DEF IInv, TypeOK, CheckNonce, At
<1>2. UNCHANGED <<now, nonces, issued, written, users, sessions, started, deaths>>
  BY DEF CheckNonce, OnlyCalls
<1>3. started' \in 0 .. MaxStarts /\ deaths' \in 0 .. MaxDeaths
  BY <1>2 DEF IInv, TypeOK
<1>4. ASSUME NEW pc \in {"deleteExpired", "consume"}, GoTo(c, pc),
             pc = "consume" => ~IsExpired(calls[c].doc)
      PROVE  IInv'
  <2> DEFINE call == [calls[c] EXCEPT !.pc = pc]
  <2>1. /\ call \in Call /\ call.pc = pc /\ call.nonce = calls[c].nonce
        /\ call.account = calls[c].account /\ call.outdated = calls[c].outdated
    BY <1>1 DEF Call
  <2>2. calls' = [calls EXCEPT ![c] = call]
    BY <1>4 DEF GoTo, IInv, TypeOK
  <2>3. Allowed(call)
    BY <1>1, <1>4, <2>1, CallsAllowed DEF Allowed
  <2> HIDE DEF call
  <2> QED
    BY <1>2, <1>3, <1>4, <2>1, <2>2, <2>3, CallStep
<1>5. CASE IsExpired(calls[c].doc) /\ GoTo(c, "deleteExpired")
  BY <1>4, <1>5
<1>6. CASE ~IsExpired(calls[c].doc) /\ GoTo(c, "consume")
  BY <1>4, <1>6
<1>7. CASE End(c)
  BY <1>2, <1>3, <1>7, EndStep
<1> QED
  BY <1>5, <1>6, <1>7 DEF CheckNonce
-----------------------------------------------------------------------------
(* Steps that change a document, the clock or a session.                     *)

LEMMA FromAllowed ==
  ASSUME \A c \in Calls : Allowed(calls[c])'
  PROVE  Given' /\ Outdated'
BY DEF Given, Outdated, Allowed, At, IsValid, IsExpired

\* An address that loses its document gives no nonce to anybody.
LEMMA Deletion ==
  ASSUME IInv, NEW a \in Accounts, nonces' = DeleteNonce(a),
         UNCHANGED <<now, issued, written, users, sessions>>
  PROVE  /\ nonces' \in [Accounts -> NonceDoc]
         /\ Stored' /\ Used' /\ UsedNonceIsGone'
         /\ \A d \in Calls : calls'[d] = calls[d] => Allowed(calls[d])'
<1>1. /\ nonces'[a].nonce = 0 /\ \A b \in Accounts : b # a => nonces'[b] = nonces[b]
      /\ nonces' \in [Accounts -> NonceDoc]
  BY DEF IInv, TypeOK, DeleteNonce, NonceDoc, NoDoc
<1>2. 0 \notin written
  BY DEF IInv, TypeOK, Nonces
<1>3. Stored'
  BY <1>1, <1>2 DEF IInv, Stored
<1>4. Used' /\ UsedNonceIsGone'
  BY <1>1, <1>2 DEF IInv, Used, UsedNonceIsGone
<1>5. ASSUME NEW d \in Calls, calls'[d] = calls[d]
      PROVE  Allowed(calls[d])'
  <2>1. Allowed(calls[d]) /\ calls[d].account \in Accounts
    BY CallsAllowed, CallFields DEF IInv, TypeOK
  <2> QED
    BY <1>1, <1>2, <1>5, <2>1 DEF Allowed, IsValid, IsExpired
<1> QED
  BY <1>1, <1>3, <1>4, <1>5

LEMMA ReapStep ==
  ASSUME IInv, NEW a \in Accounts, Reap(a)
  PROVE  IInv'
<1>1. /\ nonces' = DeleteNonce(a)
      /\ UNCHANGED <<now, issued, written, users, sessions, calls, started, deaths>>
  BY DEF Reap, DeleteNonce
<1>2. Stored' /\ Used' /\ UsedNonceIsGone' /\ \A d \in Calls : Allowed(calls[d])'
  BY <1>1, Deletion
<1>3. Given' /\ Outdated'
  BY <1>2, FromAllowed
<1>4. TypeOK'
  BY <1>1, Deletion DEF IInv, TypeOK
<1>5. Issuing'
  BY <1>1 DEF IInv, Issuing, At
<1> QED
  BY <1>2, <1>3, <1>4, <1>5 DEF IInv

LEMMA DeleteExpiredStep ==
  ASSUME IInv, NEW c \in Calls, DeleteExpired(c)
  PROVE  IInv'
<1>1. calls[c].account \in Accounts
  BY CallFields DEF IInv, TypeOK
<1>2. /\ nonces' = DeleteNonce(calls[c].account)
      /\ calls' = [calls EXCEPT ![c] = Idle(calls[c].account)]
      /\ UNCHANGED <<now, issued, written, users, sessions, started, deaths>>
  BY DEF DeleteExpired, End, IInv, TypeOK
<1>3. /\ \A d \in Calls : d # c => calls'[d] = calls[d]
      /\ calls' \in [Calls -> Call] /\ calls'[c].pc = "idle" /\ ~calls'[c].outdated
  BY <1>1, <1>2, IdleCall DEF IInv, TypeOK
<1>4. /\ nonces' \in [Accounts -> NonceDoc] /\ Stored' /\ Used' /\ UsedNonceIsGone'
      /\ \A d \in Calls : d # c => Allowed(calls[d])'
  BY <1>1, <1>2, <1>3, Deletion
<1>5. Allowed(calls[c])'
  BY <1>3 DEF Allowed
<1>6. Given' /\ Outdated'
  BY <1>4, <1>5, FromAllowed
<1>7. TypeOK'
  BY <1>2, <1>3, <1>4 DEF IInv, TypeOK
<1>8. Issuing'
  BY <1>2, <1>3 DEF IInv, Issuing, At
<1> QED
  BY <1>4, <1>6, <1>7, <1>8 DEF IInv

\* The nonce that is consumed was its address's alone: nobody has it any more.
LEMMA ConsumeNonceStep ==
  ASSUME IInv, NEW c \in Calls, ConsumeNonce(c)
  PROVE  IInv'
<1>1. /\ calls[c] \in Call /\ calls[c].account \in Accounts /\ calls[c].pc = "consume"
      /\ Allowed(calls[c])
  BY CallsAllowed, CallFields DEF IInv, TypeOK, ConsumeNonce, At
<1>2. /\ nonces' = DeleteNonce(calls[c].account)
      /\ calls' = [calls EXCEPT ![c] = [calls[c] EXCEPT !.pc = "upsertUser"]]
      /\ UNCHANGED <<now, issued, written, users, sessions, started, deaths>>
  BY DEF ConsumeNonce, GoTo, IInv, TypeOK
<1>3. /\ \A d \in Calls : d # c => calls'[d] = calls[d]
      /\ calls' \in [Calls -> Call] /\ calls'[c].pc = "upsertUser"
      /\ calls'[c].outdated = calls[c].outdated /\ calls'[c].nonce = calls[c].nonce
  BY <1>1, <1>2 DEF IInv, TypeOK, Call
<1>4. /\ nonces' \in [Accounts -> NonceDoc] /\ Stored' /\ Used' /\ UsedNonceIsGone'
      /\ \A d \in Calls : d # c => Allowed(calls[d])'
  BY <1>1, <1>2, <1>3, Deletion
<1>5. Allowed(calls[c])'
  <2>1. calls[c].nonce \in written /\ calls[c].nonce # 0 /\ ~calls[c].outdated
    BY <1>1 DEF Allowed, IInv, TypeOK, Nonces
  <2>2. \A b \in Accounts : nonces'[b].nonce # calls[c].nonce
    BY <1>1, <1>2, <2>1 DEF Allowed, DeleteNonce, NoDoc, IInv, TypeOK
  <2> QED
    BY <1>2, <1>3, <2>1, <2>2 DEF Allowed
<1>6. Given' /\ Outdated'
  BY <1>4, <1>5, FromAllowed
<1>7. TypeOK'
  BY <1>2, <1>3, <1>4 DEF IInv, TypeOK
<1>8. Issuing'
  BY <1>2, <1>3 DEF IInv, Issuing, At
<1> QED
  BY <1>4, <1>6, <1>7, <1>8 DEF IInv

LEMMA UpsertUserStep ==
  ASSUME IInv, NEW c \in Calls, UpsertUser(c)
  PROVE  IInv'
<1> DEFINE n == calls[c].nonce
<1>1. calls[c].account \in Accounts /\ calls[c].pc = "upsertUser" /\ Allowed(calls[c])
  BY CallsAllowed, CallFields DEF IInv, TypeOK, UpsertUser, At
<1>2. n \in written /\ n \in Nonces /\ \A b \in Accounts : nonces[b].nonce # n
  BY <1>1 DEF Allowed, IInv, TypeOK
<1>3. /\ calls' = [calls EXCEPT ![c] = Idle(calls[c].account)]
      /\ sessions' = [sessions EXCEPT ![n] = @ + 1]
      /\ users' = users \cup {calls[c].account}
      /\ UNCHANGED <<now, nonces, issued, written, started, deaths>>
  BY DEF UpsertUser, End, IInv, TypeOK
<1>4. /\ \A d \in Calls : d # c => calls'[d] = calls[d]
      /\ calls' \in [Calls -> Call] /\ calls'[c].pc = "idle" /\ ~calls'[c].outdated
  BY <1>1, <1>3, IdleCall DEF IInv, TypeOK
<1> HIDE DEF n
<1>5. /\ sessions' \in [Nonces -> Nat]
      /\ \A k \in Nonces : k # n => sessions'[k] = sessions[k]
  BY <1>2, <1>3 DEF IInv, TypeOK
<1>6. TypeOK'
  BY <1>1, <1>3, <1>4, <1>5 DEF IInv, TypeOK
<1>7. Stored' /\ Used' /\ UsedNonceIsGone'
  BY <1>2, <1>3, <1>5 DEF IInv, Stored, Used, UsedNonceIsGone
<1>8. Issuing'
  BY <1>3, <1>4 DEF IInv, Issuing, At
<1>9. ASSUME NEW d \in Calls
      PROVE  Allowed(calls[d])'
  BY <1>3, <1>4, CallsAllowed DEF Allowed, IsValid, IsExpired
<1>10. Given' /\ Outdated'
  BY <1>9, FromAllowed
<1> QED
  BY <1>6, <1>7, <1>8, <1>10 DEF IInv

\* What has expired stays expired.
LEMMA TickStep ==
  ASSUME IInv, Tick
  PROVE  IInv'
<1>1. /\ now' = now + 1 /\ now \in Nat /\ now' \in 0 .. MaxTime
      /\ UNCHANGED <<nonces, issued, written, users, sessions, calls, started, deaths>>
  BY DEF Tick, IInv, TypeOK
<1>2. TypeOK' /\ Stored' /\ Used' /\ UsedNonceIsGone'
  BY <1>1 DEF IInv, TypeOK, Stored, Used, UsedNonceIsGone
<1>3. Issuing' /\ Given'
  BY <1>1 DEF IInv, Issuing, Given, At
<1>4. \A doc \in NonceDoc : doc.expiresAt < now => doc.expiresAt < now'
  BY <1>1, DocFields
<1>5. Outdated'
  <2> SUFFICES ASSUME NEW c \in Calls, calls[c].outdated
               PROVE  \/ At(c, "findNonce") /\ ~IsValid(calls[c].account, calls[c].nonce)'
                      \/ At(c, "checkNonce") /\ IsExpired(calls[c].doc)'
                      \/ At(c, "deleteExpired")
    BY <1>1 DEF Outdated, At
  <2>1. /\ calls[c].doc \in NonceDoc
        /\ nonces[calls[c].account] \in NonceDoc
    BY CallFields DEF IInv, TypeOK
  <2> QED
    BY <1>1, <1>4, <2>1 DEF IInv, Outdated, IsValid, IsExpired
<1> QED
  BY <1>2, <1>3, <1>5 DEF IInv

LEMMA IssueNonceStep ==
  ASSUME IInv, NEW c \in Calls, NEW a \in Accounts, IssueNonce(c, a)
  PROVE  IInv'
<1> DEFINE doc == [nonce |-> issued + 1, expiresAt |-> now + NONCE_TTL]
           call == [Idle(a) EXCEPT !.pc = "issue", !.nonce = issued + 1, !.doc = doc]
<1>1. /\ issued' = issued + 1 /\ issued \in Nat /\ issued + 1 \in Nonces /\ now \in Nat
      /\ started' \in 0 .. MaxStarts
      /\ calls' = [calls EXCEPT ![c] = call]
      /\ UNCHANGED <<now, nonces, written, users, sessions, deaths>>
  BY DEF IssueNonce, Start, IInv, TypeOK, Nonces
<1>2. doc \in NonceDoc /\ doc.nonce = issued + 1
  BY <1>1 DEF NonceDoc
<1> HIDE DEF doc
<1>3. /\ call \in Call /\ call.pc = "issue" /\ call.nonce = issued + 1 /\ call.doc = doc
      /\ ~call.outdated
  BY <1>1, <1>2 DEF Idle, Call, NonceDoc
<1> HIDE DEF call
<1>4. calls'[c] = call /\ \A d \in Calls : d # c => calls'[d] = calls[d]
  BY <1>1 DEF IInv, TypeOK
<1>5. TypeOK'
  BY <1>1, <1>3 DEF IInv, TypeOK, Nonces
<1>6. Stored' /\ Used' /\ UsedNonceIsGone'
  BY <1>1 DEF IInv, Stored, Used, UsedNonceIsGone
<1>7. Issuing'
  <2>1. issued + 1 \notin written
    BY <1>1 DEF IInv, Stored
  <2>2. \A d \in Calls : At(d, "issue") => calls[d].nonce \in 1 .. issued
    BY DEF IInv, Issuing
  <2>3. 1 .. issued \subseteq 1 .. issued' /\ issued + 1 \in 1 .. issued'
        /\ issued + 1 \notin 1 .. issued
    BY <1>1
  <2> QED
    BY <1>1, <1>2, <1>3, <1>4, <2>1, <2>2, <2>3 DEF IInv, Issuing, At
<1>8. ASSUME NEW d \in Calls
      PROVE  Allowed(calls[d])'
  BY <1>1, <1>3, <1>4, CallsAllowed DEF Allowed, IsValid, IsExpired
<1>9. Given' /\ Outdated'
  BY <1>8, FromAllowed
<1> QED
  BY <1>5, <1>6, <1>7, <1>9 DEF IInv

\* The nonce that is stored was never stored before, so it is no login's.
LEMMA UpsertNonceStep ==
  ASSUME IInv, NEW c \in Calls, UpsertNonce(c)
  PROVE  IInv'
<1> DEFINE a == calls[c].account
           n == calls[c].nonce
<1>1. /\ a \in Accounts /\ calls[c].doc \in NonceDoc /\ calls[c].doc.nonce = n
      /\ n \in 1 .. issued /\ n \notin written /\ n \in Nonces /\ n # 0 /\ At(c, "issue")
  BY CallFields DEF IInv, TypeOK, Issuing, UpsertNonce, At, Nonces
<1>2. /\ nonces' = [nonces EXCEPT ![a] = calls[c].doc]
      /\ written' = written \cup {n}
      /\ calls' = [calls EXCEPT ![c] = Idle(a)]
      /\ UNCHANGED <<now, issued, users, sessions, started, deaths>>
  BY DEF UpsertNonce, End, IInv, TypeOK
<1>3. /\ \A d \in Calls : d # c => calls'[d] = calls[d]
      /\ calls' \in [Calls -> Call] /\ calls'[c].pc = "idle" /\ ~calls'[c].outdated
  BY <1>1, <1>2, IdleCall DEF IInv, TypeOK
<1>4. /\ nonces' \in [Accounts -> NonceDoc] /\ nonces'[a].nonce = n
      /\ \A b \in Accounts : b # a => nonces'[b] = nonces[b]
  BY <1>1, <1>2 DEF IInv, TypeOK
<1> HIDE DEF a, n
<1>5. TypeOK'
  BY <1>1, <1>2, <1>3, <1>4 DEF IInv, TypeOK
<1>6. Stored'
  BY <1>1, <1>2, <1>4 DEF IInv, Stored
<1>7. Used' /\ UsedNonceIsGone'
  BY <1>1, <1>2, <1>4 DEF IInv, Used, UsedNonceIsGone
<1>8. Issuing'
  BY <1>1, <1>2, <1>3 DEF IInv, Issuing, At, n
<1>9. ASSUME NEW d \in Calls
      PROVE  Allowed(calls[d])'
  <2>1. CASE d = c
    BY <1>3, <2>1 DEF Allowed
  <2>2. CASE d # c
    <3>1. Allowed(calls[d]) /\ calls'[d] = calls[d] /\ calls[d].account \in Accounts
      BY <1>3, <2>2, CallsAllowed, CallFields DEF IInv, TypeOK
    <3> QED
      BY <1>1, <1>2, <1>4, <3>1 DEF Allowed, IsValid, IsExpired
  <2> QED
    BY <2>1, <2>2
<1>10. Given' /\ Outdated'
  BY <1>9, FromAllowed
<1> QED
  BY <1>5, <1>6, <1>7, <1>8, <1>10 DEF IInv

-----------------------------------------------------------------------------
LEMMA NextIInv == IInv /\ [Next]_vars => IInv'
<1> SUFFICES ASSUME IInv, [Next]_vars PROVE IInv'
  OBVIOUS
<1>1. ASSUME NEW c \in Calls, Fails(c) PROVE IInv'
  <2>1. deaths' \in 0 .. MaxDeaths
    BY <1>1 DEF Fails, IInv, TypeOK
  <2> QED
    BY <1>1, <2>1, EndStep DEF Fails
<1>2. ASSUME NEW c \in Calls, Step(c) PROVE IInv'
  BY <1>1, <1>2, UpsertNonceStep, FindNonceStep, CheckNonceStep, DeleteExpiredStep,
     ConsumeNonceStep, UpsertUserStep DEF Step
<1>3. ASSUME UNCHANGED vars PROVE IInv'
  BY <1>3 DEF vars, IInv, TypeOK, Stored, Issuing, Given, Outdated, Used, UsedNonceIsGone,
     At, IsValid, IsExpired
<1> QED
  BY <1>2, <1>3, TickStep, ReapStep, IssueNonceStep, LoginStep DEF Next

LEMMA SpecIInv == Spec => []IInv
<1>1. Init => IInv
  BY InitIInv
<1>2. IInv /\ [Next]_vars => IInv'
  BY NextIInv
<1> QED
  BY <1>1, <1>2, PTL DEF Spec

\* Type correctness of the nonces, users, sessions and calls.
THEOREM TypeCorrect == Spec => []TypeOK
<1>1. IInv => TypeOK
  BY DEF IInv
<1> QED
  BY <1>1, SpecIInv, PTL

\* A login that begins with a nonce that is not valid any more opens no session
\* (AuthService.login, SignatureService.validateNonce).
THEOREM OutdatedIsRefused == Spec => []OutdatedNonceOpensNothing
<1>1. IInv => OutdatedNonceOpensNothing
  BY DEF IInv, Outdated, OutdatedNonceOpensNothing, At
<1> QED
  BY <1>1, SpecIInv, PTL

\* A nonce that has opened a session is nobody's for good
\* (SignatureService.consumeNonce).
THEOREM UsedIsGone == Spec => []UsedNonceIsGone
<1>1. IInv => UsedNonceIsGone
  BY DEF IInv
<1> QED
  BY <1>1, SpecIInv, PTL
===============================================================================
