-------------------------------- MODULE SignIn --------------------------------
(***************************************************************************)
(* Signing in with a wallet: a nonce is issued for an address, its owner   *)
(* signs it, and a login exchanges the signature for a token               *)
(* (auth/signature.service.ts, auth/auth.service.ts, users/users.service.ts).*)
(*                                                                         *)
(* The collection of nonces has one document per address.  A request is a  *)
(* call that is suspended at every await; a query takes effect at some     *)
(* moment while the call waits for it.                                     *)
(***************************************************************************)
EXTENDS Integers, FiniteSets
LOCAL INSTANCE TLC

CONSTANTS
    Calls,              \* the requests that may be handled at the same time
    Accounts,           \* wallet addresses
    NONCE_TTL,          \* how long a nonce is valid
    MaxTime, MaxNonces, MaxStarts, MaxDeaths  \* bounds

VARIABLES
    now,        \* the server's clock
    nonces,     \* the documents: for each address one nonce, or none
    issued,     \* how many nonces have been generated; the nonces are 1 .. issued
    written,    \* the nonces that have been stored, and so told to a client (history)
    users,      \* the addresses that have a user
    sessions,   \* how many tokens have been given for each nonce
    calls,      \* the running calls
    started, deaths   \* how many calls have begun and died, for the bounds

vars == <<now, nonces, issued, written, users, sessions, calls, started, deaths>>

\* For TLC: the calls are interchangeable.
Symmetry == Permutations(Calls)

Nonces == 1 .. MaxNonces
NoDoc == [nonce |-> 0, expiresAt |-> 0]
NonceDoc == [nonce : Nonces, expiresAt : Nat] \cup {NoDoc}

Call ==
    [pc : {"idle", "issue", "findNonce", "checkNonce", "deleteExpired", "consume", "upsertUser"},
     account : Accounts,
     nonce : Nonces \cup {0},    \* the nonce generated, or the one the login gives
     signed : BOOLEAN,           \* the login's signature is the account's, of that nonce
     doc : NonceDoc,             \* the document generated or found
     outdated : BOOLEAN]         \* when the login began, its nonce was not valid (history)

ASSUME SignInAssumption ==
    /\ IsFiniteSet(Calls) /\ IsFiniteSet(Accounts) /\ Accounts # {}
    /\ {NONCE_TTL, MaxTime, MaxNonces, MaxStarts, MaxDeaths} \subseteq Nat

Idle(a) ==
    [pc |-> "idle", account |-> a, nonce |-> 0, signed |-> FALSE, doc |-> NoDoc,
     outdated |-> FALSE]

Init ==
    /\ now = 0
    /\ nonces = [a \in Accounts |-> NoDoc]
    /\ issued = 0
    /\ written = {}
    /\ users = {}
    /\ sessions = [n \in Nonces |-> 0]
    /\ calls = [c \in Calls |-> Idle(CHOOSE a \in Accounts : TRUE)]
    /\ started = 0 /\ deaths = 0

-----------------------------------------------------------------------------
At(c, pc) == calls[c].pc = pc
GoTo(c, pc) == calls' = [calls EXCEPT ![c].pc = pc]
End(c) == calls' = [calls EXCEPT ![c] = Idle(@.account)]

OnlyCalls == UNCHANGED <<now, nonces, issued, written, users, sessions, started, deaths>>

Start(c, call) ==
    /\ At(c, "idle")
    /\ started < MaxStarts
    /\ started' = started + 1
    /\ calls' = [calls EXCEPT ![c] = call]
    /\ UNCHANGED <<now, nonces, written, users, sessions, deaths>>

-----------------------------------------------------------------------------
(* issueNonce: anybody may ask for an address's nonce.                       *)

IssueNonce(c, a) ==
    /\ issued < MaxNonces
    /\ issued' = issued + 1
    /\ Start(c, [Idle(a) EXCEPT
           !.pc = "issue", !.nonce = issued + 1,
           !.doc = [nonce |-> issued + 1, expiresAt |-> now + NONCE_TTL]])

UpsertNonce(c) ==
    /\ At(c, "issue")
    /\ nonces' = [nonces EXCEPT ![calls[c].account] = calls[c].doc]
    /\ written' = written \cup {calls[c].nonce}
    /\ End(c)
    /\ UNCHANGED <<now, issued, users, sessions, started, deaths>>

-----------------------------------------------------------------------------
(* login.                                                                    *)

IsExpired(doc) == doc.expiresAt < now
IsValid(a, n) == nonces[a].nonce = n /\ ~IsExpired(nonces[a])

Login(c, a, n, signed) ==
    /\ n \in written
    /\ Start(c, [Idle(a) EXCEPT !.pc = "findNonce", !.nonce = n, !.signed = signed,
                                !.outdated = ~IsValid(a, n)])
    /\ UNCHANGED issued

\* Mutant: the nonce is looked up by its address alone.
MatchesAddress(doc, n) == doc # NoDoc
Matches(doc, n) == doc.nonce = n

FindNonce(c) ==
    LET doc == nonces[calls[c].account]
    IN /\ At(c, "findNonce")
       /\ IF Matches(doc, calls[c].nonce)
          THEN calls' = [calls EXCEPT ![c].pc = "checkNonce", ![c].doc = doc]
          ELSE End(c)
       /\ OnlyCalls

\* The expiry, and then the signature.
CheckNonce(c) ==
    /\ At(c, "checkNonce")
    /\ \/ IsExpired(calls[c].doc) /\ GoTo(c, "deleteExpired")
       \/ ~IsExpired(calls[c].doc) /\ calls[c].signed /\ GoTo(c, "consume")
       \/ ~IsExpired(calls[c].doc) /\ ~calls[c].signed /\ End(c)
    /\ OnlyCalls

\* Mutants: the document is emptied and stays; a document is deleted only once it
\* has expired.
EmptyNonce(a) == [nonces EXCEPT ![a].nonce = 0]
DeleteIfExpired(a) == IF IsExpired(nonces[a]) THEN [nonces EXCEPT ![a] = NoDoc] ELSE nonces
\* The document of the address, whichever nonce it has by now.
DeleteNonce(a) == [nonces EXCEPT ![a] = NoDoc]

DeleteExpired(c) ==
    /\ At(c, "deleteExpired")
    /\ nonces' = DeleteNonce(calls[c].account)
    /\ End(c)
    /\ UNCHANGED <<now, issued, written, users, sessions, started, deaths>>

ConsumeNonce(c) ==
    /\ At(c, "consume")
    /\ nonces' = DeleteNonce(calls[c].account)
    /\ GoTo(c, "upsertUser")
    /\ UNCHANGED <<now, issued, written, users, sessions, started, deaths>>

\* The user exists and the token is signed and returned.
UpsertUser(c) ==
    /\ At(c, "upsertUser")
    /\ users' = users \cup {calls[c].account}
    /\ sessions' = [sessions EXCEPT ![calls[c].nonce] = @ + 1]
    /\ End(c)
    /\ UNCHANGED <<now, nonces, issued, written, started, deaths>>

-----------------------------------------------------------------------------
(* The world around.                                                         *)

\* A query rejects, or the process stops: the call has no answer.
Fails(c) ==
    /\ ~At(c, "idle")
    /\ deaths < MaxDeaths
    /\ deaths' = deaths + 1
    /\ End(c)
    /\ UNCHANGED <<now, nonces, issued, written, users, sessions, started>>

\* The TTL index removes an expired document, some time.
Reap(a) ==
    /\ nonces[a] # NoDoc /\ nonces[a].expiresAt <= now
    /\ nonces' = [nonces EXCEPT ![a] = NoDoc]
    /\ UNCHANGED <<now, issued, written, users, sessions, calls, started, deaths>>

Tick ==
    /\ now < MaxTime
    /\ now' = now + 1
    /\ UNCHANGED <<nonces, issued, written, users, sessions, calls, started, deaths>>

Step(c) ==
    \/ UpsertNonce(c)
    \/ FindNonce(c) \/ CheckNonce(c) \/ DeleteExpired(c) \/ ConsumeNonce(c) \/ UpsertUser(c)
    \/ Fails(c)

Next ==
    \/ Tick
    \/ \E a \in Accounts : Reap(a)
    \/ \E c \in Calls :
          \/ \E a \in Accounts : IssueNonce(c, a)
          \/ \E a \in Accounts, n \in written, signed \in BOOLEAN : Login(c, a, n, signed)
          \/ Step(c)

Spec == Init /\ [][Next]_vars

-----------------------------------------------------------------------------
\* Every variable keeps its type: an address has a whole document or none.
TypeOK ==
    /\ now \in 0 .. MaxTime
    /\ nonces \in [Accounts -> NonceDoc]
    /\ issued \in 0 .. MaxNonces
    /\ written \subseteq Nonces
    /\ users \subseteq Accounts
    /\ sessions \in [Nonces -> Nat]
    /\ calls \in [Calls -> Call]
    /\ started \in 0 .. MaxStarts /\ deaths \in 0 .. MaxDeaths

\* A login that begins when its nonce is not valid for its address (it has expired,
\* was replaced by a newer one, belongs to another address, or an earlier login has
\* consumed it) never gets past the check, whatever is issued and consumed while it
\* waits: two logins open sessions with one nonce only if the second begins before
\* the first has consumed it (auth.service.ts:40-68, signature.service.ts:41-59).
OutdatedNonceOpensNothing ==
    \A c \in Calls : calls[c].outdated => calls[c].pc \notin {"consume", "upsertUser"}

\* Once a nonce has opened a session no address has it any more, and no later step
\* brings it back: the order of consumeNonce and upsertByAddress, and an upsert that
\* was delayed, never leave a used nonce behind (auth.service.ts:67-71).
UsedNonceIsGone ==
    \A n \in Nonces : sessions[n] > 0 => \A a \in Accounts : nonces[a].nonce # n

\* "Consume nonce (one-time use)" (auth.service.ts:67): a nonce opens at most one
\* session.  Refuted.
OneTimeUse == \A n \in Nonces : sessions[n] <= 1
===============================================================================
