--------------------------- MODULE WalletConnect ---------------------------
(***************************************************************************)
(* WalletConnect sessions: auth/walletconnect.service.ts and its handlers  *)
(* in auth.controller.ts.  The sessions are the SignClient's; wallets      *)
(* open, extend and delete them at any time, and a disconnect of ours is   *)
(* awaited.  An account is a namespace and an address; addresses are taken *)
(* in lower case, as the service compares them.                            *)
(***************************************************************************)
EXTENDS Integers, Sequences, FiniteSets, SequencesExt

CONSTANTS
    Topics,
    Accounts,        \* sets of <<namespace, address>> a session may hold
    Ethereum,        \* the addresses that start with 0x
    MaxTime          \* bound

VARIABLES
    enabled,         \* the client was initialised
    session,         \* the client's store: by topic, or None
    used,            \* topics that a wallet has opened: no topic comes again
    disconnecting,   \* disconnect calls of requests, by topic
    cleanup,         \* the cleanup request: topics of its list it has still to look at
    cleaned,         \* sessions it has counted
    extended,        \* history: topics extended since the cleanup read the list
    now

vars == <<enabled, session, used, disconnecting, cleanup, cleaned, extended, now>>

None == [expiry |-> -1, accounts |-> {}]
Idle == <<"idle">>

Init ==
    /\ enabled \in BOOLEAN
    /\ session = [t \in Topics |-> None] /\ used = {} /\ disconnecting = {}
    /\ cleanup = Idle /\ cleaned = 0 /\ extended = {} /\ now = 0

-----------------------------------------------------------------------------
Active == {t \in Topics : session[t] # None}

\* getSessionsByAddress: by the last part of every account.
SessionsByAddress(a) == {t \in Active : \E c \in session[t].accounts : c[2] = a}

\* getAddressesFromSession and verifySessionForAddress: Ethereum addresses only, and
\* whether or not the session has expired.
AddressesFromSession(t) == {c[2] : c \in session[t].accounts} \cap Ethereum
VerifySession(t, a) == t \in Active /\ a \in AddressesFromSession(t)

\* The wallets and the client, as far as the service can see.
Settled(t, accounts) ==
    /\ enabled /\ t \notin used /\ used' = used \cup {t}
    /\ session' = [session EXCEPT ![t] = [expiry |-> now + 1, accounts |-> accounts]]
    /\ UNCHANGED <<enabled, disconnecting, cleanup, cleaned, extended, now>>
Extended(t) ==
    /\ t \in Active /\ session[t].expiry < now + 1
    /\ session' = [session EXCEPT ![t].expiry = now + 1]
    /\ extended' = extended \cup {t}
    /\ UNCHANGED <<enabled, used, disconnecting, cleanup, cleaned, now>>
Updated(t, accounts) ==
    /\ t \in Active /\ session' = [session EXCEPT ![t].accounts = accounts]
    /\ UNCHANGED <<enabled, used, disconnecting, cleanup, cleaned, extended, now>>
Removed(t) == session' = [session EXCEPT ![t] = None]
DeletedByPeer(t) ==
    /\ t \in Active /\ Removed(t)
    /\ UNCHANGED <<enabled, used, disconnecting, cleanup, cleaned, extended, now>>

\* The handler of DELETE walletconnect/sessions/:topic, and the end of its await: the
\* client removes the session, or throws and the caller is told 404.
DisconnectSession(t) ==
    /\ enabled /\ t \in Active \ disconnecting /\ disconnecting' = disconnecting \cup {t}
    /\ UNCHANGED <<enabled, session, used, cleanup, cleaned, extended, now>>
Disconnected(t) ==
    /\ t \in disconnecting /\ disconnecting' = disconnecting \ {t}
    /\ Removed(t) \/ UNCHANGED session
    /\ UNCHANGED <<enabled, used, cleanup, cleaned, extended, now>>

\* Mutant: an expiry in seconds is compared with a clock in milliseconds.
IsPast(expiry) == expiry <= 1000 * now + 1000
\* session.expiry <= now.
HasExpired(expiry) == expiry <= now

\* getSessionStats and getSession.
SessionStats ==
    [total |-> Cardinality(Active),
     active |-> Cardinality({t \in Active : session[t].expiry > now}),
     expired |-> Cardinality({t \in Active : session[t].expiry <= now}),
     byNamespace |-> [n \in UNION {{c[1] : c \in session[t].accounts} : t \in Active} |->
                        Cardinality({t \in Active : \E c \in session[t].accounts : c[1] = n})]]
getSession(t) == IF enabled /\ t \in Active THEN {session[t]} ELSE {}

\* cleanupExpiredSessions reads the list and the clock once, then disconnects one
\* session after the other, counting also those that could not be disconnected.
CleanupExpiredSessions ==
    /\ enabled /\ cleanup = Idle /\ Active # {}
    /\ cleanup' = SetToSeq({t \in Active : HasExpired(session[t].expiry)})
    /\ cleaned' = 0 /\ extended' = {}
    /\ UNCHANGED <<enabled, session, used, disconnecting, now>>
CleanupDisconnects ==
    /\ cleanup \notin {Idle, <<>>}
    /\ Removed(Head(cleanup)) \/ UNCHANGED session
    /\ cleanup' = Tail(cleanup) /\ cleaned' = cleaned + 1
    /\ UNCHANGED <<enabled, used, disconnecting, extended, now>>
CleanupEnds ==
    /\ cleanup = <<>> /\ cleanup' = Idle
    /\ UNCHANGED <<enabled, session, used, disconnecting, cleaned, extended, now>>

\* Date.now() / 1000, up to the bound.
Tick == now < MaxTime /\ now' = now + 1
        /\ UNCHANGED <<enabled, session, used, disconnecting, cleanup, cleaned, extended>>

Next ==
    \/ \E t \in Topics, accounts \in Accounts : Settled(t, accounts) \/ Updated(t, accounts)
    \/ \E t \in Topics : \/ Extended(t) \/ DeletedByPeer(t)
                         \/ DisconnectSession(t) \/ Disconnected(t)
    \/ CleanupExpiredSessions \/ CleanupDisconnects \/ CleanupEnds
    \/ Tick

Spec == Init /\ [][Next]_vars

-----------------------------------------------------------------------------
TypeOK ==
    /\ enabled \in BOOLEAN /\ used \subseteq Topics /\ disconnecting \subseteq Topics
    /\ session \in [Topics -> {None} \cup [expiry : 1 .. MaxTime + 1, accounts : Accounts]]
    /\ cleanup = Idle \/ cleanup \in Seq(Topics)
    /\ cleaned \in 0 .. Cardinality(Topics) /\ extended \subseteq Topics /\ now \in 0 .. MaxTime

\* The cleanup works on a list it read awaits ago: a session it is still going to
\* disconnect has expired, unless its wallet extended it after the list was read.
OnlyExpiredAreCleaned ==
    cleanup # Idle => \A i \in DOMAIN cleanup :
        LET t == cleanup[i] IN t \in Active => session[t].expiry <= now \/ t \in extended

\* The two ways to ask whether a session belongs to an address agree for Ethereum.
AddressChecksAgree ==
    \A a \in Ethereum : SessionsByAddress(a) = {t \in Topics : VerifySession(t, a)}

\* The statistics agree with the other ways to ask: they count as expired what a clean-up
\* that came now would take.
StatsAgree ==
    /\ SessionStats.expired = Cardinality({t \in Active : HasExpired(session[t].expiry)})
    /\ SessionStats.active + SessionStats.expired = SessionStats.total
    /\ SessionStats.total = Cardinality({t \in Topics : getSession(t) # {}})
    /\ \A n \in DOMAIN SessionStats.byNamespace : SessionStats.byNamespace[n] \in 1 .. SessionStats.total
=============================================================================
