------------------------------ MODULE Sessions ------------------------------
(***************************************************************************)
(* The session store, common/services/session.service.ts: the sessions by  *)
(* id and, beside them, the ids of each user's sessions.  Every method is  *)
(* synchronous; reading a session that has expired or idled destroys it.   *)
(***************************************************************************)
EXTENDS Integers, FiniteSets

CONSTANTS
    Users, maxSessionsPerUser, sessionDuration, idleTimeout, slidingExpiration,
    MaxSessions, MaxTime      \* bounds: sessions ever created, clock

VARIABLES
    sessions,      \* id -> [userId, createdAt, expiresAt, lastActivityAt]
    userSessions,  \* user -> ids
    created,       \* ids handed out
    now

vars == <<sessions, userSessions, created, now>>

SessionIds == 1 .. MaxSessions
Session ==
    [userId : Users, createdAt : 0 .. MaxTime,
     expiresAt : 0 .. MaxTime + sessionDuration, lastActivityAt : 0 .. MaxTime]

Init == sessions = <<>> /\ userSessions = <<>> /\ created = 0 /\ now = 0

-----------------------------------------------------------------------------
SessionsOf(u) == IF u \in DOMAIN userSessions THEN userSessions[u] ELSE {}

isSessionExpired(id) == now > sessions[id].expiresAt
Idle(id) == now - sessions[id].lastActivityAt > idleTimeout
Stale(ids) == {id \in ids \cap DOMAIN sessions : isSessionExpired(id) \/ Idle(id)}

\* Mutant: the user's index keeps the ids.
DestroyStored(ids, kept) ==
    /\ sessions' = [id \in (DOMAIN sessions \ ids) \cup DOMAIN kept |->
                       IF id \in DOMAIN kept THEN kept[id] ELSE sessions[id]]
    /\ userSessions' = [u \in DOMAIN userSessions \cup {kept[id].userId : id \in DOMAIN kept} |->
                           SessionsOf(u) \cup {id \in DOMAIN kept : kept[id].userId = u}]
\* destroySession of each of the ids, with the session a caller then stores; a user
\* whose last session goes leaves the index.
Destroy(ids, kept) ==
    LET of(u) == (SessionsOf(u) \ ids) \cup {id \in DOMAIN kept : kept[id].userId = u}
    IN  /\ sessions' = [id \in (DOMAIN sessions \ ids) \cup DOMAIN kept |->
                           IF id \in DOMAIN kept THEN kept[id] ELSE sessions[id]]
        /\ userSessions' = [u \in {x \in Users : of(x) # {}} |-> of(u)]

Oldest(ids) ==
    {id \in ids : \A other \in ids : sessions[id].createdAt <= sessions[other].createdAt}

\* At the limit getOldestSession first destroys what is stale, and one more goes.
createSession(u) ==
    LET stale == Stale(SessionsOf(u))
        full  == Cardinality(SessionsOf(u)) >= maxSessionsPerUser
        fresh == SessionsOf(u) \ stale
        new   == [id \in {created + 1} |->
                     [userId |-> u, createdAt |-> now,
                      expiresAt |-> now + sessionDuration, lastActivityAt |-> now]]
    IN  /\ created < MaxSessions /\ created' = created + 1
        /\ \/ ~full /\ Destroy({}, new)
           \/ full /\ fresh = {} /\ Destroy(stale, new)
           \/ full /\ \E id \in Oldest(fresh) : Destroy(stale \cup {id}, new)
        /\ now' = now

Gone(ids) == ids # {} /\ Destroy(ids, <<>>) /\ UNCHANGED <<created, now>>

\* getSession, by id or by token, validateSession and getSessionInfo.
getSession(id) == Gone(Stale({id}))
getUserSessions(u) == Gone(Stale(SessionsOf(u)))
cleanupExpiredSessions == Gone(Stale(DOMAIN sessions))
destroySession(id) == id \in DOMAIN sessions /\ Gone({id})
destroyUserSessions(u) == Gone(SessionsOf(u))

\* Neither looks whether the session has expired: it revives one nobody has read.
updateActivity(id) ==
    /\ id \in DOMAIN sessions
    /\ sessions' = [sessions EXCEPT ![id].lastActivityAt = now,
                       ![id].expiresAt = IF slidingExpiration THEN now + sessionDuration ELSE @]
    /\ UNCHANGED <<userSessions, created, now>>
refreshSession(id) ==
    /\ id \in DOMAIN sessions
    /\ sessions' = [sessions EXCEPT ![id].lastActivityAt = now,
                       ![id].expiresAt = now + sessionDuration]
    /\ UNCHANGED <<userSessions, created, now>>

clearAllSessions == sessions' = <<>> /\ userSessions' = <<>> /\ UNCHANGED <<created, now>>

Tick == now < MaxTime /\ now' = now + 1 /\ UNCHANGED <<sessions, userSessions, created>>

Next ==
    \/ \E u \in Users : createSession(u) \/ getUserSessions(u) \/ destroyUserSessions(u)
    \/ \E id \in SessionIds :
          getSession(id) \/ destroySession(id) \/ updateActivity(id) \/ refreshSession(id)
    \/ cleanupExpiredSessions \/ clearAllSessions \/ Tick

Spec == Init /\ [][Next]_vars

-----------------------------------------------------------------------------
TypeOK ==
    /\ DOMAIN sessions \subseteq 1 .. created
    /\ \A id \in DOMAIN sessions : sessions[id] \in Session
    /\ DOMAIN userSessions \subseteq Users
    /\ created \in 0 .. MaxSessions /\ now \in 0 .. MaxTime

\* getStatistics.
getStatistics ==
    [totalSessions |-> Cardinality(DOMAIN sessions),
     activeSessions |-> Cardinality({id \in DOMAIN sessions : ~isSessionExpired(id)}),
     totalUsers |-> Cardinality(DOMAIN userSessions)]

\* The two maps agree after any order of logins, evictions, expiry noticed by a read
\* and revivals: the index holds exactly the stored sessions, no user without one is
\* counted, and no user ever holds more than maxSessionsPerUser.
IndexAgrees ==
    /\ \A u \in Users :
          /\ SessionsOf(u) = {id \in DOMAIN sessions : sessions[id].userId = u}
          /\ Cardinality(SessionsOf(u)) <= maxSessionsPerUser
    /\ getStatistics.totalUsers = Cardinality({sessions[id].userId : id \in DOMAIN sessions})
=============================================================================
