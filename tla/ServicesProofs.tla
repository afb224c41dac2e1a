--------------------------- MODULE ServicesProofs ---------------------------
(***************************************************************************)
(* What TLAPS proves of the services that keep their state to themselves.  *)
(* Each theorem is about the specification of one of them, for any values  *)
(* of its constants that satisfy the limits named in it.                   *)
(***************************************************************************)
EXTENDS Services, Sequences, FiniteSets, FiniteSetTheorems, WellFoundedInduction, TLAPS

-----------------------------------------------------------------------------
(* Sessions.                                                                 *)

SessionLimits ==
    /\ maxSessionsPerUser \in Nat \ {0} /\ sessionDuration \in Nat /\ idleTimeout \in Nat
    /\ slidingExpiration \in BOOLEAN /\ MaxSessions \in Nat /\ MaxSessionTime \in Nat

\* The stored sessions of a user, which its index is to hold.
Of(u) == {id \in DOMAIN sessions : sessions[id].userId = u}

StoreOK ==
    /\ sessions \in [DOMAIN sessions -> Logins!Session] /\ DOMAIN sessions \subseteq 1 .. created
    /\ created \in 0 .. MaxSessions /\ sessionTime \in 0 .. MaxSessionTime

IndexOK ==
    /\ DOMAIN userSessions = {u \in Users : Of(u) # {}}
    /\ \A u \in DOMAIN userSessions : userSessions[u] = Of(u)

WithinLimit == \A u \in Users : Cardinality(Of(u)) <= maxSessionsPerUser

LoginsInv == StoreOK /\ IndexOK /\ WithinLimit

-----------------------------------------------------------------------------
(* What destroying sessions, and storing one, does.                          *)

\* The module counts with an instance of FiniteSets of its own.
LEMMA SessionsCount == ASSUME NEW S PROVE Logins!Cardinality(S) = Cardinality(S)
BY DEF Logins!Cardinality, Cardinality

LEMMA IndexIsOf ==
  ASSUME IndexOK, NEW u \in Users
  PROVE  Logins!SessionsOf(u) = Of(u)
BY DEF IndexOK, Logins!SessionsOf

LEMMA OfIsFinite ==
  ASSUME StoreOK, NEW u
  PROVE  IsFiniteSet(Of(u)) /\ Cardinality(Of(u)) \in Nat /\ Of(u) \subseteq DOMAIN sessions
<1>1. IsFiniteSet(1 .. created)
  BY FS_Interval DEF StoreOK
<1>2. Of(u) \subseteq 1 .. created
  BY DEF StoreOK, Of
<1>3. IsFiniteSet(Of(u))
  BY <1>1, <1>2, FS_Subset
<1> QED  BY <1>3, FS_CardinalityType DEF Of

\* A set without some of its elements is no larger, and smaller without one of its own.
LEMMA Fewer ==
  ASSUME NEW S, IsFiniteSet(S), NEW T
  PROVE  /\ IsFiniteSet(S \ T) /\ Cardinality(S \ T) \in Nat /\ Cardinality(S) \in Nat
         /\ Cardinality(S \ T) <= Cardinality(S)
         /\ \A x \in S \cap T : Cardinality(S \ T) < Cardinality(S)
<1>1. S \ T \in SUBSET S
  OBVIOUS
<1>2. /\ IsFiniteSet(S \ T) /\ Cardinality(S \ T) <= Cardinality(S)
      /\ Cardinality(S \ T) = Cardinality(S) => S \ T = S
  BY <1>1, FS_Subset
<1>3. Cardinality(S \ T) \in Nat /\ Cardinality(S) \in Nat
  BY <1>2, FS_CardinalityType
<1>4. ASSUME NEW x \in S \cap T PROVE Cardinality(S \ T) < Cardinality(S)
  <2>1. S \ T # S
    OBVIOUS
  <2> QED  BY <1>2, <1>3, <2>1
<1> QED  BY <1>2, <1>3, <1>4

LEMMA DestroyEffect ==
  ASSUME LoginsInv, NEW ids, NEW kept, kept \in [DOMAIN kept -> Logins!Session],
         DOMAIN kept \cap DOMAIN sessions = {}, Logins!Destroy(ids, kept)
  PROVE  /\ DOMAIN sessions' = (DOMAIN sessions \ ids) \cup DOMAIN kept
         /\ sessions' \in [DOMAIN sessions' -> Logins!Session]
         /\ \A u \in Users :
               Of(u)' = (Of(u) \ ids) \cup {id \in DOMAIN kept : kept[id].userId = u}
         /\ IndexOK'
<1>1. sessions' = [id \in (DOMAIN sessions \ ids) \cup DOMAIN kept |->
                      IF id \in DOMAIN kept THEN kept[id] ELSE sessions[id]]
  BY DEF Logins!Destroy
<1>2. /\ DOMAIN sessions' = (DOMAIN sessions \ ids) \cup DOMAIN kept
      /\ \A id \in DOMAIN sessions' :
            sessions'[id] = IF id \in DOMAIN kept THEN kept[id] ELSE sessions[id]
  BY <1>1
<1>3. sessions' \in [DOMAIN sessions' -> Logins!Session]
  <2>1. \A id \in DOMAIN sessions' : sessions'[id] \in Logins!Session
    BY <1>2 DEF LoginsInv, StoreOK
  <2> QED  BY <1>1, <1>2, <2>1
<1>4. \A u \in Users : Of(u)' = (Of(u) \ ids) \cup {id \in DOMAIN kept : kept[id].userId = u}
  BY <1>2 DEF Of
<1>5. \A u \in Users :
        (Logins!SessionsOf(u) \ ids) \cup {id \in DOMAIN kept : kept[id].userId = u} = Of(u)'
  BY <1>4, IndexIsOf DEF LoginsInv
<1>6. userSessions' = [u \in {x \in Users : (Logins!SessionsOf(x) \ ids)
                                \cup {id \in DOMAIN kept : kept[id].userId = x} # {}} |->
                         (Logins!SessionsOf(u) \ ids)
                           \cup {id \in DOMAIN kept : kept[id].userId = u}]
  BY DEF Logins!Destroy
<1>7. IndexOK'
  BY <1>5, <1>6 DEF IndexOK
<1> QED  BY <1>2, <1>3, <1>4, <1>7

LEMMA NoneKept == <<>> \in [DOMAIN <<>> -> Logins!Session] /\ DOMAIN <<>> = {}
OBVIOUS

\* Sessions go, none comes.
LEMMA GoneStep ==
  ASSUME SessionLimits, LoginsInv, NEW ids, Logins!Gone(ids)
  PROVE  LoginsInv'
<1>1. Logins!Destroy(ids, <<>>) /\ UNCHANGED <<created, sessionTime>>
  BY DEF Logins!Gone
<1>2. /\ DOMAIN sessions' = (DOMAIN sessions \ ids) \cup DOMAIN <<>>
      /\ sessions' \in [DOMAIN sessions' -> Logins!Session]
      /\ \A u \in Users :
            Of(u)' = (Of(u) \ ids) \cup {id \in DOMAIN <<>> : <<>>[id].userId = u}
      /\ IndexOK'
  <2>1. DOMAIN <<>> \cap DOMAIN sessions = {}
    BY NoneKept
  <2> QED  BY <1>1, <2>1, NoneKept, DestroyEffect
<1>3. DOMAIN sessions' \subseteq DOMAIN sessions /\ \A u \in Users : Of(u)' = Of(u) \ ids
  BY <1>2, NoneKept
<1>4. StoreOK'
  BY <1>1, <1>2, <1>3 DEF LoginsInv, StoreOK
<1>5. WithinLimit'
  <2> SUFFICES ASSUME NEW u \in Users PROVE Cardinality(Of(u) \ ids) <= maxSessionsPerUser
    BY <1>3 DEF WithinLimit
  <2>1. /\ Cardinality(Of(u) \ ids) \in Nat /\ Cardinality(Of(u)) \in Nat
        /\ Cardinality(Of(u) \ ids) <= Cardinality(Of(u))
    BY OfIsFinite, Fewer DEF LoginsInv
  <2>2. Cardinality(Of(u)) <= maxSessionsPerUser /\ maxSessionsPerUser \in Nat
    BY DEF LoginsInv, WithinLimit, SessionLimits
  <2> QED  BY <2>1, <2>2
<1> QED  BY <1>2, <1>4, <1>5 DEF LoginsInv

\* One session is stored after others of its user were destroyed, if that leaves room.
LEMMA StoreStep ==
  ASSUME SessionLimits, LoginsInv, NEW u \in Users, NEW ids, NEW kept,
         created < MaxSessions, created' = created + 1, sessionTime' = sessionTime,
         kept \in [{created + 1} -> Logins!Session], kept[created + 1].userId = u,
         Logins!Destroy(ids, kept), Cardinality(Of(u) \ ids) < maxSessionsPerUser
  PROVE  LoginsInv'
<1> DEFINE new == created + 1
<1>1. /\ created \in Nat /\ created' \in 0 .. MaxSessions /\ new \in 1 .. created'
      /\ new \notin 1 .. created /\ 1 .. created \subseteq 1 .. created'
  BY DEF LoginsInv, StoreOK, SessionLimits
<1> HIDE DEF new
<1>2. kept \in [DOMAIN kept -> Logins!Session] /\ DOMAIN kept = {new} /\ kept[new].userId = u
  BY DEF new
<1>3. new \notin DOMAIN sessions
  BY <1>1 DEF LoginsInv, StoreOK
<1>4. /\ DOMAIN sessions' = (DOMAIN sessions \ ids) \cup DOMAIN kept
      /\ sessions' \in [DOMAIN sessions' -> Logins!Session]
      /\ \A v \in Users :
            Of(v)' = (Of(v) \ ids) \cup {id \in DOMAIN kept : kept[id].userId = v}
      /\ IndexOK'
  <2>1. DOMAIN kept \cap DOMAIN sessions = {}
    BY <1>2, <1>3
  <2> QED  BY <1>2, <2>1, DestroyEffect
<1>5. StoreOK'
  BY <1>1, <1>2, <1>4 DEF LoginsInv, StoreOK
<1>6. WithinLimit'
  <2> SUFFICES ASSUME NEW v \in Users PROVE Cardinality(Of(v)') <= maxSessionsPerUser
    BY DEF WithinLimit
  <2>1. /\ IsFiniteSet(Of(v)) /\ IsFiniteSet(Of(v) \ ids)
        /\ Cardinality(Of(v) \ ids) \in Nat /\ Cardinality(Of(v)) \in Nat
        /\ Cardinality(Of(v) \ ids) <= Cardinality(Of(v))
    BY OfIsFinite, Fewer DEF LoginsInv
  <2>2. Cardinality(Of(v)) <= maxSessionsPerUser /\ maxSessionsPerUser \in Nat
    BY DEF LoginsInv, WithinLimit, SessionLimits
  <2>3. CASE v = u
    <3>1. Of(v)' = (Of(v) \ ids) \cup {new}
      BY <1>2, <1>4, <2>3
    <3>2. new \notin Of(v) \ ids
      BY <1>3 DEF Of
    <3>3. Cardinality((Of(v) \ ids) \cup {new}) = Cardinality(Of(v) \ ids) + 1
      BY <2>1, <3>2, FS_AddElement
    <3>4. Cardinality(Of(v) \ ids) + 1 <= maxSessionsPerUser
      BY <2>1, <2>2, <2>3
    <3> QED  BY <3>1, <3>3, <3>4
  <2>4. CASE v # u
    <3>1. Of(v)' = Of(v) \ ids
      BY <1>2, <1>4, <2>4
    <3>2. Cardinality(Of(v) \ ids) <= maxSessionsPerUser
      BY <2>1, <2>2
    <3> QED  BY <3>1, <3>2
  <2> QED  BY <2>3, <2>4
<1> QED  BY <1>4, <1>5, <1>6 DEF LoginsInv

LEMMA CreateStep ==
  ASSUME SessionLimits, LoginsInv, NEW u \in Users, Logins!createSession(u)
  PROVE  LoginsInv'
<1> DEFINE stale == Logins!Stale(Logins!SessionsOf(u))
           fresh == Logins!SessionsOf(u) \ stale
           new == [id \in {created + 1} |->
                     [userId |-> u, createdAt |-> sessionTime,
                      expiresAt |-> sessionTime + sessionDuration, lastActivityAt |-> sessionTime]]
<1>0. Logins!SessionsOf(u) = Of(u)
  BY IndexIsOf DEF LoginsInv
<1>1. /\ created < MaxSessions /\ created' = created + 1 /\ sessionTime' = sessionTime
      /\ \/ Cardinality(Of(u)) < maxSessionsPerUser /\ Logins!Destroy({}, new)
         \/ fresh = {} /\ Logins!Destroy(stale, new)
         \/ \E id \in Logins!Oldest(fresh) : Logins!Destroy(stale \cup {id}, new)
  <2>1. ~(Cardinality(Of(u)) >= maxSessionsPerUser) => Cardinality(Of(u)) < maxSessionsPerUser
    BY OfIsFinite DEF LoginsInv, SessionLimits
  <2> QED  BY <1>0, <2>1, SessionsCount DEF Logins!createSession
<1>2. /\ Cardinality(Of(u)) \in Nat /\ Cardinality(Of(u)) <= maxSessionsPerUser
      /\ IsFiniteSet(Of(u)) /\ maxSessionsPerUser \in Nat /\ maxSessionsPerUser > 0
  BY OfIsFinite DEF LoginsInv, WithinLimit, SessionLimits
<1>3. PICK kept, ids :
        /\ kept = new /\ Logins!Destroy(ids, kept)
        /\ \/ ids = {} /\ Cardinality(Of(u)) < maxSessionsPerUser
           \/ Of(u) \ ids = {}
           \/ \E id \in Of(u) : id \in ids
  <2>1. CASE fresh = {} /\ Logins!Destroy(stale, new)
    BY <1>0, <2>1
  <2>2. ASSUME NEW id \in Logins!Oldest(fresh), Logins!Destroy(stale \cup {id}, new)
        PROVE  \E kept, ids :
                 /\ kept = new /\ Logins!Destroy(ids, kept)
                 /\ \/ ids = {} /\ Cardinality(Of(u)) < maxSessionsPerUser
                    \/ Of(u) \ ids = {}
                    \/ \E x \in Of(u) : x \in ids
    <3>1. id \in Of(u) /\ id \in stale \cup {id}
      BY <1>0, <2>2 DEF Logins!Oldest
    <3> HIDE DEF stale, new
    <3> QED  BY <2>2, <3>1
  <2> HIDE DEF stale, new
  <2> QED  BY <1>1, <2>1, <2>2
<1>4. Cardinality(Of(u) \ ids) < maxSessionsPerUser
  <2>1. CASE ids = {} /\ Cardinality(Of(u)) < maxSessionsPerUser
    <3>1. Of(u) \ ids = Of(u)
      BY <2>1
    <3> QED  BY <2>1, <3>1
  <2>2. CASE Of(u) \ ids = {}
    BY <1>2, <2>2, FS_EmptySet
  <2>3. CASE \E id \in Of(u) : id \in ids
    <3>1. Cardinality(Of(u) \ ids) < Cardinality(Of(u)) /\ Cardinality(Of(u) \ ids) \in Nat
      BY <1>2, <2>3, Fewer
    <3> QED  BY <1>2, <3>1
  <2> QED  BY <1>3, <2>1, <2>2, <2>3
<1>5. kept \in [{created + 1} -> Logins!Session] /\ kept[created + 1].userId = u
  <2>1. [userId |-> u, createdAt |-> sessionTime, expiresAt |-> sessionTime + sessionDuration,
         lastActivityAt |-> sessionTime] \in Logins!Session
    BY DEF LoginsInv, StoreOK, SessionLimits, Logins!Session
  <2> QED  BY <1>3, <2>1
<1> QED  BY <1>1, <1>3, <1>4, <1>5, StoreStep

\* A session is read and keeps its user.
LEMMA TouchStep ==
  ASSUME SessionLimits, LoginsInv, NEW id \in DOMAIN sessions,
         Logins!updateActivity(id) \/ Logins!refreshSession(id)
  PROVE  LoginsInv'
<1>1. sessions \in [DOMAIN sessions -> Logins!Session] /\ sessionTime \in 0 .. MaxSessionTime
  BY DEF LoginsInv, StoreOK
<1>2. PICK expiry \in 0 .. MaxSessionTime + sessionDuration :
        sessions' = [sessions EXCEPT ![id].lastActivityAt = sessionTime, ![id].expiresAt = expiry]
  <2>1. /\ sessionTime + sessionDuration \in 0 .. MaxSessionTime + sessionDuration
        /\ sessions[id].expiresAt \in 0 .. MaxSessionTime + sessionDuration
    BY <1>1 DEF SessionLimits, Logins!Session
  <2> QED  BY <2>1 DEF Logins!updateActivity, Logins!refreshSession
<1>3. UNCHANGED <<userSessions, created, sessionTime>>
  BY DEF Logins!updateActivity, Logins!refreshSession
<1> DEFINE new == [sessions[id] EXCEPT !.lastActivityAt = sessionTime, !.expiresAt = expiry]
<1>4. new \in Logins!Session /\ new.userId = sessions[id].userId
  BY <1>1 DEF Logins!Session
<1>5. sessions' = [sessions EXCEPT ![id] = new]
  BY <1>2
<1> HIDE DEF new
<1>6. /\ DOMAIN sessions' = DOMAIN sessions /\ sessions' \in [DOMAIN sessions -> Logins!Session]
      /\ \A x \in DOMAIN sessions : sessions'[x].userId = sessions[x].userId
  BY <1>1, <1>4, <1>5
<1>7. \A u : Of(u)' = Of(u)
  BY <1>6 DEF Of
<1> QED  BY <1>3, <1>6, <1>7 DEF LoginsInv, StoreOK, IndexOK, WithinLimit

LEMMA ClearStep ==
  ASSUME SessionLimits, LoginsInv, Logins!clearAllSessions
  PROVE  LoginsInv'
<1>1. sessions' = <<>> /\ userSessions' = <<>> /\ UNCHANGED <<created, sessionTime>>
  BY DEF Logins!clearAllSessions
<1>2. \A u : Of(u)' = {}
  BY <1>1, NoneKept DEF Of
<1>3. StoreOK' /\ IndexOK'
  BY <1>1, <1>2, NoneKept DEF LoginsInv, StoreOK, IndexOK
<1>4. WithinLimit'
  BY <1>2, FS_EmptySet DEF WithinLimit, SessionLimits
<1> QED  BY <1>3, <1>4 DEF LoginsInv

LEMMA LoginsInit == ASSUME SessionLimits, Logins!Init PROVE LoginsInv
<1>1. sessions = <<>> /\ userSessions = <<>> /\ created = 0 /\ sessionTime = 0
  BY DEF Logins!Init
<1>2. \A u : Of(u) = {}
  BY <1>1, NoneKept DEF Of
<1>3. StoreOK /\ IndexOK
  BY <1>1, <1>2, NoneKept DEF StoreOK, IndexOK, SessionLimits
<1>4. WithinLimit
  BY <1>2, FS_EmptySet DEF WithinLimit, SessionLimits
<1> QED  BY <1>3, <1>4 DEF LoginsInv

LEMMA LoginsNext ==
  ASSUME SessionLimits, LoginsInv, [Logins!Next]_(Logins!vars)
  PROVE  LoginsInv'
<1>1. CASE \E u \in Users :
             \/ Logins!createSession(u) \/ Logins!getUserSessions(u)
             \/ Logins!destroyUserSessions(u)
  BY <1>1, CreateStep, GoneStep DEF Logins!getUserSessions, Logins!destroyUserSessions
<1>2. CASE \E id \in Logins!SessionIds :
             \/ Logins!getSession(id) \/ Logins!destroySession(id)
             \/ Logins!updateActivity(id) \/ Logins!refreshSession(id)
  BY <1>2, GoneStep, TouchStep
  DEF Logins!getSession, Logins!destroySession, Logins!updateActivity, Logins!refreshSession
<1>3. CASE Logins!cleanupExpiredSessions \/ Logins!clearAllSessions
  BY <1>3, GoneStep, ClearStep DEF Logins!cleanupExpiredSessions
<1>4. CASE Logins!Tick
  <2>1. sessionTime' \in 0 .. MaxSessionTime /\ UNCHANGED <<sessions, userSessions, created>>
    BY <1>4 DEF Logins!Tick, LoginsInv, StoreOK, SessionLimits
  <2> QED  BY <2>1 DEF LoginsInv, StoreOK, IndexOK, WithinLimit, Of
<1>5. CASE UNCHANGED Logins!vars
  BY <1>5 DEF Logins!vars, LoginsInv, StoreOK, IndexOK, WithinLimit, Of
<1> QED  BY <1>1, <1>2, <1>3, <1>4, <1>5 DEF Logins!Next

-----------------------------------------------------------------------------
(* The theorems.                                                             *)

LEMMA LoginsSpec == ASSUME SessionLimits PROVE Logins!Spec => []LoginsInv
<1>1. Logins!Init => LoginsInv
  BY LoginsInit
<1>2. LoginsInv /\ [Logins!Next]_(Logins!vars) => LoginsInv'
  BY LoginsNext
<1> QED  BY <1>1, <1>2, PTL DEF Logins!Spec

\* Sessions and the index keep their types; no id was stored that was not handed out.
THEOREM SessionsTypeCorrect == ASSUME SessionLimits PROVE Logins!Spec => []Logins!TypeOK
<1>1. LoginsInv => Logins!TypeOK
  BY DEF LoginsInv, StoreOK, IndexOK, Logins!TypeOK
<1> QED  BY <1>1, LoginsSpec, PTL

\* In any order of logins, evictions, reads that destroy, revivals and clean-ups, the
\* index of a user holds exactly its stored sessions, at most maxSessionsPerUser, and the
\* statistics count the users who have one.
THEOREM IndexIsRight == ASSUME SessionLimits PROVE Logins!Spec => []Logins!IndexAgrees
<1>1. ASSUME LoginsInv PROVE Logins!IndexAgrees
  <2>1. \A u \in Users : Logins!SessionsOf(u) = Of(u)
    BY <1>1, IndexIsOf DEF LoginsInv
  <2>2. \A u \in Users : Cardinality(Logins!SessionsOf(u)) <= maxSessionsPerUser
    BY <1>1, <2>1 DEF LoginsInv, WithinLimit
  <2>3. DOMAIN userSessions = {sessions[id].userId : id \in DOMAIN sessions}
    <3>1. \A id \in DOMAIN sessions : sessions[id].userId \in Users
      BY <1>1 DEF LoginsInv, StoreOK, Logins!Session
    <3> QED  BY <1>1, <3>1 DEF LoginsInv, IndexOK, Of
  <2> QED  BY <2>1, <2>2, <2>3, SessionsCount DEF Logins!IndexAgrees, Logins!getStatistics, Of
<1> QED  BY <1>1, LoginsSpec, PTL

-----------------------------------------------------------------------------
(* CircuitBreaker.                                                           *)

\* A threshold of 0 would open a circuit at its first success.
BreakerLimits ==
    threshold \in Nat \ {0} /\ MaxInFlight \in Nat /\ MaxLog \in Nat /\ MaxBreakerTime \in Nat

BreakerTypes ==
    /\ log \in Seq({"ok", "fail", "close"}) /\ isOpen \in BOOLEAN
    /\ inFlight \in 0 .. MaxInFlight /\ Len(log) + inFlight <= MaxLog
    /\ failures \in 0 .. Len(log) /\ lastFailureTime \in 0 .. breakerTime /\ breakerTime \in 0 .. MaxBreakerTime

\* failures is the length of the run of failures the log ends with.
LastRun ==
    /\ \A j \in Len(log) - failures + 1 .. Len(log) : log[j] = "fail"
    /\ failures < Len(log) => log[Len(log) - failures] # "fail"

\* A run that opens the circuit, if it ends at n.
RunUpTo(l, n) ==
    /\ n \in threshold .. Len(l)
    /\ \A j \in n - threshold + 1 .. n : l[j] = "fail"
    /\ \A j \in n - threshold + 1 .. Len(l) : l[j] # "close"

BreakerInv ==
    /\ BreakerTypes /\ LastRun
    /\ ~isOpen => failures < threshold
    /\ isOpen <=> \E n \in 1 .. Len(log) : RunUpTo(log, n)

\* An entry other than a close leaves earlier runs what they are; the entry is the
\* end of a run only if it is a failure.
LEMMA RunsStay ==
  ASSUME BreakerLimits, NEW l \in Seq({"ok", "fail", "close"}), NEW e \in {"ok", "fail"},
         NEW n \in 1 .. Len(l)
  PROVE  RunUpTo(Append(l, e), n) <=> RunUpTo(l, n)
<1> DEFINE m == Append(l, e)
<1>1. /\ Len(m) = Len(l) + 1 /\ m[Len(l) + 1] = e /\ Len(l) \in Nat
      /\ \A j \in 1 .. Len(l) : m[j] = l[j]
  OBVIOUS
<1> HIDE DEF m
<1> QED  BY <1>1 DEF RunUpTo, BreakerLimits

LEMMA BreakerInit == ASSUME BreakerLimits, Breaker!Init PROVE BreakerInv
<1>0. ~isOpen /\ isOpen \in BOOLEAN
  BY Zenon DEF Breaker!Init
<1>1. /\ failures = 0 /\ lastFailureTime = 0 /\ inFlight = 0 /\ breakerTime = 0
      /\ log = <<>> /\ Len(log) = 0
  BY DEF Breaker!Init
<1>2. BreakerTypes
  BY <1>0, <1>1 DEF BreakerTypes, BreakerLimits
<1>3. LastRun
  BY <1>1 DEF LastRun
<1> QED  BY <1>0, <1>1, <1>2, <1>3 DEF BreakerInv, BreakerLimits

LEMMA CloseStep ==
  ASSUME BreakerLimits, BreakerInv, Breaker!Begin
  PROVE  BreakerInv'
<1>1. CASE ~isOpen /\ UNCHANGED <<failures, isOpen, log>>
  <2>1. /\ inFlight' \in 0 .. MaxInFlight /\ Len(log) + inFlight' <= MaxLog
        /\ UNCHANGED <<lastFailureTime, breakerTime>>
    BY <1>1 DEF BreakerInv, BreakerTypes, Breaker!Begin, BreakerLimits
  <2> QED  BY <1>1, <2>1 DEF BreakerInv, BreakerTypes, LastRun, RunUpTo
<1>2. CASE isOpen /\ Breaker!Close
  <2>0. ~isOpen' /\ isOpen' \in BOOLEAN
    BY <1>2, Zenon DEF Breaker!Close
  <2>1. /\ log' = Append(log, "close") /\ failures' = 0
        /\ lastFailureTime' = lastFailureTime /\ breakerTime' = breakerTime
    BY <1>2 DEF Breaker!Begin, Breaker!Close, Breaker!Logged
  <2>2. /\ Len(log') = Len(log) + 1 /\ log'[Len(log) + 1] = "close" /\ Len(log) \in Nat
        /\ log' \in Seq({"ok", "fail", "close"})
    BY <2>1 DEF BreakerInv, BreakerTypes
  <2>3. inFlight' \in 0 .. MaxInFlight /\ Len(log') + inFlight' <= MaxLog
    BY <2>2 DEF BreakerInv, BreakerTypes, Breaker!Begin, BreakerLimits
  <2>4. \A n : ~RunUpTo(log', n)
    BY <2>2 DEF RunUpTo, BreakerLimits
  <2>5. BreakerTypes'
    BY <2>0, <2>1, <2>2, <2>3 DEF BreakerInv, BreakerTypes
  <2>6. LastRun'
    BY <2>1, <2>2 DEF LastRun
  <2> QED  BY <2>0, <2>1, <2>4, <2>5, <2>6 DEF BreakerInv, BreakerLimits
<1> QED  BY <1>1, <1>2 DEF Breaker!Begin

\* What the end of a call, with either outcome, does to the log.
LEMMA OutcomeStep ==
  ASSUME BreakerLimits, BreakerInv, NEW e \in {"ok", "fail"}, inFlight > 0,
         inFlight' = inFlight - 1, log' = Append(log, e)
  PROVE  /\ Len(log') = Len(log) + 1 /\ log'[Len(log')] = e /\ Len(log) \in Nat
         /\ \A j \in 1 .. Len(log) : log'[j] = log[j]
         /\ log' \in Seq({"ok", "fail", "close"})
         /\ inFlight' \in 0 .. MaxInFlight /\ Len(log') + inFlight' <= MaxLog
         /\ \A n \in 1 .. Len(log) : RunUpTo(log', n) <=> RunUpTo(log, n)
<1>1. \A n \in 1 .. Len(log) : RunUpTo(log', n) <=> RunUpTo(log, n)
  BY RunsStay DEF BreakerInv, BreakerTypes
<1> QED  BY <1>1 DEF BreakerInv, BreakerTypes, BreakerLimits

LEMMA SucceedsStep ==
  ASSUME BreakerLimits, BreakerInv, Breaker!Succeed
  PROVE  BreakerInv'
<1>1. /\ inFlight > 0 /\ inFlight' = inFlight - 1 /\ failures' = 0 /\ log' = Append(log, "ok")
      /\ UNCHANGED <<lastFailureTime, isOpen, breakerTime>>
  BY DEF Breaker!Succeed, Breaker!Logged
<1>2. /\ Len(log') = Len(log) + 1 /\ log'[Len(log')] = "ok" /\ Len(log) \in Nat
      /\ log' \in Seq({"ok", "fail", "close"})
      /\ inFlight' \in 0 .. MaxInFlight /\ Len(log') + inFlight' <= MaxLog
      /\ \A n \in 1 .. Len(log) : RunUpTo(log', n) <=> RunUpTo(log, n)
  BY <1>1, OutcomeStep
<1>3. ~RunUpTo(log', Len(log'))
  BY <1>2 DEF RunUpTo, BreakerLimits
<1>4. isOpen' <=> \E n \in 1 .. Len(log') : RunUpTo(log', n)
  BY <1>1, <1>2, <1>3 DEF BreakerInv
<1>5. BreakerTypes' /\ LastRun'
  BY <1>1, <1>2 DEF BreakerInv, BreakerTypes, LastRun
<1> QED  BY <1>1, <1>4, <1>5 DEF BreakerInv, BreakerLimits

LEMMA FailsStep ==
  ASSUME BreakerLimits, BreakerInv, Breaker!Fail
  PROVE  BreakerInv'
<1>1. /\ inFlight > 0 /\ inFlight' = inFlight - 1 /\ failures' = failures + 1
      /\ log' = Append(log, "fail") /\ lastFailureTime' = breakerTime /\ breakerTime' = breakerTime
      /\ isOpen' = (isOpen \/ failures' >= threshold)
  BY DEF Breaker!Fail, Breaker!Logged
<1>2. /\ Len(log') = Len(log) + 1 /\ log'[Len(log')] = "fail" /\ Len(log) \in Nat
      /\ \A j \in 1 .. Len(log) : log'[j] = log[j]
      /\ log' \in Seq({"ok", "fail", "close"})
      /\ inFlight' \in 0 .. MaxInFlight /\ Len(log') + inFlight' <= MaxLog
      /\ \A n \in 1 .. Len(log) : RunUpTo(log', n) <=> RunUpTo(log, n)
  BY <1>1, OutcomeStep
<1>3. BreakerTypes'
  BY <1>1, <1>2 DEF BreakerInv, BreakerTypes
<1>4. LastRun'
  BY <1>1, <1>2 DEF BreakerInv, BreakerTypes, LastRun
<1>5. CASE failures' >= threshold
  <2>1. RunUpTo(log', Len(log'))
    BY <1>3, <1>4, <1>5 DEF BreakerTypes, LastRun, RunUpTo, BreakerLimits
  <2>2. \E n \in 1 .. Len(log') : RunUpTo(log', n)
    BY <1>2, <2>1
  <2> QED  BY <1>1, <1>3, <1>4, <1>5, <2>2 DEF BreakerInv
<1>6. CASE failures' < threshold
  <2>1. ~RunUpTo(log', Len(log'))
    <3> SUFFICES ASSUME RunUpTo(log', Len(log'))  PROVE FALSE
      OBVIOUS
    <3> DEFINE j == Len(log') - failures'
    <3>1. failures' < Len(log') /\ j \in Len(log') - threshold + 1 .. Len(log')
      BY <1>3, <1>6 DEF BreakerTypes, BreakerLimits, RunUpTo
    <3>2. log'[j] # "fail"
      BY <1>4, <3>1 DEF LastRun
    <3>3. log'[j] = "fail"
      BY <3>1 DEF RunUpTo
    <3> QED  BY <3>2, <3>3
  <2>2. isOpen' <=> isOpen
    BY <1>1, <1>3, <1>6 DEF BreakerInv, BreakerTypes, BreakerLimits
  <2>3. isOpen' <=> \E n \in 1 .. Len(log') : RunUpTo(log', n)
    BY <1>2, <2>1, <2>2 DEF BreakerInv
  <2> QED  BY <1>3, <1>4, <1>6, <2>3 DEF BreakerInv
<1> QED  BY <1>3, <1>5, <1>6 DEF BreakerTypes, BreakerLimits

LEMMA BreakerNext ==
  ASSUME BreakerLimits, BreakerInv, [Breaker!Next]_(Breaker!vars)
  PROVE  BreakerInv'
<1>1. CASE Breaker!Tick
  <2>1. /\ breakerTime' \in 0 .. MaxBreakerTime /\ lastFailureTime' \in 0 .. breakerTime'
        /\ UNCHANGED <<failures, isOpen, inFlight, log>>
    BY <1>1 DEF Breaker!Tick, BreakerInv, BreakerTypes, BreakerLimits
  <2> QED  BY <2>1 DEF BreakerInv, BreakerTypes, LastRun, RunUpTo
<1>2. CASE UNCHANGED Breaker!vars
  BY <1>2 DEF Breaker!vars, BreakerInv, BreakerTypes, LastRun, RunUpTo
<1> QED  BY <1>1, <1>2, CloseStep, SucceedsStep, FailsStep DEF Breaker!Next

LEMMA BreakerSpec == ASSUME BreakerLimits PROVE Breaker!Spec => []BreakerInv
<1>1. Breaker!Init => BreakerInv
  BY BreakerInit
<1>2. BreakerInv /\ [Breaker!Next]_(Breaker!vars) => BreakerInv'
  BY BreakerNext
<1> QED  BY <1>1, <1>2, PTL DEF Breaker!Spec

\* The closure's variables keep their types, and no failure is counted that the log lacks.
THEOREM BreakerTypeCorrect == ASSUME BreakerLimits PROVE Breaker!Spec => []Breaker!TypeOK
<1>1. BreakerInv => Breaker!TypeOK
  BY DEF BreakerInv, BreakerTypes, BreakerLimits, Breaker!TypeOK
<1> QED  BY <1>1, BreakerSpec, PTL

\* However many calls overlap, and however late their outcomes, the circuit is open exactly
\* when threshold failures in a row have come since it was last closed.
THEOREM OpensAfterARun ==
  ASSUME BreakerLimits PROVE Breaker!Spec => []OpenAfterRunOfFailures
<1>1. ASSUME BreakerInv PROVE OpenAfterRunOfFailures
  <2>1. Len(log) \in Nat /\ threshold \in Nat \ {0}
    BY <1>1 DEF BreakerInv, BreakerTypes, BreakerLimits
  <2>2. ASSUME NEW n \in 1 .. Len(log), RunUpTo(log, n)
        PROVE  \E i \in 0 .. Len(log) - threshold :
                 /\ \A j \in i + 1 .. i + threshold : log[j] = "fail"
                 /\ \A j \in i + 1 .. Len(log) : log[j] # "close"
    <3>1. n - threshold \in 0 .. Len(log) - threshold /\ (n - threshold) + threshold = n
      BY <2>1, <2>2 DEF RunUpTo
    <3> QED  BY <2>1, <2>2, <3>1 DEF RunUpTo
  <2>3. ASSUME NEW i \in 0 .. Len(log) - threshold,
               \A j \in i + 1 .. i + threshold : log[j] = "fail",
               \A j \in i + 1 .. Len(log) : log[j] # "close"
        PROVE  \E n \in 1 .. Len(log) : RunUpTo(log, n)
    <3>1. /\ i + threshold \in 1 .. Len(log) /\ (i + threshold) - threshold = i
          /\ i + threshold \in threshold .. Len(log)
      BY <2>1
    <3> QED  BY <2>3, <3>1 DEF RunUpTo
  <2> QED  BY <1>1, <2>2, <2>3 DEF BreakerInv, OpenAfterRunOfFailures, Breaker!OpenAfterRunOfFailures
<1> QED  BY <1>1, BreakerSpec, PTL

-----------------------------------------------------------------------------
(* Reconnection.                                                             *)

ReconnectLimits == maxReconnects \in Nat /\ MaxTimers \in Nat /\ MaxReconnects \in Nat

ConnectionState ==
    [isConnected : BOOLEAN, disconnected : BOOLEAN, reconnectAttempts : Nat,
     totalReconnects : 0 .. MaxReconnects, fired : Nat]

Counts(c, d, a, t, f) ==
    [isConnected |-> c, disconnected |-> d, reconnectAttempts |-> a, totalReconnects |-> t,
     fired |-> f]

\* The timers that have fired, or were cleared.
Past == (1 .. Len(timers)) \ pending

\* One socket's counts: each is for a timer of the n that fired, and no timer fires twice.
Earned(st, n) ==
    /\ st \in ConnectionState
    /\ st.totalReconnects + st.reconnectAttempts <= st.fired
    /\ st.fired <= n

TimersOK ==
    /\ timers \in Seq(SocketIds) /\ Len(timers) <= MaxTimers /\ pending \subseteq 1 .. Len(timers)
    /\ DOMAIN reconnectTimers \subseteq SocketIds

ReconnectInv ==
    /\ TimersOK /\ DOMAIN state \subseteq SocketIds
    /\ \A s \in DOMAIN state : Earned(state[s], Cardinality(Past))

LEMMA CountsOf ==
  ASSUME NEW n \in Nat, NEW st, Earned(st, n)
  PROVE  \E c \in BOOLEAN, d \in BOOLEAN, a \in Nat, f \in Nat, t \in 0 .. MaxReconnects :
            st = Counts(c, d, a, t, f) /\ t + a <= f /\ f <= n
BY DEF Earned, Counts, ConnectionState

LEMMA CountsEarned ==
  ASSUME NEW n \in Nat, NEW c \in BOOLEAN, NEW d \in BOOLEAN, NEW a \in Nat,
         NEW t \in 0 .. MaxReconnects, NEW f \in Nat, t + a <= f, f <= n
  PROVE  Earned(Counts(c, d, a, t, f), n)
BY DEF Earned, Counts, ConnectionState

LEMMA PastIsFinite ==
  ASSUME TimersOK
  PROVE  IsFiniteSet(Past) /\ Cardinality(Past) \in Nat /\ Cardinality(Past) <= Len(timers)
<1>0. Len(timers) \in Nat
  BY DEF TimersOK
<1>1. IsFiniteSet(1 .. Len(timers)) /\ Cardinality(1 .. Len(timers)) = Len(timers)
  BY <1>0, FS_Interval
<1>2. Past \in SUBSET (1 .. Len(timers))
  BY DEF Past
<1>3. IsFiniteSet(Past) /\ Cardinality(Past) <= Cardinality(1 .. Len(timers))
  BY <1>1, <1>2, FS_Subset
<1> QED  BY <1>0, <1>1, <1>3, FS_CardinalityType

LEMMA PastNumbers ==
  ASSUME TimersOK, TimersOK'
  PROVE  Cardinality(Past) \in Nat /\ Cardinality(Past') \in Nat
<1>1. Len(timers') \in Nat /\ Past' \in SUBSET (1 .. Len(timers'))
  BY DEF TimersOK, Past
<1>2. IsFiniteSet(1 .. Len(timers'))
  BY <1>1, FS_Interval
<1>3. Cardinality(Past') \in Nat
  BY <1>1, <1>2, FS_Subset, FS_CardinalityType
<1> QED  BY <1>3, PastIsFinite

\* The state a socket has, or is given, is sound.
LEMMA StateOf ==
  ASSUME ReconnectInv, ReconnectLimits, NEW s
  PROVE  Earned(Sockets!getState(s), Cardinality(Past))
<1>1. CASE s \in DOMAIN state
  BY <1>1 DEF ReconnectInv, Sockets!getState
<1>2. CASE s \notin DOMAIN state
  <2>1. Sockets!getState(s) = Sockets!Fresh
    BY <1>2 DEF Sockets!getState
  <2>2. Sockets!Fresh \in ConnectionState
    BY DEF Sockets!Fresh, ConnectionState, ReconnectLimits
  <2>3. /\ Sockets!Fresh.totalReconnects = 0 /\ Sockets!Fresh.reconnectAttempts = 0
        /\ Sockets!Fresh.fired = 0
    BY DEF Sockets!Fresh
  <2> QED  BY <2>1, <2>2, <2>3, PastIsFinite DEF Earned, ReconnectInv
<1> QED  BY <1>1, <1>2

\* Clearing or replacing timers forgets none that fired.
LEMMA PastGrows ==
  ASSUME TimersOK, TimersOK', \A n \in 1 .. Len(timers) : n \in 1 .. Len(timers'),
         pending' \cap (1 .. Len(timers)) \subseteq pending
  PROVE  Cardinality(Past) <= Cardinality(Past') /\ Past \subseteq Past'
<1>1. Past \in SUBSET Past'
  BY DEF Past
<1>2. IsFiniteSet(Past')
  <2>1. IsFiniteSet((1 .. Len(timers'))) /\ Past' \in SUBSET (1 .. Len(timers'))
    BY FS_Interval DEF TimersOK, Past
  <2> QED  BY <2>1, FS_Subset
<1> QED  BY <1>1, <1>2, FS_Subset

\* One socket's state is put in its place, and nothing that fired is forgotten.
LEMMA PutStep ==
  ASSUME ReconnectLimits, ReconnectInv, NEW s \in SocketIds, NEW st, TimersOK',
         state' = Sockets!Put(state, s, st), Earned(st, Cardinality(Past')),
         Cardinality(Past) <= Cardinality(Past')
  PROVE  ReconnectInv'
<1>1. /\ DOMAIN state' = DOMAIN state \cup {s} /\ state'[s] = st
      /\ \A x \in DOMAIN state : x # s => state'[x] = state[x]
  BY DEF Sockets!Put
<1>2. Cardinality(Past) \in Nat /\ Cardinality(Past') \in Nat
  BY PastNumbers DEF ReconnectInv
<1>3. ASSUME NEW x \in DOMAIN state, x # s PROVE Earned(state'[x], Cardinality(Past'))
  <2>1. Earned(state[x], Cardinality(Past))
    BY <1>3 DEF ReconnectInv
  <2>2. state'[x] = state[x]
    BY <1>1, <1>3
  <2> QED  BY <1>2, <2>1, <2>2 DEF Earned, ConnectionState
<1> QED  BY <1>1, <1>3 DEF ReconnectInv

\* Timers are cleared, the others are as they were.
LEMMA ClearEffect ==
  ASSUME ReconnectInv, NEW ss, Sockets!ClearTimers(ss), timers' = timers
  PROVE  TimersOK' /\ Cardinality(Past) <= Cardinality(Past')
<1>1. pending' \subseteq pending /\ DOMAIN reconnectTimers' \subseteq DOMAIN reconnectTimers
  BY DEF Sockets!ClearTimers, Sockets!Drop
<1>2. TimersOK'
  BY <1>1 DEF ReconnectInv, TimersOK
<1> QED  BY <1>1, <1>2, PastGrows DEF ReconnectInv

\* A timer is started or not; none of those that fired comes back.
LEMMA ScheduleEffect ==
  ASSUME ReconnectInv, ReconnectLimits, NEW s \in SocketIds, NEW st,
         Sockets!scheduleReconnect(s, st)
  PROVE  TimersOK' /\ Cardinality(Past) <= Cardinality(Past')
<1>1. CASE UNCHANGED <<reconnectTimers, timers, pending>>
  <2>1. TimersOK'
    BY <1>1 DEF ReconnectInv, TimersOK
  <2> QED  BY <1>1, <2>1, PastGrows DEF ReconnectInv
<1>2. CASE /\ Len(timers) < MaxTimers /\ timers' = Append(timers, s)
           /\ pending' = pending \cup {Len(timers) + 1}
           /\ reconnectTimers' = Sockets!Put(reconnectTimers, s, Len(timers) + 1)
  <2>1. /\ Len(timers) \in Nat /\ Len(timers') = Len(timers) + 1 /\ timers' \in Seq(SocketIds)
        /\ DOMAIN reconnectTimers' \subseteq SocketIds
    BY <1>2 DEF ReconnectInv, TimersOK, Sockets!Put
  <2>2. Len(timers') <= MaxTimers
    BY <1>2, <2>1 DEF ReconnectLimits
  <2>4. pending' \subseteq 1 .. Len(timers')
    <3>1. pending \subseteq 1 .. Len(timers)
      BY DEF ReconnectInv, TimersOK
    <3>2. \A k \in Nat : \A P \in SUBSET (1 .. k) : P \cup {k + 1} \subseteq 1 .. k + 1
      OBVIOUS
    <3> QED  BY <1>2, <2>1, <3>1, <3>2
  <2>3. TimersOK'
    BY <2>1, <2>2, <2>4 DEF TimersOK
  <2> QED  BY <1>2, <2>1, <2>3, PastGrows DEF ReconnectInv
<1> QED  BY <1>1, <1>2 DEF Sockets!scheduleReconnect

LEMMA ConnectStep ==
  ASSUME ReconnectLimits, ReconnectInv, NEW s \in SocketIds, Sockets!handleConnect(s)
  PROVE  ReconnectInv'
<1> DEFINE old == Sockets!getState(s)
           new == Sockets!Connected(old)
<1>1. /\ old.totalReconnects < MaxReconnects /\ state' = Sockets!Put(state, s, new)
      /\ Sockets!ClearTimers({s}) /\ timers' = timers
  BY DEF Sockets!handleConnect
<1>2. Earned(old, Cardinality(Past))
  BY StateOf
<1>3. TimersOK' /\ Cardinality(Past) <= Cardinality(Past')
  BY <1>1, ClearEffect
<1>4. Cardinality(Past) \in Nat /\ Cardinality(Past') \in Nat
  BY <1>3, PastNumbers DEF ReconnectInv
<1> HIDE DEF old
<1>5. Earned(new, Cardinality(Past'))
  <2>1. PICK c \in BOOLEAN, d \in BOOLEAN, a \in Nat, f \in Nat, t \in 0 .. MaxReconnects :
          old = Counts(c, d, a, t, f) /\ t + a <= f /\ f <= Cardinality(Past)
    BY <1>2, <1>4, CountsOf
  <2>2. PICK u : u = (IF a > 0 THEN t + 1 ELSE t)
    OBVIOUS
  <2>4. new = Counts(TRUE, d, 0, u, f)
    <3>1. new = [[[old EXCEPT !.isConnected = TRUE] EXCEPT !.reconnectAttempts = 0]
                   EXCEPT !.totalReconnects = u]
      BY <2>1, <2>2 DEF Sockets!Connected, Counts
    <3> QED  BY <2>1, <3>1 DEF Counts
  <2>3. u \in 0 .. MaxReconnects /\ u + 0 <= f /\ f <= Cardinality(Past') /\ TRUE \in BOOLEAN
    BY <1>1, <1>3, <1>4, <2>1, <2>2 DEF Counts, ReconnectLimits
  <2> QED  BY <1>4, <2>1, <2>3, <2>4, CountsEarned
<1> QED  BY <1>1, <1>3, <1>5, PutStep

LEMMA DisconnectStep ==
  ASSUME ReconnectLimits, ReconnectInv, NEW s \in SocketIds, NEW final \in BOOLEAN,
         Sockets!handleDisconnect(s, final)
  PROVE  ReconnectInv'
<1> DEFINE old == Sockets!getState(s)
           new == [old EXCEPT !.isConnected = FALSE, !.disconnected = TRUE]
<1>1. /\ state' = Sockets!Put(state, s, new)
      /\ \/ UNCHANGED <<reconnectTimers, timers, pending>>
         \/ Sockets!scheduleReconnect(s, new)
  BY DEF Sockets!handleDisconnect
<1>2. Earned(old, Cardinality(Past))
  BY StateOf
<1>3. TimersOK' /\ Cardinality(Past) <= Cardinality(Past')
  <2>1. CASE UNCHANGED <<reconnectTimers, timers, pending>>
    <3>1. TimersOK'
      BY <2>1 DEF ReconnectInv, TimersOK
    <3> QED  BY <2>1, <3>1, PastGrows DEF ReconnectInv
  <2> HIDE DEF new
  <2> QED  BY <1>1, <2>1, ScheduleEffect
<1>4. Cardinality(Past) \in Nat /\ Cardinality(Past') \in Nat
  BY <1>3, PastNumbers DEF ReconnectInv
<1> HIDE DEF old
<1>5. Earned(new, Cardinality(Past'))
  <2>1. PICK c \in BOOLEAN, d \in BOOLEAN, a \in Nat, f \in Nat, t \in 0 .. MaxReconnects :
          old = Counts(c, d, a, t, f) /\ t + a <= f /\ f <= Cardinality(Past)
    BY <1>2, <1>4, CountsOf
  <2>2. new = Counts(FALSE, TRUE, a, t, f)
    <3>1. new = [[old EXCEPT !.isConnected = FALSE] EXCEPT !.disconnected = TRUE]
      BY <2>1 DEF Counts
    <3> HIDE DEF new
    <3> QED  BY <2>1, <3>1 DEF Counts
  <2>3. f <= Cardinality(Past')
    BY <1>3, <1>4, <2>1
  <2>4. TRUE \in BOOLEAN /\ FALSE \in BOOLEAN
    OBVIOUS
  <2> HIDE DEF new
  <2> QED  BY <1>4, <2>1, <2>2, <2>3, <2>4, CountsEarned, Zenon
<1> QED  BY <1>1, <1>3, <1>5, PutStep

LEMMA ForceStep ==
  ASSUME ReconnectLimits, ReconnectInv, NEW s \in SocketIds, Sockets!forceReconnect(s)
  PROVE  ReconnectInv'
<1> DEFINE old == Sockets!getState(s)
           new == [old EXCEPT !.reconnectAttempts = 0]
<1>1. state' = Sockets!Put(state, s, new) /\ Sockets!scheduleReconnect(s, new)
  BY DEF Sockets!forceReconnect
<1>2. Earned(old, Cardinality(Past))
  BY StateOf
<1>3. TimersOK' /\ Cardinality(Past) <= Cardinality(Past')
  <2> HIDE DEF new
  <2> QED  BY <1>1, ScheduleEffect
<1>4. Cardinality(Past) \in Nat /\ Cardinality(Past') \in Nat
  BY <1>3, PastNumbers DEF ReconnectInv
<1> HIDE DEF old
<1>5. Earned(new, Cardinality(Past'))
  BY <1>2, <1>3, <1>4 DEF Earned, ConnectionState
<1> QED  BY <1>1, <1>3, <1>5, PutStep

\* A timer fires: one more is past, and its socket has one more attempt.
LEMMA AttemptStep ==
  ASSUME ReconnectLimits, ReconnectInv, NEW n, Sockets!attemptReconnect(n)
  PROVE  ReconnectInv'
<1> DEFINE s == timers[n]
           old == Sockets!getState(s)
           new == [old EXCEPT !.reconnectAttempts = @ + 1, !.fired = @ + 1]
<1>1. /\ n \in pending /\ pending' = pending \ {n} /\ state' = Sockets!Put(state, s, new)
      /\ timers' = timers /\ reconnectTimers' = reconnectTimers
  BY DEF Sockets!attemptReconnect
<1>2. n \in 1 .. Len(timers) /\ s \in SocketIds /\ TimersOK'
  BY <1>1 DEF ReconnectInv, TimersOK
<1>3. Earned(old, Cardinality(Past))
  BY StateOf
<1>4. Past' = Past \cup {n} /\ n \notin Past
  BY <1>1, <1>2 DEF Past
<1>5. Cardinality(Past') = Cardinality(Past) + 1 /\ Cardinality(Past) \in Nat
  BY <1>4, PastIsFinite, FS_AddElement DEF ReconnectInv
<1> HIDE DEF old, s
<1>6. Earned(new, Cardinality(Past'))
  <2>1. PICK c \in BOOLEAN, d \in BOOLEAN, a \in Nat, f \in Nat, t \in 0 .. MaxReconnects :
          old = Counts(c, d, a, t, f) /\ t + a <= f /\ f <= Cardinality(Past)
    BY <1>3, <1>5, CountsOf
  <2>2. new = Counts(c, d, a + 1, t, f + 1)
    <3>1. new = [[old EXCEPT !.reconnectAttempts = a + 1] EXCEPT !.fired = f + 1]
      BY <2>1 DEF Counts
    <3> HIDE DEF new
    <3> QED  BY <2>1, <3>1 DEF Counts
  <2>3. /\ a + 1 \in Nat /\ f + 1 \in Nat /\ t + (a + 1) <= f + 1
        /\ f + 1 <= Cardinality(Past') /\ Cardinality(Past') \in Nat
    BY <1>5, <2>1
  <2> QED  BY <2>2, <2>3, CountsEarned
<1> QED  BY <1>1, <1>2, <1>5, <1>6, PutStep

LEMMA QueryStep ==
  ASSUME ReconnectLimits, ReconnectInv, NEW s \in SocketIds, Sockets!Query(s)
  PROVE  ReconnectInv'
<1>1. /\ state' = Sockets!Put(state, s, Sockets!getState(s))
      /\ timers' = timers /\ pending' = pending /\ reconnectTimers' = reconnectTimers
  BY DEF Sockets!Query
<1>2. Earned(Sockets!getState(s), Cardinality(Past))
  BY StateOf
<1>3. TimersOK' /\ Past' = Past
  BY <1>1 DEF ReconnectInv, TimersOK, Past
<1>4. Cardinality(Past) <= Cardinality(Past')
  BY <1>3, PastIsFinite DEF ReconnectInv
<1> QED  BY <1>1, <1>2, <1>3, <1>4, PutStep

LEMMA ForgetStep ==
  ASSUME ReconnectLimits, ReconnectInv, NEW ss, Sockets!Forget(ss)
  PROVE  ReconnectInv'
<1>1. /\ DOMAIN state' \subseteq DOMAIN state /\ \A s \in DOMAIN state' : state'[s] = state[s]
      /\ Sockets!ClearTimers(ss) /\ timers' = timers
  BY DEF Sockets!Forget, Sockets!Drop
<1>2. TimersOK' /\ Cardinality(Past) <= Cardinality(Past')
  BY <1>1, ClearEffect
<1>3. Cardinality(Past) \in Nat /\ Cardinality(Past') \in Nat
  BY <1>2, PastNumbers DEF ReconnectInv
<1>4. ASSUME NEW s \in DOMAIN state' PROVE Earned(state'[s], Cardinality(Past'))
  <2>1. Earned(state[s], Cardinality(Past)) /\ state'[s] = state[s]
    BY <1>1 DEF ReconnectInv
  <2> QED  BY <1>2, <1>3, <2>1 DEF Earned, ConnectionState
<1> QED  BY <1>1, <1>2, <1>4 DEF ReconnectInv

LEMMA ReconnectNext ==
  ASSUME ReconnectLimits, ReconnectInv, [Sockets!Next]_(Sockets!vars)
  PROVE  ReconnectInv'
<1>1. CASE \E s \in SocketIds :
             \/ Sockets!handleConnect(s) \/ Sockets!forceReconnect(s)
             \/ Sockets!Query(s) \/ Sockets!reset(s)
             \/ \E final \in BOOLEAN : Sockets!handleDisconnect(s, final)
  BY <1>1, ConnectStep, ForceStep, QueryStep, ForgetStep, DisconnectStep DEF Sockets!reset
<1>2. CASE \E n \in 1 .. MaxTimers : Sockets!attemptReconnect(n)
  BY <1>2, AttemptStep
<1>3. CASE Sockets!cleanup
  BY <1>3, ForgetStep DEF Sockets!cleanup
<1>4. CASE UNCHANGED Sockets!vars
  BY <1>4 DEF Sockets!vars, ReconnectInv, TimersOK, Past
<1> QED  BY <1>1, <1>2, <1>3, <1>4 DEF Sockets!Next

LEMMA ReconnectSpec == ASSUME ReconnectLimits PROVE Sockets!Spec => []ReconnectInv
<1>1. Sockets!Init => ReconnectInv
  BY DEF Sockets!Init, ReconnectInv, TimersOK, ReconnectLimits
<1>2. ReconnectInv /\ [Sockets!Next]_(Sockets!vars) => ReconnectInv'
  BY ReconnectNext
<1> QED  BY <1>1, <1>2, PTL DEF Sockets!Spec

\* States, timers and the map of them keep their types, and no count exceeds the timers.
THEOREM ReconnectionTypeCorrect ==
  ASSUME ReconnectLimits PROVE Sockets!Spec => []Sockets!TypeOK
<1>1. ASSUME ReconnectInv PROVE Sockets!TypeOK
  <2>1. Cardinality(Past) \in Nat /\ Cardinality(Past) <= MaxTimers
    BY <1>1, PastIsFinite DEF ReconnectInv, TimersOK, ReconnectLimits
  <2>2. \A s \in DOMAIN state : Earned(state[s], Cardinality(Past))
    BY <1>1 DEF ReconnectInv
  <2>3. \A s \in DOMAIN state :
          state[s] \in [isConnected : BOOLEAN, disconnected : BOOLEAN,
                        reconnectAttempts : 0 .. MaxTimers,
                        totalReconnects : 0 .. MaxReconnects, fired : 0 .. MaxTimers]
    BY <2>1, <2>2 DEF Earned, ConnectionState, ReconnectLimits
  <2> QED  BY <1>1, <2>3 DEF ReconnectInv, TimersOK, Sockets!TypeOK
<1> QED  BY <1>1, ReconnectSpec, PTL

\* However timers are replaced, cleared and fire late, a socket's reconnections and the
\* attempts still counted are no more than its timers that fired since its state was made.
THEOREM CountedReconnectsHadAttempts ==
  ASSUME ReconnectLimits PROVE Sockets!Spec => []ReconnectsHadAttempts
<1>1. ReconnectInv => ReconnectsHadAttempts
  BY DEF ReconnectInv, Earned, ReconnectsHadAttempts, Sockets!ReconnectsHadAttempts
<1> QED  BY <1>1, ReconnectSpec, PTL

-----------------------------------------------------------------------------
(* Cache.                                                                    *)

CacheLimits == IsFiniteSet(CacheKeys) /\ maxSize \in Nat

CacheInv ==
    /\ DOMAIN cache \subseteq CacheKeys /\ imports \in Nat
    /\ Cardinality(DOMAIN cache) <= maxSize + imports

LEMMA CacheCount == ASSUME NEW S PROVE Cached!Cardinality(S) = Cardinality(S)
BY DEF Cached!Cardinality, Cardinality

LEMMA KeysAreFinite ==
  ASSUME CacheLimits, NEW K \in SUBSET CacheKeys
  PROVE  /\ IsFiniteSet(K) /\ Cardinality(K) \in Nat
         /\ \A L \in SUBSET K : Cardinality(L) <= Cardinality(K)
BY FS_Subset, FS_CardinalityType DEF CacheLimits

LEMMA OneMore ==
  ASSUME NEW S, IsFiniteSet(S), NEW x
  PROVE  /\ Cardinality(S) \in Nat /\ Cardinality(S \cup {x}) \in Nat
         /\ Cardinality(S \cup {x}) <= Cardinality(S) + 1
<1>1. /\ IsFiniteSet(S \cup {x})
      /\ Cardinality(S \cup {x}) = IF x \in S THEN Cardinality(S) ELSE Cardinality(S) + 1
  BY FS_AddElement
<1>2. Cardinality(S) \in Nat
  BY FS_CardinalityType
<1> QED  BY <1>1, <1>2

\* set makes room before it adds, so that it leaves no more entries than there were, or
\* than there may be.
LEMMA SetEffect ==
  ASSUME CacheLimits, NEW c, DOMAIN c \subseteq CacheKeys, NEW k \in CacheKeys, NEW ttl,
         NEW d \in Cached!Set(c, k, ttl)
  PROVE  /\ DOMAIN d \subseteq CacheKeys
         /\ \/ Cardinality(DOMAIN d) <= Cardinality(DOMAIN c)
            \/ Cardinality(DOMAIN d) <= maxSize
<1>1. PICK b \in IF Cardinality(DOMAIN c) >= maxSize THEN Cached!evictOldest(c) ELSE {c} :
        DOMAIN d = DOMAIN b \cup {k}
  BY CacheCount DEF Cached!Set, Cached!With
<1>2. /\ IsFiniteSet(DOMAIN c) /\ Cardinality(DOMAIN c) \in Nat /\ maxSize \in Nat
  BY KeysAreFinite DEF CacheLimits
<1>3. CASE Cardinality(DOMAIN c) >= maxSize
  <2>1. PICK o \in DOMAIN c : DOMAIN b = DOMAIN c \ {o}
    BY <1>1, <1>3 DEF Cached!evictOldest, Cached!Without, Cached!Restrict
  <2>2. /\ IsFiniteSet(DOMAIN b) /\ Cardinality(DOMAIN b) = Cardinality(DOMAIN c) - 1
    BY <1>2, <2>1, FS_RemoveElement
  <2>3. Cardinality(DOMAIN d) <= Cardinality(DOMAIN b) + 1
    BY <1>1, <2>2, OneMore
  <2> QED  BY <1>1, <1>2, <2>1, <2>2, <2>3
<1>4. CASE Cardinality(DOMAIN c) < maxSize
  <2>1. b = c
    BY <1>1, <1>2, <1>4
  <2>2. Cardinality(DOMAIN d) <= Cardinality(DOMAIN c) + 1 /\ Cardinality(DOMAIN d) \in Nat
    BY <1>1, <1>2, <2>1, OneMore
  <2> QED  BY <1>1, <1>2, <1>4, <2>1, <2>2
<1> QED  BY <1>2, <1>3, <1>4

LEMMA StoredStep ==
  ASSUME CacheLimits, CacheInv, NEW k \in CacheKeys, NEW ttl, cache' \in Cached!Set(cache, k, ttl),
         imports' = imports
  PROVE  CacheInv'
<1>1. /\ DOMAIN cache' \subseteq CacheKeys
      /\ \/ Cardinality(DOMAIN cache') <= Cardinality(DOMAIN cache)
         \/ Cardinality(DOMAIN cache') <= maxSize
  BY SetEffect DEF CacheInv
<1>2. /\ Cardinality(DOMAIN cache') \in Nat /\ Cardinality(DOMAIN cache) \in Nat
      /\ maxSize \in Nat
  BY <1>1, KeysAreFinite DEF CacheInv, CacheLimits
<1> QED  BY <1>1, <1>2 DEF CacheInv

\* No key is added.
LEMMA FewerKeysStep ==
  ASSUME CacheLimits, CacheInv, DOMAIN cache' \subseteq DOMAIN cache, imports' = imports
  PROVE  CacheInv'
<1>1. /\ Cardinality(DOMAIN cache') <= Cardinality(DOMAIN cache)
      /\ Cardinality(DOMAIN cache') \in Nat /\ Cardinality(DOMAIN cache) \in Nat
      /\ maxSize \in Nat
  BY KeysAreFinite DEF CacheInv, CacheLimits
<1> QED  BY <1>1 DEF CacheInv

LEMMA ImportStep ==
  ASSUME CacheLimits, CacheInv, NEW k \in CacheKeys, NEW e, Cached!import(k, e)
  PROVE  CacheInv'
<1>1. /\ DOMAIN cache' = DOMAIN cache \cup {k}
      /\ imports' = IF k \in DOMAIN cache THEN imports ELSE imports + 1
  BY DEF Cached!import, Cached!With
<1>2. IsFiniteSet(DOMAIN cache) /\ Cardinality(DOMAIN cache) \in Nat /\ maxSize \in Nat
  BY KeysAreFinite DEF CacheInv, CacheLimits
<1>3. Cardinality(DOMAIN cache') =
        IF k \in DOMAIN cache THEN Cardinality(DOMAIN cache) ELSE Cardinality(DOMAIN cache) + 1
  BY <1>1, <1>2, FS_AddElement
<1> QED  BY <1>1, <1>2, <1>3 DEF CacheInv

LEMMA CacheNext ==
  ASSUME CacheLimits, CacheInv, [Cached!Next]_(Cached!vars)
  PROVE  CacheInv'
<1>1. ASSUME NEW k \in CacheKeys, NEW ttl \in Ttls,
             Cached!set(k, ttl) \/ Cached!Fill(k, ttl) \/ Cached!updateTTL(k, ttl)
      PROVE  CacheInv'
  <2>1. CASE Cached!set(k, ttl) \/ Cached!Fill(k, ttl)
    BY <2>1, StoredStep DEF Cached!set, Cached!Fill
  <2>2. CASE Cached!updateTTL(k, ttl)
    BY <2>2, FewerKeysStep DEF Cached!updateTTL
  <2> QED  BY <1>1, <2>1, <2>2
<1>2. CASE \E k \in CacheKeys :
             \/ Cached!get(k) \/ Cached!getOrSet(k) \/ Cached!FillFails(k)
             \/ \E e \in Cached!CacheEntry(cacheTime) : Cached!import(k, e)
  BY <1>2, ImportStep, FewerKeysStep
  DEF Cached!get, Cached!getOrSet, Cached!FillFails, Cached!Without, Cached!Restrict
<1>3. CASE (\E ks \in SUBSET CacheKeys : Cached!deleteMany(ks)) \/ Cached!cleanup
  BY <1>3, FewerKeysStep DEF Cached!deleteMany, Cached!cleanup, Cached!Without, Cached!Restrict
<1>4. CASE Cached!clear
  <2>1. DOMAIN cache' \subseteq DOMAIN cache /\ imports' = imports
    BY <1>4, NoneKept DEF Cached!clear
  <2> QED  BY <2>1, FewerKeysStep
<1>5. CASE Cached!Tick \/ UNCHANGED Cached!vars
  BY <1>5 DEF Cached!Tick, Cached!vars, CacheInv
<1> QED  BY <1>1, <1>2, <1>3, <1>4, <1>5 DEF Cached!Next

LEMMA CacheSpec == ASSUME CacheLimits PROVE Cached!Spec => []CacheInv
<1>1. Cached!Init => CacheInv
  <2>1. Cardinality({}) = 0
    BY FS_EmptySet
  <2> QED  BY <2>1, NoneKept DEF Cached!Init, CacheInv, CacheLimits
<1>2. CacheInv /\ [Cached!Next]_(Cached!vars) => CacheInv'
  BY CacheNext
<1> QED  BY <1>1, <1>2, PTL DEF Cached!Spec

\* However factories overlap and end, and whatever is set, deleted or revived meanwhile, the
\* cache holds no more entries than maxSize and those that import has added.
THEOREM CacheStaysWithinSize ==
  ASSUME CacheLimits PROVE Cached!Spec => []OnlyImportsOverfill
<1>1. CacheInv => OnlyImportsOverfill
  BY CacheCount DEF CacheInv, OnlyImportsOverfill, Cached!OnlyImportsOverfill
<1> QED  BY <1>1, CacheSpec, PTL

\* The times and the counts of the cache.
CacheTimes ==
    /\ Ttls \subseteq Nat /\ defaultTTL \in Nat /\ MaxFills \in Nat /\ MaxCacheTime \in Nat

CacheTyped ==
    /\ \A k \in DOMAIN cache : cache[k] \in Cached!CacheEntry(cacheTime)
    /\ filling \in [CacheKeys -> 0 .. MaxFills]
    /\ imports <= Cardinality(CacheKeys) /\ cacheTime \in 0 .. MaxCacheTime

\* What set stores is an entry of now, beside entries there were.
LEMMA SetTyped ==
  ASSUME CacheTimes, CacheTyped, NEW k, NEW ttl \in Ttls, NEW d \in Cached!Set(cache, k, ttl)
  PROVE  \A x \in DOMAIN d : d[x] \in Cached!CacheEntry(cacheTime)
<1>1. PICK e, l : l = (IF ttl = 0 THEN defaultTTL ELSE ttl)
                  /\ e = [createdAt |-> cacheTime, expiresAt |-> cacheTime + l]
  OBVIOUS
<1>2. e \in Cached!CacheEntry(cacheTime)
  <2>1. l \in Ttls \cup {defaultTTL} /\ cacheTime \in 0 .. cacheTime
    BY <1>1 DEF CacheTimes, CacheTyped
  <2> QED  BY <1>1, <2>1 DEF Cached!CacheEntry
<1>3. PICK b \in IF Cached!Cardinality(DOMAIN cache) >= maxSize THEN Cached!evictOldest(cache) ELSE {cache} :
        d = Cached!With(b, k, e)
  BY <1>1 DEF Cached!Set
<1>4. DOMAIN b \subseteq DOMAIN cache /\ \A x \in DOMAIN b : b[x] = cache[x]
  BY <1>3 DEF Cached!evictOldest, Cached!Without, Cached!Restrict
<1> QED  BY <1>2, <1>3, <1>4 DEF Cached!With, CacheTyped

LEMMA CacheTypedNext ==
  ASSUME CacheLimits, CacheTimes, CacheInv, CacheTyped, [Cached!Next]_(Cached!vars)
  PROVE  CacheTyped'
<1>0. /\ cacheTime \in Nat /\ MaxCacheTime \in Nat /\ MaxFills \in Nat
      /\ imports \in Nat /\ Cardinality(CacheKeys) \in Nat
  BY FS_CardinalityType DEF CacheTimes, CacheTyped, CacheInv, CacheLimits
\* What the fillings become.
<1>f. ASSUME NEW k \in CacheKeys, NEW n \in 0 .. MaxFills, filling' = [filling EXCEPT ![k] = n]
      PROVE  filling' \in [CacheKeys -> 0 .. MaxFills]
  BY <1>f DEF CacheTyped
\* Some entries go, the others stay.
<1>w. ASSUME NEW ks, cache' = Cached!Without(cache, ks)
      PROVE  \A x \in DOMAIN cache' : cache'[x] \in Cached!CacheEntry(cacheTime)
  BY <1>w DEF Cached!Without, Cached!Restrict, CacheTyped
<1>1. ASSUME NEW k \in CacheKeys, NEW ttl \in Ttls,
             Cached!set(k, ttl) \/ Cached!Fill(k, ttl)
      PROVE  CacheTyped'
  <2>1. \A x \in DOMAIN cache' : cache'[x] \in Cached!CacheEntry(cacheTime)
    BY <1>1, SetTyped DEF Cached!set, Cached!Fill
  <2>2. filling' \in [CacheKeys -> 0 .. MaxFills]
    <3>1. CASE Cached!set(k, ttl)
      BY <3>1 DEF Cached!set, CacheTyped
    <3>2. CASE Cached!Fill(k, ttl)
      <4>1. filling[k] \in 0 .. MaxFills /\ filling[k] > 0
        BY <3>2 DEF Cached!Fill, CacheTyped
      <4>2. filling[k] - 1 \in 0 .. MaxFills
        BY <1>0, <4>1
      <4> QED  BY <1>f, <3>2, <4>2 DEF Cached!Fill
    <3> QED  BY <1>1, <3>1, <3>2
  <2>3. UNCHANGED <<imports, cacheTime>>
    BY <1>1 DEF Cached!set, Cached!Fill
  <2> QED  BY <2>1, <2>2, <2>3 DEF CacheTyped
<1>2. ASSUME NEW k \in CacheKeys, NEW ttl \in Ttls, Cached!updateTTL(k, ttl) PROVE CacheTyped'
  <2>1. /\ k \in DOMAIN cache /\ UNCHANGED <<filling, imports, cacheTime>>
        /\ cache' = [cache EXCEPT ![k].expiresAt = cacheTime + ttl]
    BY <1>2 DEF Cached!updateTTL
  <2>2. PICK e : e = cache[k]
    OBVIOUS
  <2>3. e.createdAt \in 0 .. cacheTime /\ e \in Cached!CacheEntry(cacheTime)
    BY <2>1, <2>2 DEF CacheTyped, Cached!CacheEntry
  <2>4. [e EXCEPT !.expiresAt = cacheTime + ttl] \in Cached!CacheEntry(cacheTime)
    <3>1. cacheTime \in 0 .. cacheTime
      BY <1>0
    <3>2. PICK n : n = cacheTime + ttl
      OBVIOUS
    <3>3. n \in {at + l : at \in 0 .. cacheTime, l \in Ttls \cup {defaultTTL}}
      BY <3>1, <3>2
    <3> QED  BY <2>3, <3>2, <3>3 DEF Cached!CacheEntry
  <2>5. \A x \in DOMAIN cache' : cache'[x] \in Cached!CacheEntry(cacheTime)
    BY <2>1, <2>2, <2>4 DEF CacheTyped
  <2> QED  BY <2>1, <2>5 DEF CacheTyped
<1>3. ASSUME NEW k \in CacheKeys, Cached!get(k) \/ Cached!getOrSet(k) \/ Cached!FillFails(k)
      PROVE  CacheTyped'
  <2>1. \A x \in DOMAIN cache' : cache'[x] \in Cached!CacheEntry(cacheTime)
    <3>1. CASE Cached!get(k) \/ Cached!getOrSet(k)
      BY <1>w, <3>1 DEF Cached!get, Cached!getOrSet
    <3>2. CASE Cached!FillFails(k)
      BY <3>2 DEF Cached!FillFails, CacheTyped
    <3> QED  BY <1>3, <3>1, <3>2
  <2>2. filling' \in [CacheKeys -> 0 .. MaxFills]
    <3>1. filling[k] \in 0 .. MaxFills /\ filling \in [CacheKeys -> 0 .. MaxFills]
      BY DEF CacheTyped
    <3>2. CASE Cached!get(k)
      BY <3>1, <3>2 DEF Cached!get
    <3>3. CASE Cached!getOrSet(k)
      <4>1. filling[k] + 1 \in 0 .. MaxFills
        BY <1>0, <3>1, <3>3 DEF Cached!getOrSet
      <4> QED  BY <1>f, <3>3, <4>1 DEF Cached!getOrSet
    <3>4. CASE Cached!FillFails(k)
      <4>1. filling[k] - 1 \in 0 .. MaxFills
        BY <1>0, <3>1, <3>4 DEF Cached!FillFails
      <4> QED  BY <1>f, <3>4, <4>1 DEF Cached!FillFails
    <3> QED  BY <1>3, <3>2, <3>3, <3>4
  <2>3. UNCHANGED <<imports, cacheTime>>
    BY <1>3 DEF Cached!get, Cached!getOrSet, Cached!FillFails
  <2> QED  BY <2>1, <2>2, <2>3 DEF CacheTyped
<1>4. ASSUME NEW k \in CacheKeys, NEW e \in Cached!CacheEntry(cacheTime), Cached!import(k, e)
      PROVE  CacheTyped'
  <2>1. \A x \in DOMAIN cache' : cache'[x] \in Cached!CacheEntry(cacheTime)
    BY <1>4 DEF Cached!import, Cached!With, CacheTyped
  <2>2. imports' <= Cardinality(CacheKeys)
    <3>1. imports < Cardinality(CacheKeys) /\ (imports' = imports \/ imports' = imports + 1)
      BY <1>4, CacheCount DEF Cached!import
    <3> QED  BY <1>0, <3>1
  <2>3. UNCHANGED <<filling, cacheTime>>
    BY <1>4 DEF Cached!import
  <2> QED  BY <2>1, <2>2, <2>3 DEF CacheTyped
<1>5. CASE (\E ks \in SUBSET CacheKeys : Cached!deleteMany(ks)) \/ Cached!cleanup \/ Cached!clear
  <2>1. \A x \in DOMAIN cache' : cache'[x] \in Cached!CacheEntry(cacheTime)
    <3>1. CASE Cached!clear
      BY <3>1, NoneKept DEF Cached!clear
    <3>2. CASE ~Cached!clear
      BY <1>5, <1>w, <3>2 DEF Cached!deleteMany, Cached!cleanup
    <3> QED  BY <3>1, <3>2
  <2>2. UNCHANGED <<filling, imports, cacheTime>>
    BY <1>5 DEF Cached!deleteMany, Cached!cleanup, Cached!clear
  <2> QED  BY <2>1, <2>2 DEF CacheTyped
<1>6. CASE Cached!Tick
  <2>1. cacheTime < MaxCacheTime /\ cacheTime' = cacheTime + 1 /\ UNCHANGED <<cache, filling, imports>>
    BY <1>6 DEF Cached!Tick
  <2>2. cacheTime' \in 0 .. MaxCacheTime
    BY <1>0, <2>1
  <2>3. Cached!CacheEntry(cacheTime) \subseteq Cached!CacheEntry(cacheTime')
    <3>1. 0 .. cacheTime \subseteq 0 .. cacheTime'
      BY <1>0, <2>1
    <3> QED  BY <3>1 DEF Cached!CacheEntry
  <2> QED  BY <2>1, <2>2, <2>3 DEF CacheTyped
<1>7. CASE UNCHANGED Cached!vars
  BY <1>7 DEF Cached!vars, CacheTyped
<1> QED  BY <1>1, <1>2, <1>3, <1>4, <1>5, <1>6, <1>7 DEF Cached!Next

\* Every entry was created, and given the time to live that somebody asked for, at times
\* there have been, and no key has more calls waiting for its factory than there may be.
THEOREM CacheTypeCorrect ==
  ASSUME CacheLimits, CacheTimes PROVE Cached!Spec => []Cached!TypeOK
<1>1. Cached!Init => CacheTyped
  BY NoneKept, FS_CardinalityType DEF Cached!Init, CacheTyped, CacheTimes, CacheLimits
<1>2. CacheInv /\ CacheTyped /\ [Cached!Next]_(Cached!vars) => CacheTyped'
  BY CacheTypedNext
<1>3. ASSUME CacheInv, CacheTyped PROVE Cached!TypeOK
  <2>1. imports \in 0 .. Cached!Cardinality(CacheKeys)
    BY <1>3, CacheCount, FS_CardinalityType DEF CacheInv, CacheTyped, CacheLimits
  <2> QED  BY <1>3, <2>1 DEF Cached!TypeOK, CacheInv, CacheTyped
<1> QED  BY <1>1, <1>2, <1>3, CacheSpec, PTL DEF Cached!Spec

-----------------------------------------------------------------------------
(* Scheduler.                                                                *)

\* An hour and a day are not empty, and a pattern has a number or a star for each of both.
SchedulerLimits ==
    /\ MaxTasks \in Nat /\ MaxTaskTimers \in Nat /\ MaxTaskTime \in Nat
    /\ HourLength \in Nat \ {0} /\ DayLength \in Nat \ {0}
    /\ CronPatterns \subseteq (Nat \cup {Tasks!Star}) \X (Nat \cup {Tasks!Star})

\* The ids of the one-time tasks whose handlers run.
OnceRuns(rs) == {rs[i].id : i \in {j \in DOMAIN rs : rs[j].kind = "once"}}

TasksOK ==
    /\ objects \in Seq(Tasks!ScheduledTask) /\ Len(objects) <= MaxTasks
    /\ DOMAIN tasks \subseteq TaskIds /\ \A id \in DOMAIN tasks : tasks[id] \in 1 .. Len(objects)
    /\ \A i, j \in DOMAIN tasks : tasks[i] = tasks[j] => i = j
    /\ runs \in Seq(Tasks!Work) /\ schedulerRuns \in BOOLEAN /\ clock \in 0 .. MaxTaskTime

TaskTimersOK ==
    /\ started \in Seq(Tasks!Work) /\ live \subseteq 1 .. Len(started)
    /\ DOMAIN taskTimers \subseteq TaskIds
    /\ \A id \in DOMAIN taskTimers :
          taskTimers[id] \in 1 .. Len(started) /\ started[taskTimers[id]].id = id

\* A timer's task is under no other id than the timer's.
OwnTimers ==
    \A n \in 1 .. Len(started) :
        /\ started[n].task \in 1 .. Len(objects)
        /\ \A id \in DOMAIN tasks : tasks[id] = started[n].task => started[n].id = id

ActiveOK ==
    \A id \in DOMAIN tasks :
        objects[tasks[id]].enabled =>
            id \in DOMAIN taskTimers /\ (taskTimers[id] \in live \/ id \in OnceRuns(runs))

SchedulerInv == TasksOK /\ TaskTimersOK /\ OwnTimers /\ ActiveOK

LEMMA IsSeq ==
  ASSUME NEW S, NEW n \in Nat, NEW f \in [1 .. n -> S]
  PROVE  f \in Seq(S) /\ Len(f) = n
OBVIOUS

LEMMA NextRun ==
  ASSUME SchedulerLimits, NEW p \in CronPatterns \cup {Tasks!NoPattern}, NEW t \in Nat
  PROVE  Tasks!getNextCronRun(p, t) \in Nat
<1>1. p[1] \in Nat \cup {Tasks!Star} /\ p[2] \in Nat \cup {Tasks!Star}
  BY DEF SchedulerLimits, Tasks!NoPattern
<1>2. ASSUME NEW target \in Nat, NEW cycle \in Nat \ {0}
      PROVE  Tasks!NextAt(target, cycle, t) \in Nat
  <2>1. t \div cycle \in Nat
    OBVIOUS
  <2>2. (t \div cycle) * cycle \in Nat
    BY <2>1
  <2> QED  BY <2>2 DEF Tasks!NextAt
<1>3. CASE p[1] \in Nat /\ p[2] \in Nat
  <2>1. p[2] * HourLength + p[1] \in Nat
    BY <1>3 DEF SchedulerLimits
  <2> QED  BY <1>2, <1>3, <2>1 DEF SchedulerLimits, Tasks!getNextCronRun, Tasks!Star
<1> QED  BY <1>1, <1>2, <1>3 DEF SchedulerLimits, Tasks!getNextCronRun, Tasks!Star

LEMMA Enabling ==
  ASSUME NEW o \in Tasks!ScheduledTask, NEW b \in BOOLEAN
  PROVE  /\ [o EXCEPT !.enabled = b] \in Tasks!ScheduledTask
         /\ [o EXCEPT !.enabled = b].enabled = b
BY DEF Tasks!ScheduledTask

LEMMA OnceRunsAppend ==
  ASSUME NEW S, NEW rs \in Seq(S), NEW w
  PROVE  /\ OnceRuns(rs) \subseteq OnceRuns(Append(rs, w))
         /\ w.kind = "once" => w.id \in OnceRuns(Append(rs, w))
<1>1. /\ \A i \in DOMAIN rs : i \in DOMAIN Append(rs, w) /\ Append(rs, w)[i] = rs[i]
      /\ Len(rs) + 1 \in DOMAIN Append(rs, w) /\ Append(rs, w)[Len(rs) + 1] = w
  OBVIOUS
<1> DEFINE t == Append(rs, w)
<1> HIDE DEF t
<1> QED  BY <1>1 DEF OnceRuns, t

LEMMA Joined ==
  ASSUME NEW S, NEW a \in Seq(S), NEW b \in Seq(S)
  PROVE  /\ a \o b \in Seq(S) /\ Len(a \o b) = Len(a) + Len(b)
         /\ \A j \in 1 .. Len(a) : (a \o b)[j] = a[j]
         /\ \A j \in 1 .. Len(b) : (a \o b)[Len(a) + j] = b[j]
OBVIOUS

LEMMA OnceRunsRemove ==
  ASSUME NEW S, NEW rs \in Seq(S), NEW i \in DOMAIN rs
  PROVE  /\ Tasks!RemoveAt(rs, i) \in Seq(S)
         /\ \A id \in OnceRuns(rs) : \/ id \in OnceRuns(Tasks!RemoveAt(rs, i))
                                     \/ rs[i].kind = "once" /\ rs[i].id = id
<1> DEFINE a == SubSeq(rs, 1, i - 1)
           b == SubSeq(rs, i + 1, Len(rs))
           t == a \o b
<1>1. Tasks!RemoveAt(rs, i) = t
  BY DEF Tasks!RemoveAt
<1>2. i \in 1 .. Len(rs) /\ Len(rs) \in Nat /\ i - 1 \in Nat
  OBVIOUS
<1>3. /\ a \in Seq(S) /\ Len(a) = i - 1
      /\ \A j \in 1 .. i - 1 : a[j] = rs[j]
  BY <1>2
<1>4. /\ b \in Seq(S) /\ Len(b) = Len(rs) - i
      /\ \A j \in 1 .. Len(rs) - i : b[j] = rs[i + j]
  BY <1>2
<1> HIDE DEF a, b
<1>8. /\ t \in Seq(S) /\ Len(t) = Len(a) + Len(b)
      /\ \A j \in 1 .. Len(a) : t[j] = a[j]
      /\ \A j \in 1 .. Len(b) : t[Len(a) + j] = b[j]
  <2>1. a \in Seq(S) /\ b \in Seq(S)
    BY <1>3, <1>4
  <2> QED  BY <2>1, Joined
<1> HIDE DEF t
<1>5. Len(t) = Len(rs) - 1 /\ DOMAIN t = 1 .. Len(rs) - 1
  BY <1>2, <1>3, <1>4, <1>8
<1>6. ASSUME NEW j \in DOMAIN rs, j # i
      PROVE  \E k \in DOMAIN t : t[k] = rs[j]
  <2>1. CASE j < i
    <3>1. j \in 1 .. i - 1 /\ j \in DOMAIN t
      BY <1>2, <1>5, <2>1
    <3>2. t[j] = a[j]
      BY <1>3, <1>8, <3>1
    <3> QED  BY <1>3, <3>1, <3>2
  <2>2. CASE j > i
    <3>1. j - i \in 1 .. Len(rs) - i /\ j - 1 \in DOMAIN t /\ j - 1 = (i - 1) + (j - i)
      BY <1>2, <1>5, <2>2
    <3>2. t[j - 1] = b[j - i]
      BY <1>3, <1>4, <1>8, <3>1
    <3>3. i + (j - i) = j
      BY <1>2
    <3> QED  BY <1>4, <3>1, <3>2, <3>3
  <2> QED  BY <1>2, <1>6, <2>1, <2>2
<1>7. \A id \in OnceRuns(rs) : id \in OnceRuns(t) \/ (rs[i].kind = "once" /\ rs[i].id = id)
  BY <1>6 DEF OnceRuns
<1> QED  BY <1>1, <1>8, <1>7

\* No task, timer or entry of the maps is new, and what is active still has what it had.
LEMMA FewerTasksStep ==
  ASSUME SchedulerInv, objects' \in Seq(Tasks!ScheduledTask), Len(objects') = Len(objects),
         DOMAIN tasks' \subseteq DOMAIN tasks, \A id \in DOMAIN tasks' : tasks'[id] = tasks[id],
         DOMAIN taskTimers' \subseteq DOMAIN taskTimers,
         \A id \in DOMAIN taskTimers' : taskTimers'[id] = taskTimers[id],
         started' = started, live' \subseteq live, runs' \in Seq(Tasks!Work),
         schedulerRuns' \in BOOLEAN, clock' \in 0 .. MaxTaskTime,
         \A id \in DOMAIN tasks' :
            objects'[tasks[id]].enabled =>
               /\ objects[tasks[id]].enabled /\ id \in DOMAIN taskTimers'
               /\ taskTimers[id] \in live => taskTimers[id] \in live' \/ id \in OnceRuns(runs')
               /\ id \in OnceRuns(runs) => id \in OnceRuns(runs')
  PROVE  SchedulerInv'
<1>1. TasksOK'
  BY DEF SchedulerInv, TasksOK
<1>2. TaskTimersOK'
  BY DEF SchedulerInv, TaskTimersOK
<1>3. OwnTimers'
  BY DEF SchedulerInv, OwnTimers
<1>4. ActiveOK'
  BY DEF SchedulerInv, ActiveOK
<1> QED  BY <1>1, <1>2, <1>3, <1>4 DEF SchedulerInv

\* A timer is started for a task of its own id, in the place of the id's last one.
LEMMA TimerStarted ==
  ASSUME SchedulerLimits, SchedulerInv, NEW id \in TaskIds, NEW kind \in Tasks!Kinds,
         NEW task \in 1 .. MaxTasks, Tasks!StartTimer(id, kind, task)
  PROVE  /\ TaskTimersOK' /\ Len(started') = Len(started) + 1
         /\ started'[Len(started) + 1].task = task /\ started'[Len(started) + 1].id = id
         /\ \A n \in 1 .. Len(started) : started'[n] = started[n]
         /\ id \in DOMAIN taskTimers' /\ taskTimers'[id] \in live'
         /\ \A x \in DOMAIN taskTimers : x \in DOMAIN taskTimers' /\ (x # id => taskTimers'[x] = taskTimers[x])
         /\ live \subseteq live'
<1> DEFINE n == Len(started) + 1
           new == [id |-> id, kind |-> kind, task |-> task]
<1>1. /\ started' = Append(started, new) /\ live' = live \cup {n}
      /\ DOMAIN taskTimers' = DOMAIN taskTimers \cup {id} /\ taskTimers'[id] = n
      /\ \A x \in DOMAIN taskTimers : x # id => taskTimers'[x] = taskTimers[x]
  BY DEF Tasks!StartTimer, Tasks!Put
<1>2. new \in Tasks!Work /\ new.task = task /\ new.id = id
  BY DEF Tasks!Work
<1>3. started \in Seq(Tasks!Work) /\ Len(started) \in Nat
  BY DEF SchedulerInv, TaskTimersOK
<1> HIDE DEF new
<1>4. /\ started' \in Seq(Tasks!Work) /\ Len(started') = n /\ started'[n] = new
      /\ \A m \in 1 .. Len(started) : started'[m] = started[m]
  BY <1>1, <1>2, <1>3
<1>5. 1 .. Len(started') = 1 .. Len(started) \cup {n}
  BY <1>3, <1>4
<1>6. TaskTimersOK'
  BY <1>1, <1>2, <1>4, <1>5 DEF SchedulerInv, TaskTimersOK
<1> QED  BY <1>1, <1>2, <1>4, <1>6

LEMMA ScheduleStep ==
  ASSUME SchedulerLimits, SchedulerInv, NEW id \in TaskIds, NEW kind \in Tasks!Kinds,
         NEW p \in CronPatterns \cup {Tasks!NoPattern}, Tasks!Schedule(id, kind, p)
  PROVE  SchedulerInv'
<1> DEFINE o == Len(objects) + 1
           new == [kind |-> kind, pattern |-> p, enabled |-> TRUE,
                   nextRun |-> IF kind = "cron" THEN Tasks!getNextCronRun(p, clock) ELSE 0]
<1>1. /\ Len(objects) < MaxTasks /\ objects' = Append(objects, new)
      /\ DOMAIN tasks' = DOMAIN tasks \cup {id} /\ tasks'[id] = o
      /\ \A x \in DOMAIN tasks : x # id => tasks'[x] = tasks[x]
      /\ Tasks!StartTimer(id, kind, o)
      /\ runs' = runs /\ schedulerRuns' = schedulerRuns /\ clock' = clock
  BY DEF Tasks!Schedule, Tasks!Put
<1>2. objects \in Seq(Tasks!ScheduledTask) /\ Len(objects) \in Nat /\ clock \in Nat
  BY DEF SchedulerInv, TasksOK, SchedulerLimits
<1>3. new \in Tasks!ScheduledTask
  <2>1. (IF kind = "cron" THEN Tasks!getNextCronRun(p, clock) ELSE 0) \in Nat
    BY <1>2, NextRun
  <2>2. TRUE \in BOOLEAN
    OBVIOUS
  <2> QED  BY <2>1, <2>2, Zenon DEF Tasks!ScheduledTask
<1> HIDE DEF new
<1>4. /\ objects' \in Seq(Tasks!ScheduledTask) /\ Len(objects') = o /\ o \in 1 .. MaxTasks
      /\ \A x \in 1 .. Len(objects) : objects'[x] = objects[x]
      /\ 1 .. Len(objects') = 1 .. Len(objects) \cup {o} /\ o \notin 1 .. Len(objects)
  BY <1>1, <1>2, <1>3 DEF SchedulerLimits
<1>5. /\ TaskTimersOK' /\ Len(started') = Len(started) + 1
      /\ started'[Len(started) + 1].task = o /\ started'[Len(started) + 1].id = id
      /\ \A n \in 1 .. Len(started) : started'[n] = started[n]
      /\ id \in DOMAIN taskTimers' /\ taskTimers'[id] \in live'
      /\ \A x \in DOMAIN taskTimers : x \in DOMAIN taskTimers' /\ (x # id => taskTimers'[x] = taskTimers[x])
      /\ live \subseteq live'
  BY <1>1, <1>4, TimerStarted
<1> HIDE DEF o
<1>6. TasksOK'
  BY <1>1, <1>4 DEF SchedulerInv, TasksOK, SchedulerLimits
<1>7. OwnTimers'
  <2>1. Len(started) \in Nat
    BY DEF SchedulerInv, TaskTimersOK
  <2>2. ASSUME NEW n \in 1 .. Len(started)
        PROVE  /\ started'[n].task \in 1 .. Len(objects')
               /\ \A x \in DOMAIN tasks' : tasks'[x] = started'[n].task => started'[n].id = x
    <3>1. started'[n] = started[n] /\ started[n].task \in 1 .. Len(objects)
      BY <1>5 DEF SchedulerInv, OwnTimers
    <3> QED  BY <1>1, <1>4, <3>1 DEF SchedulerInv, OwnTimers
  <2>3. \A x \in DOMAIN tasks' : tasks'[x] = o => x = id
    BY <1>1, <1>4 DEF SchedulerInv, TasksOK
  <2>4. 1 .. Len(started') = 1 .. Len(started) \cup {Len(started) + 1}
    BY <1>5, <2>1
  <2> QED  BY <1>4, <1>5, <2>2, <2>3, <2>4 DEF OwnTimers
<1>8. ActiveOK'
  <2>1. ASSUME NEW x \in DOMAIN tasks, x # id, objects'[tasks'[x]].enabled
        PROVE  x \in DOMAIN taskTimers' /\ (taskTimers'[x] \in live' \/ x \in OnceRuns(runs'))
    <3>1. objects[tasks[x]].enabled
      BY <1>1, <1>4, <2>1 DEF SchedulerInv, TasksOK
    <3> QED  BY <1>1, <1>5, <2>1, <3>1 DEF SchedulerInv, ActiveOK
  <2> QED  BY <1>1, <1>5, <2>1 DEF ActiveOK
<1> QED  BY <1>5, <1>6, <1>7, <1>8 DEF SchedulerInv

LEMMA ResumeStep ==
  ASSUME SchedulerLimits, SchedulerInv, NEW id \in TaskIds, Tasks!resume(id)
  PROVE  SchedulerInv'
<1> DEFINE o == tasks[id]
<1>1. PICK kind : /\ kind = (IF objects[o].kind = "cron" THEN "cron" ELSE "interval")
                  /\ id \in DOMAIN tasks /\ objects' = [objects EXCEPT ![o].enabled = TRUE]
                  /\ Tasks!StartTimer(id, kind, o) /\ tasks' = tasks /\ runs' = runs
                  /\ schedulerRuns' = schedulerRuns /\ clock' = clock
  BY DEF Tasks!resume
<1>2. /\ objects \in Seq(Tasks!ScheduledTask) /\ Len(objects) \in Nat /\ o \in 1 .. Len(objects)
      /\ Len(objects) <= MaxTasks /\ objects[o] \in Tasks!ScheduledTask
  BY <1>1 DEF SchedulerInv, TasksOK
<1>3. kind \in Tasks!Kinds /\ o \in 1 .. MaxTasks
  BY <1>1, <1>2 DEF Tasks!Kinds, SchedulerLimits
<1>4. [objects[o] EXCEPT !.enabled = TRUE] \in Tasks!ScheduledTask
  BY <1>2, Enabling, Zenon
<1> DEFINE new == [objects[o] EXCEPT !.enabled = TRUE]
<1>5. objects' = [objects EXCEPT ![o] = new]
  BY <1>1
<1> HIDE DEF new, o
<1>6. /\ objects' \in Seq(Tasks!ScheduledTask) /\ Len(objects') = Len(objects)
      /\ \A x \in 1 .. Len(objects) : x # o => objects'[x] = objects[x]
  BY <1>2, <1>4, <1>5 DEF new
<1>7. /\ TaskTimersOK' /\ Len(started') = Len(started) + 1
      /\ started'[Len(started) + 1].task = o /\ started'[Len(started) + 1].id = id
      /\ \A n \in 1 .. Len(started) : started'[n] = started[n]
      /\ id \in DOMAIN taskTimers' /\ taskTimers'[id] \in live'
      /\ \A x \in DOMAIN taskTimers : x \in DOMAIN taskTimers' /\ (x # id => taskTimers'[x] = taskTimers[x])
      /\ live \subseteq live'
  BY <1>1, <1>3, TimerStarted
<1>8. TasksOK'
  BY <1>1, <1>6 DEF SchedulerInv, TasksOK
<1>9. \A x \in DOMAIN tasks : tasks[x] = o => x = id
  BY <1>1 DEF SchedulerInv, TasksOK, o
<1>10. OwnTimers'
  <2>1. Len(started) \in Nat
    BY DEF SchedulerInv, TaskTimersOK
  <2>2. 1 .. Len(started') = 1 .. Len(started) \cup {Len(started) + 1}
    BY <1>7, <2>1
  <2> QED  BY <1>1, <1>2, <1>6, <1>7, <1>9, <2>2 DEF SchedulerInv, OwnTimers
<1>11. ActiveOK'
  <2>1. ASSUME NEW x \in DOMAIN tasks, x # id, objects'[tasks[x]].enabled
        PROVE  x \in DOMAIN taskTimers' /\ (taskTimers'[x] \in live' \/ x \in OnceRuns(runs'))
    <3>1. objects[tasks[x]].enabled
      BY <1>6, <1>9, <2>1 DEF SchedulerInv, TasksOK
    <3> QED  BY <1>1, <1>7, <2>1, <3>1 DEF SchedulerInv, ActiveOK
  <2> QED  BY <1>1, <1>7, <2>1 DEF ActiveOK
<1> QED  BY <1>7, <1>8, <1>10, <1>11 DEF SchedulerInv

\* What follows a run: a one-time task goes, with its timer's entry; no other one changes
\* but in the time of its next run.
LEMMA AfterRunEffect ==
  ASSUME SchedulerLimits, SchedulerInv, NEW w, Tasks!AfterRun(w)
  PROVE  /\ objects' \in Seq(Tasks!ScheduledTask) /\ Len(objects') = Len(objects)
         /\ \A o \in 1 .. Len(objects) : objects'[o].enabled = objects[o].enabled
         /\ \A id \in DOMAIN tasks' :
               id \in DOMAIN tasks /\ tasks'[id] = tasks[id] /\ ~(w.kind = "once" /\ w.id = id)
         /\ \A id \in DOMAIN taskTimers' : id \in DOMAIN taskTimers /\ taskTimers'[id] = taskTimers[id]
         /\ \A id \in DOMAIN taskTimers :
               id \in DOMAIN taskTimers' \/ (w.kind = "once" /\ w.id = id)
<1>1. objects \in Seq(Tasks!ScheduledTask) /\ Len(objects) \in Nat /\ clock \in Nat
  BY DEF SchedulerInv, TasksOK, SchedulerLimits
<1>2. /\ objects' \in Seq(Tasks!ScheduledTask) /\ Len(objects') = Len(objects)
      /\ \A o \in 1 .. Len(objects) : objects'[o].enabled = objects[o].enabled
  <2>1. CASE w.kind # "cron" \/ w.task \notin 1 .. Len(objects)
    <3>1. objects' = objects
      BY <1>1, <2>1 DEF Tasks!AfterRun
    <3> QED  BY <1>1, <3>1
  <2>2. CASE w.kind = "cron" /\ w.task \in 1 .. Len(objects)
    <3> DEFINE o == objects[w.task]
               time == Tasks!getNextCronRun(o.pattern, clock)
               new == [o EXCEPT !.nextRun = time]
    <3>1. objects' = [objects EXCEPT ![w.task] = new]
      BY <2>2 DEF Tasks!AfterRun
    <3>2. o \in Tasks!ScheduledTask
      BY <1>1, <2>2
    <3>3. time \in Nat
      <4>1. o.pattern \in CronPatterns \cup {Tasks!NoPattern}
        BY <3>2 DEF Tasks!ScheduledTask
      <4> QED  BY <1>1, <4>1, NextRun
    <3> HIDE DEF o, time
    <3>4. new \in Tasks!ScheduledTask /\ new.enabled = o.enabled
      BY <3>2, <3>3 DEF Tasks!ScheduledTask
    <3> HIDE DEF new
    <3> QED  BY <1>1, <2>2, <3>1, <3>4 DEF o
  <2> QED  BY <2>1, <2>2
<1>3. \A id \in DOMAIN tasks' :
         id \in DOMAIN tasks /\ tasks'[id] = tasks[id] /\ ~(w.kind = "once" /\ w.id = id)
  BY DEF Tasks!AfterRun, Tasks!Drop
<1>4. /\ \A id \in DOMAIN taskTimers' : id \in DOMAIN taskTimers /\ taskTimers'[id] = taskTimers[id]
      /\ \A id \in DOMAIN taskTimers : id \in DOMAIN taskTimers' \/ (w.kind = "once" /\ w.id = id)
  BY DEF Tasks!AfterRun, Tasks!Drop
<1> QED  BY <1>2, <1>3, <1>4

\* A task runs, or its id is gone; of the timers only one of the id's own may have ended,
\* and then a handler runs for the id.
LEMMA ExecuteStep ==
  ASSUME SchedulerLimits, SchedulerInv, NEW w, w.id \in TaskIds,
         w.kind \in Tasks!Kinds \cup {"now"},
         w = [id |-> w.id, kind |-> w.kind, task |-> w.task],
         Tasks!executeTask(w), live' \subseteq live,
         \A n \in live \ live' : w.kind = "once" /\ started[n].id = w.id
  PROVE  SchedulerInv'
<1>1. started' = started /\ schedulerRuns' \in BOOLEAN /\ clock' \in 0 .. MaxTaskTime
  BY DEF Tasks!executeTask, SchedulerInv, TasksOK
<1>2. /\ objects \in Seq(Tasks!ScheduledTask) /\ runs \in Seq(Tasks!Work)
      /\ \A id \in DOMAIN tasks : tasks[id] \in 1 .. Len(objects)
      /\ Len(objects) \in Nat /\ Len(objects) <= MaxTasks
  BY DEF SchedulerInv, TasksOK
<1>3. \A id \in DOMAIN taskTimers : taskTimers[id] \in live \ live' => w.kind = "once" /\ w.id = id
  BY DEF SchedulerInv, TaskTimersOK
<1>4. CASE w.id \in DOMAIN tasks
  <2> DEFINE run == [w EXCEPT !.task = tasks[w.id]]
  <2>1. runs' = Append(runs, run) /\ UNCHANGED <<objects, tasks, taskTimers>>
    BY <1>4 DEF Tasks!executeTask
  <2>2. run = [id |-> w.id, kind |-> w.kind, task |-> tasks[w.id]]
    OBVIOUS
  <2>3. tasks[w.id] \in 1 .. MaxTasks
    BY <1>2, <1>4 DEF SchedulerLimits
  <2>4. run \in Tasks!Work /\ run.kind = w.kind /\ run.id = w.id
    BY <2>2, <2>3 DEF Tasks!Work
  <2> HIDE DEF run
  <2>5. /\ runs' \in Seq(Tasks!Work) /\ OnceRuns(runs) \subseteq OnceRuns(runs')
        /\ w.kind = "once" => w.id \in OnceRuns(runs')
    BY <1>2, <2>1, <2>4, OnceRunsAppend
  <2>6. \A id \in DOMAIN tasks : objects[tasks[id]].enabled => id \in DOMAIN taskTimers
    BY DEF SchedulerInv, ActiveOK
  <2> QED  BY <1>1, <1>2, <1>3, <2>1, <2>5, <2>6, FewerTasksStep
<1>5. CASE w.id \notin DOMAIN tasks
  <2>1. Tasks!AfterRun(w) /\ runs' = runs
    BY <1>5 DEF Tasks!executeTask
  <2>2. /\ objects' \in Seq(Tasks!ScheduledTask) /\ Len(objects') = Len(objects)
        /\ \A o \in 1 .. Len(objects) : objects'[o].enabled = objects[o].enabled
        /\ \A id \in DOMAIN tasks' :
               id \in DOMAIN tasks /\ tasks'[id] = tasks[id] /\ ~(w.kind = "once" /\ w.id = id)
        /\ \A id \in DOMAIN taskTimers' : id \in DOMAIN taskTimers /\ taskTimers'[id] = taskTimers[id]
        /\ \A id \in DOMAIN taskTimers :
               id \in DOMAIN taskTimers' \/ (w.kind = "once" /\ w.id = id)
    BY <2>1, AfterRunEffect
  <2>3. ASSUME NEW id \in DOMAIN tasks', objects'[tasks[id]].enabled
        PROVE  /\ objects[tasks[id]].enabled /\ id \in DOMAIN taskTimers'
               /\ taskTimers[id] \in live => taskTimers[id] \in live'
    <3>1. objects[tasks[id]].enabled /\ id \in DOMAIN tasks
      BY <1>2, <2>2, <2>3
    <3>2. id \in DOMAIN taskTimers
      BY <3>1 DEF SchedulerInv, ActiveOK
    <3> QED  BY <1>3, <2>2, <3>1, <3>2
  <2> QED  BY <1>1, <1>2, <2>1, <2>2, <2>3, FewerTasksStep
<1> QED  BY <1>4, <1>5

LEMMA FireStep ==
  ASSUME SchedulerLimits, SchedulerInv, NEW n, n \in live, Tasks!Fire(n)
  PROVE  SchedulerInv'
<1> DEFINE w == started[n]
<1>1. /\ live' = (IF w.kind = "once" THEN live \ {n} ELSE live)
      /\ Tasks!executeTask(w)
  BY DEF Tasks!Fire
<1>2. w \in Tasks!Work
  BY DEF SchedulerInv, TaskTimersOK
<1>3. /\ w.id \in TaskIds /\ w.kind \in Tasks!Kinds \cup {"now"}
      /\ w = [id |-> w.id, kind |-> w.kind, task |-> w.task]
  BY <1>2 DEF Tasks!Work
<1>4. live' \subseteq live /\ \A m \in live \ live' : w.kind = "once" /\ m = n
  BY <1>1
<1> QED  BY <1>1, <1>3, <1>4, ExecuteStep

LEMMA RunNowStep ==
  ASSUME SchedulerLimits, SchedulerInv, NEW id \in TaskIds, Tasks!runNow(id)
  PROVE  SchedulerInv'
<1> DEFINE w == [id |-> id, kind |-> "now", task |-> 1]
<1>1. Tasks!executeTask(w) /\ live' = live
  BY DEF Tasks!runNow
<1>2. /\ w.id \in TaskIds /\ w.kind \in Tasks!Kinds \cup {"now"}
      /\ w = [id |-> w.id, kind |-> w.kind, task |-> w.task]
  OBVIOUS
<1> HIDE DEF w
<1> QED  BY <1>1, <1>2, ExecuteStep

LEMMA FinishStep ==
  ASSUME SchedulerLimits, SchedulerInv, NEW i, Tasks!Finish(i)
  PROVE  SchedulerInv'
<1> DEFINE w == runs[i]
<1>1. /\ i \in DOMAIN runs /\ Tasks!AfterRun(w) /\ runs' = Tasks!RemoveAt(runs, i)
      /\ started' = started /\ live' = live /\ schedulerRuns' = schedulerRuns /\ clock' = clock
  BY DEF Tasks!Finish
<1>2. /\ runs \in Seq(Tasks!Work) /\ schedulerRuns \in BOOLEAN /\ clock \in 0 .. MaxTaskTime
      /\ \A id \in DOMAIN tasks : tasks[id] \in 1 .. Len(objects)
  BY DEF SchedulerInv, TasksOK
<1>3. /\ runs' \in Seq(Tasks!Work)
      /\ \A id \in OnceRuns(runs) : id \in OnceRuns(runs') \/ (w.kind = "once" /\ w.id = id)
  BY <1>1, <1>2, OnceRunsRemove
<1> HIDE DEF w
<1>4. /\ objects' \in Seq(Tasks!ScheduledTask) /\ Len(objects') = Len(objects)
      /\ \A o \in 1 .. Len(objects) : objects'[o].enabled = objects[o].enabled
      /\ \A id \in DOMAIN tasks' :
             id \in DOMAIN tasks /\ tasks'[id] = tasks[id] /\ ~(w.kind = "once" /\ w.id = id)
      /\ \A id \in DOMAIN taskTimers' : id \in DOMAIN taskTimers /\ taskTimers'[id] = taskTimers[id]
      /\ \A id \in DOMAIN taskTimers : id \in DOMAIN taskTimers' \/ (w.kind = "once" /\ w.id = id)
  BY <1>1, AfterRunEffect
<1>5. ASSUME NEW id \in DOMAIN tasks', objects'[tasks[id]].enabled
      PROVE  /\ objects[tasks[id]].enabled /\ id \in DOMAIN taskTimers'
             /\ id \in OnceRuns(runs) => id \in OnceRuns(runs')
  <2>1. objects[tasks[id]].enabled /\ id \in DOMAIN tasks
    BY <1>2, <1>4, <1>5
  <2>2. id \in DOMAIN taskTimers
    BY <2>1 DEF SchedulerInv, ActiveOK
  <2> QED  BY <1>3, <1>4, <2>1, <2>2
<1> QED  BY <1>1, <1>2, <1>3, <1>4, <1>5, FewerTasksStep

\* The tasks of some ids are disabled and their timers cleared, and they may be forgotten.
LEMMA StopStep ==
  ASSUME SchedulerInv, NEW ids, Tasks!Stop(ids), started' = started, runs' = runs,
         clock' = clock, schedulerRuns' \in BOOLEAN, DOMAIN tasks' \subseteq DOMAIN tasks,
         \A id \in DOMAIN tasks' : tasks'[id] = tasks[id]
  PROVE  SchedulerInv'
<1>1. /\ live' = live \ {taskTimers[id] : id \in ids \cap DOMAIN taskTimers}
      /\ DOMAIN taskTimers' = DOMAIN taskTimers \ ids
      /\ \A id \in DOMAIN taskTimers' : taskTimers'[id] = taskTimers[id]
      /\ objects' = Tasks!Disabled(ids)
  BY DEF Tasks!Stop
<1>2. /\ objects \in Seq(Tasks!ScheduledTask) /\ Len(objects) \in Nat /\ runs \in Seq(Tasks!Work)
      /\ \A id \in DOMAIN tasks : tasks[id] \in 1 .. Len(objects)
      /\ clock \in 0 .. MaxTaskTime
  BY DEF SchedulerInv, TasksOK
<1> DEFINE off(o) == [objects[o] EXCEPT !.enabled = FALSE]
           stopped(o) == \E id \in ids \cap DOMAIN tasks : tasks[id] = o
<1>3. \A o \in 1 .. Len(objects) : off(o) \in Tasks!ScheduledTask /\ off(o).enabled = FALSE
  <2>1. \A o \in 1 .. Len(objects) : objects[o] \in Tasks!ScheduledTask
    BY <1>2
  <2>2. FALSE \in BOOLEAN
    OBVIOUS
  <2> QED  BY <2>1, <2>2, Enabling, Zenon
<1>4. objects' = [o \in 1 .. Len(objects) |-> IF stopped(o) THEN off(o) ELSE objects[o]]
  <2>1. DOMAIN objects = 1 .. Len(objects)
    BY <1>2
  <2> QED  BY <1>1, <2>1, Zenon DEF Tasks!Disabled
<1> HIDE DEF off, stopped
<1>5. objects' \in [1 .. Len(objects) -> Tasks!ScheduledTask]
  <2>1. \A o \in 1 .. Len(objects) : objects[o] \in Tasks!ScheduledTask
    BY <1>2
  <2> QED  BY <1>3, <1>4, <2>1
<1>6. objects' \in Seq(Tasks!ScheduledTask) /\ Len(objects') = Len(objects)
  BY <1>2, <1>5, IsSeq
<1>7. ASSUME NEW id \in DOMAIN tasks', objects'[tasks[id]].enabled
      PROVE  /\ objects[tasks[id]].enabled /\ id \in DOMAIN taskTimers'
             /\ taskTimers[id] \in live => taskTimers[id] \in live'
  <2>1. ~stopped(tasks[id])
    BY <1>2, <1>3, <1>4, <1>7
  <2>2. id \notin ids
    BY <2>1 DEF stopped
  <2>3. objects[tasks[id]].enabled
    BY <1>2, <1>4, <1>7, <2>1
  <2>4. id \in DOMAIN taskTimers
    BY <2>3 DEF SchedulerInv, ActiveOK
  <2>5. \A x \in ids \cap DOMAIN taskTimers : taskTimers[x] # taskTimers[id]
    BY <2>2, <2>4 DEF SchedulerInv, TaskTimersOK
  <2> QED  BY <1>1, <2>2, <2>3, <2>4, <2>5
<1> QED  BY <1>1, <1>2, <1>6, <1>7, FewerTasksStep

LEMMA SchedulerNext ==
  ASSUME SchedulerLimits, SchedulerInv, [Tasks!Next]_(Tasks!vars)
  PROVE  SchedulerInv'
<1>0. schedulerRuns \in BOOLEAN /\ TRUE \in BOOLEAN /\ FALSE \in BOOLEAN
  BY DEF SchedulerInv, TasksOK
<1>1. ASSUME NEW id \in TaskIds, \/ \E p \in CronPatterns : Tasks!Schedule(id, "cron", p)
                             \/ \E kind \in {"interval", "once"} :
                                   Tasks!Schedule(id, kind, Tasks!NoPattern)
      PROVE  SchedulerInv'
  BY <1>1, ScheduleStep DEF Tasks!Kinds
<1>2. ASSUME NEW id \in TaskIds, Tasks!stop(id) PROVE SchedulerInv'
  BY <1>0, <1>2, StopStep DEF Tasks!stop
<1>3. ASSUME NEW id \in TaskIds, Tasks!remove(id) PROVE SchedulerInv'
  <2>1. DOMAIN tasks' \subseteq DOMAIN tasks /\ \A x \in DOMAIN tasks' : tasks'[x] = tasks[x]
    BY <1>3 DEF Tasks!remove, Tasks!Drop
  <2> QED  BY <1>0, <1>3, <2>1, StopStep DEF Tasks!remove
<1>4. ASSUME NEW id \in TaskIds, Tasks!resume(id) \/ Tasks!runNow(id) PROVE SchedulerInv'
  BY <1>4, ResumeStep, RunNowStep
<1>5. ASSUME NEW n \in live, Tasks!Fire(n) PROVE SchedulerInv'
  BY <1>5, FireStep
<1>6. ASSUME NEW i, Tasks!Finish(i) PROVE SchedulerInv'
  BY <1>6, FinishStep
<1>7. CASE Tasks!stopAll
  BY <1>0, <1>7, StopStep DEF Tasks!stopAll
<1>8. CASE Tasks!onModuleDestroy
  <2>1. schedulerRuns' \in BOOLEAN
    BY <1>8, Zenon DEF Tasks!onModuleDestroy
  <2> QED  BY <1>8, <2>1, StopStep DEF Tasks!onModuleDestroy
<1>9. CASE Tasks!onModuleInit
  <2>1. schedulerRuns' \in BOOLEAN
    BY <1>9, Zenon DEF Tasks!onModuleInit
  <2>2. UNCHANGED <<objects, tasks, taskTimers, started, live, runs, clock>>
    BY <1>9 DEF Tasks!onModuleInit
  <2> QED  BY <2>1, <2>2 DEF SchedulerInv, TasksOK, TaskTimersOK, OwnTimers, ActiveOK
<1>10. CASE Tasks!Tick
  <2>1. /\ clock' \in 0 .. MaxTaskTime
        /\ UNCHANGED <<objects, tasks, taskTimers, started, live, runs, schedulerRuns>>
    BY <1>10 DEF Tasks!Tick, SchedulerInv, TasksOK, SchedulerLimits
  <2> QED  BY <2>1 DEF SchedulerInv, TasksOK, TaskTimersOK, OwnTimers, ActiveOK
<1>11. CASE UNCHANGED Tasks!vars
  BY <1>11 DEF Tasks!vars, SchedulerInv, TasksOK, TaskTimersOK, OwnTimers, ActiveOK
<1> QED  BY <1>1, <1>2, <1>3, <1>4, <1>5, <1>6, <1>7, <1>8, <1>9, <1>10, <1>11 DEF Tasks!Next

LEMMA SchedulerSpec == ASSUME SchedulerLimits PROVE Tasks!Spec => []SchedulerInv
<1>1. Tasks!Init => SchedulerInv
  <2> SUFFICES ASSUME Tasks!Init PROVE SchedulerInv
    OBVIOUS
  <2>1. /\ objects = <<>> /\ tasks = <<>> /\ taskTimers = <<>> /\ started = <<>> /\ live = {}
        /\ runs = <<>> /\ clock = 0
    BY DEF Tasks!Init
  <2>2. schedulerRuns \in BOOLEAN
    BY Zenon DEF Tasks!Init
  <2> QED  BY <2>1, <2>2
           DEF SchedulerInv, TasksOK, TaskTimersOK, OwnTimers, ActiveOK, SchedulerLimits
<1>2. SchedulerInv /\ [Tasks!Next]_(Tasks!vars) => SchedulerInv'
  BY SchedulerNext
<1> QED  BY <1>1, <1>2, PTL DEF Tasks!Spec

\* Task objects, the maps and the timers keep their types, whatever ids are used again.
THEOREM SchedulerTypeCorrect == ASSUME SchedulerLimits PROVE Tasks!Spec => []Tasks!TypeOK
<1>1. SchedulerInv => Tasks!TypeOK
  BY DEF SchedulerInv, TasksOK, TaskTimersOK, Tasks!TypeOK
<1> QED  BY <1>1, SchedulerSpec, PTL

\* Whatever is scheduled, stopped, resumed and removed while timers fire and handlers run,
\* a task shown as active has a timer that the map knows and that will fire, or it is a
\* one-time task whose handler is running.
THEOREM ActiveTasksHaveTimers ==
  ASSUME SchedulerLimits PROVE Tasks!Spec => []ActiveTaskHasTimer
<1>1. SchedulerInv => ActiveTaskHasTimer
  BY DEF SchedulerInv, ActiveOK, OnceRuns, ActiveTaskHasTimer, Tasks!ActiveTaskHasTimer,
         Tasks!getActiveTasks
<1> QED  BY <1>1, SchedulerSpec, PTL

\* A timer that the map has lost starts nothing for a task once it is stopped: its task is
\* under its own id, and would have a timer in the map if it were active.
THEOREM StoppedTasksAreQuiet ==
  ASSUME SchedulerLimits PROVE Tasks!Spec => []StoppedIsQuiet
<1>1. ASSUME SchedulerInv PROVE StoppedIsQuiet
  <2> SUFFICES ASSUME NEW n \in live, NEW id \in DOMAIN tasks, tasks[id] = started[n].task,
                      started[n].id \notin DOMAIN taskTimers
               PROVE  ~objects[started[n].task].enabled
    BY DEF StoppedIsQuiet, Tasks!StoppedIsQuiet
  <2>1. started[n].id = id
    BY <1>1 DEF SchedulerInv, TaskTimersOK, OwnTimers
  <2> QED  BY <1>1, <2>1 DEF SchedulerInv, ActiveOK
<1> QED  BY <1>1, SchedulerSpec, PTL

-----------------------------------------------------------------------------
(* Routes.                                                                   *)

RouteLimits ==
    /\ Host \in Accounts /\ Routed!Nobody \notin Accounts /\ MaxRouteChanges \in Nat

-----------------------------------------------------------------------------
(* The table of routes.                                                      *)

\* What the properties need of a route: what only the host may do asks for its role.
RouteOK(r) ==
    /\ r.guard \subseteq Routed!UserRole /\ r.ok \in {200, 201, 204}
    /\ r.needs = "signature" => r.guard = Routed!Public
    /\ r.needs \in Routed!Own => r.guard = Routed!ForHost

\* One of the routes that are declared.
InTable(q) ==
    \/ q \in {Routed!HealthRoutes[1]}
    \/ q \in {Routed!SignInRoutes[1], Routed!SignInRoutes[2]}
    \/ q \in {Routed!SessionReads[1], Routed!SessionReads[2], Routed!SessionReads[3],
             Routed!SessionReads[4]}
    \/ q \in {Routed!SessionRoutes[1], Routed!SessionRoutes[2], Routed!SessionRoutes[3],
             Routed!SessionRoutes[4], Routed!SessionRoutes[5]}
    \/ q \in {Routed!UserRoutes[1]}
    \/ q \in {Routed!EventRoutes[1], Routed!EventRoutes[2], Routed!EventRoutes[3],
             Routed!EventRoutes[4]}
    \/ q \in {Routed!JudgeRoutes[1], Routed!JudgeRoutes[2], Routed!JudgeRoutes[3],
             Routed!JudgeRoutes[4]}
    \/ q \in {Routed!EventListRoutes[1], Routed!EventListRoutes[2], Routed!EventListRoutes[3],
             Routed!EventListRoutes[4], Routed!EventListRoutes[5], Routed!EventListRoutes[6],
             Routed!EventListRoutes[7]}
    \/ q \in {Routed!EventStatusRoutes[1], Routed!EventStatusRoutes[2],
             Routed!EventStatusRoutes[3], Routed!EventStatusRoutes[4]}
    \/ q \in {Routed!SubmissionRoutes[1], Routed!SubmissionRoutes[2]}
    \/ q \in {Routed!JudgingRoutes[1]}
    \/ q \in {Routed!JobRoutes[1], Routed!JobRoutes[2], Routed!JobRoutes[3]}
    \/ q \in {Routed!WalletRoutes[1], Routed!WalletRoutes[2], Routed!WalletRoutes[3],
             Routed!WalletRoutes[4], Routed!WalletRoutes[5], Routed!WalletRoutes[6]}

RoutesOK(s) == (\E S : s \in Seq(S)) /\ 1 \in DOMAIN s /\ \A n \in DOMAIN s : RouteOK(s[n]) /\ InTable(s[n])

LEMMA RoutesJoin ==
  ASSUME NEW s, NEW t, RoutesOK(s), RoutesOK(t)
  PROVE  RoutesOK(s \o t)
<1>1. PICK S, T : s \in Seq(S) /\ t \in Seq(T)
  BY DEF RoutesOK
<1>2. s \o t \in Seq(S \cup T)
  BY <1>1
<1>3. \A n \in DOMAIN (s \o t) :
         \/ n \in DOMAIN s /\ (s \o t)[n] = s[n]
         \/ \E m \in DOMAIN t : (s \o t)[n] = t[m]
  BY <1>1
<1>4. \A n \in DOMAIN (s \o t) : RouteOK((s \o t)[n]) /\ InTable((s \o t)[n])
  BY <1>3 DEF RoutesOK
<1>5. 1 \in DOMAIN (s \o t)
  <2>1. 1 \in DOMAIN s
    BY DEF RoutesOK
  <2> QED  BY <1>1, <2>1
<1> QED  BY <1>2, <1>4, <1>5 DEF RoutesOK

LEMMA TableOK == RoutesOK(Routed!Table)
<1>1. RoutesOK(Routed!HealthRoutes)
  <2> DEFINE S == {Routed!HealthRoutes[1]}
  <2>1. Routed!HealthRoutes \in Seq(S) /\ DOMAIN Routed!HealthRoutes = {1}
    BY DEF Routed!HealthRoutes
  <2>2. /\ RouteOK(Routed!HealthRoutes[1])
    BY DEF Routed!HealthRoutes, RouteOK, Routed!R, Routed!Own, Routed!Edits, Routed!Public,
           Routed!SignedIn, Routed!ForHost, Routed!ForHostOrJudge, Routed!UserRole
  <2> QED  BY <2>1, <2>2 DEF RoutesOK, InTable
<1>2. RoutesOK(Routed!SignInRoutes)
  <2> DEFINE S == {Routed!SignInRoutes[1], Routed!SignInRoutes[2]}
  <2>1. Routed!SignInRoutes \in Seq(S) /\ DOMAIN Routed!SignInRoutes = {1, 2}
    BY DEF Routed!SignInRoutes
  <2>2. /\ RouteOK(Routed!SignInRoutes[1]) /\ RouteOK(Routed!SignInRoutes[2])
    BY DEF Routed!SignInRoutes, RouteOK, Routed!R, Routed!Own, Routed!Edits, Routed!Public,
           Routed!SignedIn, Routed!ForHost, Routed!ForHostOrJudge, Routed!UserRole
  <2> QED  BY <2>1, <2>2 DEF RoutesOK, InTable
<1>3. RoutesOK(Routed!SessionReads)
  <2> DEFINE S == {Routed!SessionReads[1], Routed!SessionReads[2], Routed!SessionReads[3],
                   Routed!SessionReads[4]}
  <2>1. Routed!SessionReads \in Seq(S) /\ DOMAIN Routed!SessionReads = {1, 2, 3, 4}
    BY DEF Routed!SessionReads
  <2>2. /\ RouteOK(Routed!SessionReads[1]) /\ RouteOK(Routed!SessionReads[2]) /\ RouteOK(Routed!SessionReads[3])
         /\ RouteOK(Routed!SessionReads[4])
    BY DEF Routed!SessionReads, RouteOK, Routed!R, Routed!Own, Routed!Edits, Routed!Public,
           Routed!SignedIn, Routed!ForHost, Routed!ForHostOrJudge, Routed!UserRole
  <2> QED  BY <2>1, <2>2 DEF RoutesOK, InTable
<1>4. RoutesOK(Routed!SessionRoutes)
  <2> DEFINE S == {Routed!SessionRoutes[1], Routed!SessionRoutes[2], Routed!SessionRoutes[3],
                   Routed!SessionRoutes[4]
          , Routed!SessionRoutes[5]}
  <2>1. Routed!SessionRoutes \in Seq(S) /\ DOMAIN Routed!SessionRoutes = {1, 2, 3, 4, 5}
    BY DEF Routed!SessionRoutes
  <2>2. /\ RouteOK(Routed!SessionRoutes[1]) /\ RouteOK(Routed!SessionRoutes[2]) /\ RouteOK(Routed!SessionRoutes[3])
         /\ RouteOK(Routed!SessionRoutes[4]) /\ RouteOK(Routed!SessionRoutes[5])
    BY DEF Routed!SessionRoutes, RouteOK, Routed!R, Routed!Own, Routed!Edits, Routed!Public,
           Routed!SignedIn, Routed!ForHost, Routed!ForHostOrJudge, Routed!UserRole
  <2> QED  BY <2>1, <2>2 DEF RoutesOK, InTable
<1>5. RoutesOK(Routed!UserRoutes)
  <2> DEFINE S == {Routed!UserRoutes[1]}
  <2>1. Routed!UserRoutes \in Seq(S) /\ DOMAIN Routed!UserRoutes = {1}
    BY DEF Routed!UserRoutes
  <2>2. /\ RouteOK(Routed!UserRoutes[1])
    BY DEF Routed!UserRoutes, RouteOK, Routed!R, Routed!Own, Routed!Edits, Routed!Public,
           Routed!SignedIn, Routed!ForHost, Routed!ForHostOrJudge, Routed!UserRole
  <2> QED  BY <2>1, <2>2 DEF RoutesOK, InTable
<1>6. RoutesOK(Routed!EventRoutes)
  <2> DEFINE S == {Routed!EventRoutes[1], Routed!EventRoutes[2], Routed!EventRoutes[3],
                   Routed!EventRoutes[4]}
  <2>1. Routed!EventRoutes \in Seq(S) /\ DOMAIN Routed!EventRoutes = {1, 2, 3, 4}
    BY DEF Routed!EventRoutes
  <2>2. /\ RouteOK(Routed!EventRoutes[1]) /\ RouteOK(Routed!EventRoutes[2]) /\ RouteOK(Routed!EventRoutes[3])
         /\ RouteOK(Routed!EventRoutes[4])
    BY DEF Routed!EventRoutes, RouteOK, Routed!R, Routed!Own, Routed!Edits, Routed!Public,
           Routed!SignedIn, Routed!ForHost, Routed!ForHostOrJudge, Routed!UserRole
  <2> QED  BY <2>1, <2>2 DEF RoutesOK, InTable
<1>7. RoutesOK(Routed!JudgeRoutes)
  <2> DEFINE S == {Routed!JudgeRoutes[1], Routed!JudgeRoutes[2], Routed!JudgeRoutes[3],
                   Routed!JudgeRoutes[4]}
  <2>1. Routed!JudgeRoutes \in Seq(S) /\ DOMAIN Routed!JudgeRoutes = {1, 2, 3, 4}
    BY DEF Routed!JudgeRoutes
  <2>2. /\ RouteOK(Routed!JudgeRoutes[1]) /\ RouteOK(Routed!JudgeRoutes[2]) /\ RouteOK(Routed!JudgeRoutes[3])
         /\ RouteOK(Routed!JudgeRoutes[4])
    BY DEF Routed!JudgeRoutes, RouteOK, Routed!R, Routed!Own, Routed!Edits, Routed!Public,
           Routed!SignedIn, Routed!ForHost, Routed!ForHostOrJudge, Routed!UserRole
  <2> QED  BY <2>1, <2>2 DEF RoutesOK, InTable
<1>8. RoutesOK(Routed!EventListRoutes)
  <2> DEFINE S == {Routed!EventListRoutes[1], Routed!EventListRoutes[2],
                   Routed!EventListRoutes[3], Routed!EventListRoutes[4]
          , Routed!EventListRoutes[5], Routed!EventListRoutes[6], Routed!EventListRoutes[7]}
  <2>1. Routed!EventListRoutes \in Seq(S) /\ DOMAIN Routed!EventListRoutes = {1, 2, 3, 4, 5, 6, 7}
    BY DEF Routed!EventListRoutes
  <2>2. /\ RouteOK(Routed!EventListRoutes[1]) /\ RouteOK(Routed!EventListRoutes[2])
         /\ RouteOK(Routed!EventListRoutes[3]) /\ RouteOK(Routed!EventListRoutes[4])
         /\ RouteOK(Routed!EventListRoutes[5]) /\ RouteOK(Routed!EventListRoutes[6])
         /\ RouteOK(Routed!EventListRoutes[7])
    BY DEF Routed!EventListRoutes, RouteOK, Routed!R, Routed!Own, Routed!Edits, Routed!Public,
           Routed!SignedIn, Routed!ForHost, Routed!ForHostOrJudge, Routed!UserRole
  <2> QED  BY <2>1, <2>2 DEF RoutesOK, InTable
<1>9. RoutesOK(Routed!EventStatusRoutes)
  <2> DEFINE S == {Routed!EventStatusRoutes[1], Routed!EventStatusRoutes[2],
                   Routed!EventStatusRoutes[3]
          , Routed!EventStatusRoutes[4]}
  <2>1. Routed!EventStatusRoutes \in Seq(S) /\ DOMAIN Routed!EventStatusRoutes = {1, 2, 3, 4}
    BY DEF Routed!EventStatusRoutes
  <2>2. /\ RouteOK(Routed!EventStatusRoutes[1]) /\ RouteOK(Routed!EventStatusRoutes[2])
         /\ RouteOK(Routed!EventStatusRoutes[3]) /\ RouteOK(Routed!EventStatusRoutes[4])
    BY DEF Routed!EventStatusRoutes, RouteOK, Routed!R, Routed!Own, Routed!Edits, Routed!Public,
           Routed!SignedIn, Routed!ForHost, Routed!ForHostOrJudge, Routed!UserRole
  <2> QED  BY <2>1, <2>2 DEF RoutesOK, InTable
<1>10. RoutesOK(Routed!SubmissionRoutes)
  <2> DEFINE S == {Routed!SubmissionRoutes[1], Routed!SubmissionRoutes[2]}
  <2>1. Routed!SubmissionRoutes \in Seq(S) /\ DOMAIN Routed!SubmissionRoutes = {1, 2}
    BY DEF Routed!SubmissionRoutes
  <2>2. /\ RouteOK(Routed!SubmissionRoutes[1]) /\ RouteOK(Routed!SubmissionRoutes[2])
    BY DEF Routed!SubmissionRoutes, RouteOK, Routed!R, Routed!Own, Routed!Edits, Routed!Public,
           Routed!SignedIn, Routed!ForHost, Routed!ForHostOrJudge, Routed!UserRole
  <2> QED  BY <2>1, <2>2 DEF RoutesOK, InTable
<1>11. RoutesOK(Routed!JudgingRoutes)
  <2> DEFINE S == {Routed!JudgingRoutes[1]}
  <2>1. Routed!JudgingRoutes \in Seq(S) /\ DOMAIN Routed!JudgingRoutes = {1}
    BY DEF Routed!JudgingRoutes
  <2>2. /\ RouteOK(Routed!JudgingRoutes[1])
    BY DEF Routed!JudgingRoutes, RouteOK, Routed!R, Routed!Own, Routed!Edits, Routed!Public,
           Routed!SignedIn, Routed!ForHost, Routed!ForHostOrJudge, Routed!UserRole
  <2> QED  BY <2>1, <2>2 DEF RoutesOK, InTable
<1>12. RoutesOK(Routed!JobRoutes)
  <2> DEFINE S == {Routed!JobRoutes[1], Routed!JobRoutes[2], Routed!JobRoutes[3]}
  <2>1. Routed!JobRoutes \in Seq(S) /\ DOMAIN Routed!JobRoutes = {1, 2, 3}
    BY DEF Routed!JobRoutes
  <2>2. /\ RouteOK(Routed!JobRoutes[1]) /\ RouteOK(Routed!JobRoutes[2]) /\ RouteOK(Routed!JobRoutes[3])
    BY DEF Routed!JobRoutes, RouteOK, Routed!R, Routed!Own, Routed!Edits, Routed!Public,
           Routed!SignedIn, Routed!ForHost, Routed!ForHostOrJudge, Routed!UserRole
  <2> QED  BY <2>1, <2>2 DEF RoutesOK, InTable
<1>13. RoutesOK(Routed!WalletRoutes)
  <2> DEFINE S == {Routed!WalletRoutes[1], Routed!WalletRoutes[2], Routed!WalletRoutes[3],
                   Routed!WalletRoutes[4]
          , Routed!WalletRoutes[5], Routed!WalletRoutes[6]}
  <2>1. Routed!WalletRoutes \in Seq(S) /\ DOMAIN Routed!WalletRoutes = {1, 2, 3, 4, 5, 6}
    BY DEF Routed!WalletRoutes
  <2>2. /\ RouteOK(Routed!WalletRoutes[1]) /\ RouteOK(Routed!WalletRoutes[2]) /\ RouteOK(Routed!WalletRoutes[3])
         /\ RouteOK(Routed!WalletRoutes[4]) /\ RouteOK(Routed!WalletRoutes[5]) /\ RouteOK(Routed!WalletRoutes[6])
    BY DEF Routed!WalletRoutes, RouteOK, Routed!R, Routed!Own, Routed!Edits, Routed!Public,
           Routed!SignedIn, Routed!ForHost, Routed!ForHostOrJudge, Routed!UserRole
  <2> QED  BY <2>1, <2>2 DEF RoutesOK, InTable
<1> QED
  BY <1>1, <1>2, <1>3, <1>4, <1>5, <1>6, <1>7, <1>8, <1>9, <1>10, <1>11, <1>12, <1>13, RoutesJoin
  DEF Routed!Table

\* No route is declared whose URLs would fit another one, but for GET events/search.
OwnRoute(asked, route) == route = asked \/ asked.path = <<"events", "search">>

LEMMA RoutesAreApart ==
  ASSUME NEW asked, InTable(asked), NEW q, InTable(q), Routed!Fits(asked, q)
  PROVE  OwnRoute(asked, q)
<1> USE DEF InTable, OwnRoute, Routed!HealthRoutes, Routed!SignInRoutes,
            Routed!SessionReads, Routed!SessionRoutes, Routed!UserRoutes,
            Routed!EventRoutes, Routed!JudgeRoutes, Routed!EventListRoutes,
            Routed!EventStatusRoutes, Routed!SubmissionRoutes, Routed!JudgingRoutes,
            Routed!JobRoutes, Routed!WalletRoutes, Routed!Fits, Routed!Param, Routed!R
<1>1. CASE asked \in {Routed!HealthRoutes[1]}
  BY <1>1
<1>2. CASE asked \in {Routed!SignInRoutes[1], Routed!SignInRoutes[2]}
  BY <1>2
<1>3. CASE asked \in {Routed!SessionReads[1], Routed!SessionReads[2], Routed!SessionReads[3],
                      Routed!SessionReads[4]}
  BY <1>3
<1>4. CASE asked \in {Routed!SessionRoutes[1], Routed!SessionRoutes[2],
                      Routed!SessionRoutes[3], Routed!SessionRoutes[4], Routed!SessionRoutes[5]}
  BY <1>4
<1>5. CASE asked \in {Routed!UserRoutes[1]}
  BY <1>5
<1>6. CASE asked \in {Routed!EventRoutes[1], Routed!EventRoutes[2], Routed!EventRoutes[3],
                      Routed!EventRoutes[4]}
  BY <1>6
<1>7. CASE asked \in {Routed!JudgeRoutes[1], Routed!JudgeRoutes[2], Routed!JudgeRoutes[3],
                      Routed!JudgeRoutes[4]}
  BY <1>7
<1>8. CASE asked \in {Routed!EventListRoutes[1], Routed!EventListRoutes[2],
                      Routed!EventListRoutes[3], Routed!EventListRoutes[4],
                      Routed!EventListRoutes[5], Routed!EventListRoutes[6],
                      Routed!EventListRoutes[7]}
  BY <1>8
<1>9. CASE asked \in {Routed!EventStatusRoutes[1], Routed!EventStatusRoutes[2],
                      Routed!EventStatusRoutes[3], Routed!EventStatusRoutes[4]}
  BY <1>9
<1>10. CASE asked \in {Routed!SubmissionRoutes[1], Routed!SubmissionRoutes[2]}
  BY <1>10
<1>11. CASE asked \in {Routed!JudgingRoutes[1]}
  BY <1>11
<1>12. CASE asked \in {Routed!JobRoutes[1], Routed!JobRoutes[2], Routed!JobRoutes[3]}
  BY <1>12
<1>13. CASE asked \in {Routed!WalletRoutes[1], Routed!WalletRoutes[2], Routed!WalletRoutes[3],
                       Routed!WalletRoutes[4], Routed!WalletRoutes[5], Routed!WalletRoutes[6]}
  BY <1>13
<1> QED  BY <1>1, <1>2, <1>3, <1>4, <1>5, <1>6, <1>7, <1>8, <1>9, <1>10, <1>11, <1>12, <1>13

LEMMA LeastNumber ==
  ASSUME NEW T, T \subseteq Nat, T # {}
  PROVE  \E n \in T : \A m \in T : n <= m
<1>1. IsWellFoundedOn({ss \in Nat \X Nat : ss[1] < ss[2]}, Nat)
  BY NatLessThanWellFounded DEF OpToRel
<1>2. PICK Less : Less = {ss \in Nat \X Nat : ss[1] < ss[2]}
  OBVIOUS
<1>3. \E n \in T : \A m \in T : ~ (<<m, n>> \in Less)
  BY <1>1, <1>2, WFMin
<1>4. \A m, n \in Nat : m < n => <<m, n>> \in Less
  <2> SUFFICES ASSUME NEW m \in Nat, NEW n \in Nat, m < n PROVE <<m, n>> \in Less
    OBVIOUS
  <2>1. <<m, n>> \in Nat \X Nat /\ <<m, n>>[1] = m /\ <<m, n>>[2] = n
    OBVIOUS
  <2> QED  BY <1>2, <2>1
<1>5. \A m, n \in Nat : m < n \/ n <= m
  OBVIOUS
<1> QED  BY <1>3, <1>4, <1>5

\* A request for a route comes to one of the table.
LEMMA ServedOK ==
  ASSUME NEW asked \in Routed!ToSet(Routed!Table)
  PROVE  RouteOK(Routed!Served(asked)) /\ OwnRoute(asked, Routed!Served(asked))
<1> DEFINE T == {n \in DOMAIN Routed!Table : Routed!Fits(asked, Routed!Table[n])}
<1>1. T \subseteq Nat
  BY TableOK DEF RoutesOK
<1>2. T # {}
  <2>1. PICK n \in DOMAIN Routed!Table : asked = Routed!Table[n]
    BY DEF Routed!ToSet
  <2>2. Routed!Fits(asked, asked)
    BY DEF Routed!Fits
  <2> QED  BY <2>1, <2>2
<1>3. Routed!Min(T) \in T
  BY <1>1, <1>2, LeastNumber DEF Routed!Min
<1>4. InTable(asked)
  BY TableOK DEF Routed!ToSet, RoutesOK
<1>5. /\ RouteOK(Routed!Served(asked)) /\ InTable(Routed!Served(asked))
      /\ Routed!Fits(asked, Routed!Served(asked))
  BY <1>3, TableOK DEF Routed!Served, RoutesOK
<1> QED  BY <1>4, <1>5, RoutesAreApart

-----------------------------------------------------------------------------
(* The inductive invariant.                                                  *)

RouteDocs ==
    /\ roleOf \in [Accounts -> Routed!UserRole \cup {"none"}] /\ eventJudges \subseteq Accounts
    /\ eventThere \in BOOLEAN /\ walletConfig \in {"none", "active", "inactive"} /\ clientThere \in BOOLEAN
RouteHistory ==
    /\ rolesSince \subseteq Routed!UserRole \cup {"none"} /\ routeChanges \in 0 .. MaxRouteChanges
    /\ judgeSinceAsked \in BOOLEAN /\ sameEvent \in BOOLEAN

\* A request is the same one in spite of what its handling has come to.
Handled(r, step, b, fresh, status) ==
    [asked |-> r.asked, route |-> r.route, caller |-> r.caller, id |-> r.id,
     valid |-> r.valid, judge |-> r.judge, step |-> step, isJudge |-> b,
     fresh |-> fresh, status |-> status]

RouteSteps == {"none", "validate", "handler", "save", "isHost", "submission", "event", "answered"}

Fields(r) ==
    /\ r = Handled(r, r.step, r.isJudge, r.fresh, r.status)
    /\ RouteOK(r.route) /\ OwnRoute(r.asked, r.route) /\ r.caller \in Accounts \cup {Routed!Nobody} /\ r.id \in Routed!Ids
    /\ r.judge \in Accounts
    /\ r.valid \in BOOLEAN /\ r.isJudge \in BOOLEAN /\ r.fresh \in BOOLEAN /\ r.step \in RouteSteps

\* The guards have let request r through.
Passed(r) == r.route.guard = Routed!Public \/ rolesSince \cap r.route.guard # {}

\* What is known of a request on its way.
OnItsWay(r) ==
    /\ r.caller \in Accounts => roleOf[r.caller] \in rolesSince
    /\ r.caller \in eventJudges \/ r.isJudge => judgeSinceAsked
    /\ sameEvent => eventThere /\ r.fresh
    /\ r.step = "validate" => r.caller \in Accounts /\ r.route.guard # Routed!Public
    /\ r.step # "validate" => Passed(r)
    /\ r.step = "save" => r.caller = Host /\ r.id = "event" /\ r.route.needs \in Routed!Edits
    /\ r.step \in {"isHost", "submission"} => r.route.needs = "judge"
    /\ r.step = "submission" => r.id = "event" /\ (r.caller = Host \/ judgeSinceAsked)
    /\ r.step = "event" => r.route.needs = "deposit"

\* Only the host can make a successful request, and can tell it is none of the others' fault.
AllIsWell(r) ==
    /\ r.caller = Host /\ rolesSince = {"host"} /\ r.id = "event" /\ r.valid /\ sameEvent
    /\ r.route.needs \in Routed!Edits \cup {"own", "winners"}

\* Request r may be answered with this status.
Right(r, status) ==
    /\ status \in {200, 201, 204, 400, 401, 403, 404, 500}
    /\ status \in {200, 201, 204, 400, 404} => Passed(r)
    /\ status \in {200, 201, 204} =>
         /\ r.route.needs \in Routed!Own => r.caller = Host
         /\ r.route.needs = "judge" => r.caller = Host \/ judgeSinceAsked
         /\ r.route.needs \in Routed!OfEvent \ {"funds", "ObjectId"} => r.id = "event"
    /\ status = 401 \/ (status = 403 /\ r.route.needs \notin Routed!OfEvent)
         => rolesSince = {} \/ ~(rolesSince \subseteq r.route.guard)
    /\ status = 404 /\ r.route.needs \in Routed!OfEvent \ {"judge", "funds"}
         => r.id # "event" \/ ~eventThere
    /\ AllIsWell(r) => status \in {200, 201, 204, 500}

Underway ==
    /\ request.step = "none" => eventThere /\ sameEvent
    /\ request.step \notin {"none", "answered"} => OnItsWay(request)
    /\ request.step = "answered" => Right(request, request.status)

RouteInv == RouteDocs /\ RouteHistory /\ Fields(request) /\ Underway

LEMMA AnswerCodes ==
  /\ Routed!catch("BadRequest") = 400 /\ Routed!catch("Unauthorized") = 401 /\ Routed!catch("Forbidden") = 403
  /\ Routed!catch("NotFound") = 404 /\ Routed!catch("CastError") = 500 /\ Routed!catch("Error") = 500
  /\ Routed!catch("ValidationError") = 500 /\ Routed!catch("DocumentNotFoundError") = 500
  /\ Routed!catch("VersionError") = 500 /\ Routed!catch("BSONError") = 500 /\ Routed!catch("MongoError") = 500
BY DEF Routed!catch, Routed!HttpException

LEMMA RoutesInit == ASSUME RouteLimits, Routed!Init PROVE RouteInv
<1>1. RouteOK(Routed!Table[1])
  BY TableOK DEF RoutesOK
<1>2. Fields(request)
  <2>1. request = Routed!NoRequest
    BY DEF Routed!Init
  <2> QED  BY <1>1, <2>1 DEF Fields, Handled, OwnRoute, Routed!NoRequest, Routed!Request,
                              RouteLimits, Routed!Ids, RouteSteps
<1>3. RouteDocs
  BY DEF Routed!Init, RouteDocs
<1>4. RouteHistory
  <2>1. routeChanges \in 0 .. MaxRouteChanges
    BY DEF Routed!Init, RouteLimits
  <2> QED  BY <2>1 DEF Routed!Init, RouteHistory
<1>5. Underway
  BY DEF Routed!Init, Routed!NoRequest, Routed!Request, Underway
<1> QED  BY <1>2, <1>3, <1>4, <1>5 DEF RouteInv

LEMMA HandledFields ==
  ASSUME NEW r, Fields(r), NEW step \in RouteSteps, NEW b \in BOOLEAN, NEW f \in BOOLEAN, NEW status
  PROVE  LET q == Handled(r, step, b, f, status)
         IN  /\ Fields(q) /\ q.step = step /\ q.isJudge = b /\ q.fresh = f /\ q.status = status
             /\ q.route = r.route /\ q.caller = r.caller /\ q.id = r.id /\ q.valid = r.valid
BY DEF Fields, Handled

\* The ways in which the actions change a request.
LEMMA Changed ==
  ASSUME NEW r, Fields(r), NEW step, NEW b, NEW f, NEW status
  PROVE  /\ Routed!Answered(r, status) = Handled(r, "answered", r.isJudge, r.fresh, status)
         /\ [r EXCEPT !.step = step] = Handled(r, step, r.isJudge, r.fresh, r.status)
         /\ [r EXCEPT !.step = step, !.isJudge = b] = Handled(r, step, b, r.fresh, r.status)
         /\ [r EXCEPT !.fresh = f] = Handled(r, r.step, r.isJudge, f, r.status)
<1>1. PICK asked, route, caller, id, valid, judge, step0, b0, f0, status0 :
        r = [asked |-> asked, route |-> route, caller |-> caller, id |-> id, valid |-> valid,
             judge |-> judge, step |-> step0, isJudge |-> b0, fresh |-> f0, status |-> status0]
  BY DEF Fields, Handled
<1>2. \A x : [r EXCEPT !.step = x] = Handled(r, x, r.isJudge, r.fresh, r.status)
  BY <1>1 DEF Handled
<1>3. [r EXCEPT !.fresh = f] = Handled(r, r.step, r.isJudge, f, r.status)
  BY <1>1 DEF Handled
<1>4. Routed!Answered(r, status) = Handled(r, "answered", r.isJudge, r.fresh, status)
  <2>1. Routed!Answered(r, status) = [[r EXCEPT !.step = "answered"] EXCEPT !.status = status]
    BY DEF Routed!Answered
  <2> QED  BY <1>2, <2>1 DEF Handled
<1>5. [r EXCEPT !.step = step, !.isJudge = b] = Handled(r, step, b, r.fresh, r.status)
  <2>1. [r EXCEPT !.step = step, !.isJudge = b] = [[r EXCEPT !.step = step] EXCEPT !.isJudge = b]
    OBVIOUS
  <2>2. [Handled(r, step, r.isJudge, r.fresh, r.status) EXCEPT !.isJudge = b]
          = Handled(r, step, b, r.fresh, r.status)
    BY DEF Handled
  <2> QED  BY <1>2, <2>1, <2>2
<1> QED  BY <1>2, <1>3, <1>4, <1>5

\* A request on its way is answered.
LEMMA AnswerStep ==
  ASSUME RouteInv, Routed!Waiting, NEW status, request' = Routed!Answered(request, status),
         Right(request, status), RouteDocs', UNCHANGED Routed!history,
         eventThere' = eventThere \/ status # 404
  PROVE  RouteInv'
<1>1. PICK q : q = request
  OBVIOUS
<1>2. PICK r : r = Handled(q, "answered", q.isJudge, q.fresh, status)
  OBVIOUS
<1>3. Fields(q)
  BY <1>1 DEF RouteInv
<1>4. request' = r
  BY <1>1, <1>2, <1>3, Changed
<1>5. /\ Fields(r) /\ r.step = "answered" /\ r.status = status
      /\ r.route = q.route /\ r.caller = q.caller /\ r.id = q.id /\ r.valid = q.valid
  <2>1. "answered" \in RouteSteps /\ q.isJudge \in BOOLEAN /\ q.fresh \in BOOLEAN
    BY <1>3 DEF Fields, RouteSteps
  <2> QED  BY <1>2, <1>3, <2>1, HandledFields
<1>6. UNCHANGED <<rolesSince, judgeSinceAsked, sameEvent, routeChanges>>
  BY DEF Routed!history
<1>7. Right(r, status)'
  <2>1. AllIsWell(r)' <=> AllIsWell(q)
    BY <1>5, <1>6 DEF AllIsWell
  <2>2. Passed(r)' <=> Passed(q)
    BY <1>5, <1>6 DEF Passed
  <2>3. Right(q, status)
    BY <1>1
  <2> QED  BY <1>5, <1>6, <2>1, <2>2, <2>3 DEF Right
<1>8. Fields(request)' /\ RouteHistory'
  BY <1>4, <1>5, <1>6 DEF Fields, RouteInv, RouteHistory
<1>9. Underway'
  BY <1>4, <1>5, <1>7 DEF Underway
<1> QED  BY <1>8, <1>9 DEF RouteInv

\* The handler goes on, to another await.
LEMMA GoOn ==
  ASSUME RouteInv, Routed!Waiting, NEW step \in RouteSteps \ {"none", "validate", "answered"},
         NEW b \in BOOLEAN,
         request' = Handled(request, step, b, request.fresh, request.status),
         RouteDocs', roleOf' = roleOf, eventThere' = eventThere, eventJudges' = eventJudges, UNCHANGED Routed!history,
         Passed(request), b => judgeSinceAsked,
         step = "save" => /\ request.caller = Host /\ request.id = "event"
                          /\ request.route.needs \in Routed!Edits,
         step \in {"isHost", "submission"} => request.route.needs = "judge",
         step = "submission" => request.id = "event" /\ (request.caller = Host \/ judgeSinceAsked),
         step = "event" => request.route.needs = "deposit"
  PROVE  RouteInv'
<1>1. PICK q : q = request
  OBVIOUS
<1>2. PICK r : r = Handled(q, step, b, q.fresh, q.status)
  OBVIOUS
<1>3. Fields(q) /\ OnItsWay(q)
  BY <1>1 DEF RouteInv, Underway, Routed!Waiting
<1>4. /\ Fields(r) /\ r.step = step /\ r.isJudge = b /\ r.fresh = q.fresh
      /\ r.route = q.route /\ r.caller = q.caller /\ r.id = q.id /\ r.valid = q.valid
  <2>1. step \in RouteSteps /\ q.fresh \in BOOLEAN
    BY <1>3 DEF Fields
  <2> QED  BY <1>2, <1>3, <2>1, HandledFields
<1>5. UNCHANGED <<rolesSince, judgeSinceAsked, sameEvent, routeChanges>>
  BY DEF Routed!history
<1>6. OnItsWay(r)'
  <2>1. Passed(r)'
    BY <1>1, <1>4, <1>5 DEF Passed
  <2> QED  BY <1>1, <1>3, <1>4, <1>5, <2>1 DEF OnItsWay
<1>7. request' = r
  BY <1>1, <1>2
<1>8. Fields(request)' /\ RouteHistory'
  BY <1>4, <1>5, <1>7 DEF Fields, RouteInv, RouteHistory
<1>9. Underway'
  BY <1>4, <1>6, <1>7 DEF Underway
<1> QED  BY <1>8, <1>9 DEF RouteInv

-----------------------------------------------------------------------------
(* The actions.                                                              *)

\* What a handler knows when it has come to an await.
LEMMA Known ==
  ASSUME RouteInv, Routed!Waiting, request.step # "validate"
  PROVE  /\ Passed(request) /\ OnItsWay(request) /\ Fields(request)
         /\ request.route.ok \in {200, 201, 204} /\ request.route.guard \subseteq Routed!UserRole
         /\ request.route.needs = "signature" => request.route.guard = Routed!Public
         /\ request.route.needs \in Routed!Own => request.route.guard = Routed!ForHost
BY DEF RouteInv, Underway, Routed!Waiting, OnItsWay, Fields, RouteOK

\* A query that fails, or any error that is no HttpException, is always possible.
LEMMA FailStep ==
  ASSUME RouteInv, Routed!Waiting, request' = Routed!Answered(request, 500), RouteDocs',
         UNCHANGED Routed!history,
         eventThere' = eventThere
  PROVE  RouteInv'
<1>1. Right(request, 500)
  BY DEF Right
<1> QED  BY <1>1, AnswerStep

\* A request that has passed the guards succeeds.
LEMMA SucceedStep ==
  ASSUME RouteInv, Routed!Waiting, request.step # "validate", Routed!Succeed, RouteDocs',
         UNCHANGED Routed!history,
         request.route.needs \in Routed!Own => request.caller = Host,
         request.route.needs = "judge" => request.caller = Host \/ judgeSinceAsked,
         request.route.needs \in Routed!OfEvent \ {"funds", "ObjectId"} => request.id = "event"
  PROVE  RouteInv'
<1> DEFINE ok == request.route.ok
<1>1. ok \in {200, 201, 204} /\ Passed(request)
  BY Known
<1>2. request' = Routed!Answered(request, ok)
  BY DEF Routed!Succeed
<1>3. Right(request, ok)
  BY <1>1 DEF Right
<1>4. PICK status : status = ok
  OBVIOUS
<1> QED  BY <1>1, <1>2, <1>3, <1>4, AnswerStep

\* A request that has passed the guards is refused, or what it names is not found.
LEMMA RefuseStep ==
  ASSUME RouteInv, Routed!Waiting, request.step # "validate", NEW status \in {400, 403, 404},
         request' = Routed!Answered(request, status), RouteDocs', UNCHANGED Routed!history, eventThere' = eventThere,
         ~AllIsWell(request),
         status = 403 => request.route.needs \in Routed!OfEvent,
         status = 404 /\ request.route.needs \in Routed!OfEvent \ {"judge", "funds"}
           => request.id # "event" \/ ~eventThere
  PROVE  RouteInv'
<1>1. Right(request, status)
  BY Known DEF Right
<1> QED  BY <1>1, AnswerStep

LEMMA AtAwait ==
  ASSUME NEW step \in RouteSteps \ {"none", "validate", "answered"}, NEW needs, Routed!At(step,
         needs)
  PROVE  /\ Routed!Waiting /\ request.step = step /\ request.step # "validate"
         /\ request.route.needs \in needs
BY DEF Routed!At, Routed!Waiting, Routed!Needs, RouteSteps

LEMMA WritesNothing ==
  ASSUME RouteInv, Routed!Unwritten
  PROVE  /\ RouteDocs' /\ UNCHANGED Routed!history /\ eventThere' = eventThere /\ roleOf' = roleOf
         /\ eventJudges' = eventJudges
BY DEF RouteInv, RouteDocs, Routed!Unwritten, Routed!documents

\* What findById throws.
LEMMA NotFoundStep ==
  ASSUME RouteInv, Routed!Waiting, request.step # "validate", Routed!Unwritten,
         \/ request.id = "malformed" /\ Routed!Throw("CastError")
         \/ (request.id = "unknown" \/ ~eventThere) /\ Routed!Throw("NotFound")
  PROVE  RouteInv'
<1>1. CASE Routed!Throw("CastError")
  BY <1>1, WritesNothing, FailStep, AnswerCodes DEF Routed!Throw
<1>2. CASE (request.id = "unknown" \/ ~eventThere) /\ Routed!Throw("NotFound")
  <2>1. request' = Routed!Answered(request, 404)
    BY <1>2, AnswerCodes DEF Routed!Throw
  <2>2. ~AllIsWell(request)
    BY <1>2, Known DEF AllIsWell, OnItsWay
  <2> QED  BY <1>2, <2>1, <2>2, WritesNothing, RefuseStep
<1> QED  BY <1>1, <1>2

LEMMA Found ==
  ASSUME RouteInv, NEW ACTION next, Routed!findById(next)
  PROVE  \/ request.id = "malformed" /\ Routed!Throw("CastError")
         \/ (request.id = "unknown" \/ ~eventThere) /\ Routed!Throw("NotFound")
         \/ request.id = "event" /\ eventThere /\ next
BY DEF Routed!findById, RouteInv, Fields, Routed!Ids

LEMMA ServeAlwaysStep == ASSUME RouteInv, Routed!ServeAlways PROVE RouteInv'
<1>1. Routed!At("handler", {"memory", "query", "valid"}) /\ Routed!Succeed /\ Routed!Unwritten
  BY DEF Routed!ServeAlways
<1>2. Routed!Waiting /\ request.step # "validate" /\ request.route.needs \in {"memory", "query", "valid"}
  BY <1>1, AtAwait DEF RouteSteps
<1>3. request.route.needs \notin Routed!OfEvent \cup Routed!Own \cup {"judge"}
  BY <1>2 DEF Routed!OfEvent, Routed!Own, Routed!Edits
<1> QED  BY <1>1, <1>2, <1>3, WritesNothing, SucceedStep

LEMMA loginStep == ASSUME RouteInv, Routed!login PROVE RouteInv'
<1>1. Routed!At("handler", {"signature"}) /\ (Routed!Succeed \/ Routed!Throw("Unauthorized")) /\ Routed!Unwritten
  BY DEF Routed!login
<1>2. Routed!Waiting /\ request.step # "validate" /\ request.route.needs = "signature"
  BY <1>1, AtAwait DEF RouteSteps
<1>3. request.route.needs \notin Routed!OfEvent \cup Routed!Own \cup {"judge"}
  BY <1>2 DEF Routed!OfEvent, Routed!Own, Routed!Edits
<1>4. CASE Routed!Succeed
  BY <1>1, <1>2, <1>3, <1>4, WritesNothing, SucceedStep
<1>5. CASE Routed!Throw("Unauthorized")
  <2>1. request' = Routed!Answered(request, 401)
    BY <1>5, AnswerCodes DEF Routed!Throw
  <2>2. Right(request, 401)
    BY <1>2, Known DEF Right, AllIsWell, Routed!Public, Routed!Edits
  <2> QED  BY <1>1, <1>2, <2>1, <2>2, WritesNothing, AnswerStep
<1> QED  BY <1>1, <1>4, <1>5

LEMMA ServeSessionsStep == ASSUME RouteInv, Routed!ServeSessions PROVE RouteInv'
<1>1. /\ Routed!At("handler", {"client", "verify", "session"}) /\ Routed!Unwritten
      /\ Routed!Throw("BadRequest") \/ Routed!Succeed \/ Routed!Throw("NotFound")
  BY DEF Routed!ServeSessions
<1>2. Routed!Waiting /\ request.step # "validate" /\ request.route.needs \in {"client", "verify", "session"}
  BY <1>1, AtAwait DEF RouteSteps
<1>3. request.route.needs \notin Routed!OfEvent \cup Routed!Own \cup {"judge"} /\ ~AllIsWell(request)
  BY <1>2 DEF Routed!OfEvent, Routed!Own, Routed!Edits, AllIsWell
<1>4. CASE Routed!Succeed
  BY <1>1, <1>2, <1>3, <1>4, WritesNothing, SucceedStep
<1>5. CASE Routed!Throw("BadRequest")
  BY <1>1, <1>2, <1>3, <1>5, WritesNothing, RefuseStep, AnswerCodes DEF Routed!Throw
<1>6. CASE Routed!Throw("NotFound")
  BY <1>1, <1>2, <1>3, <1>6, WritesNothing, RefuseStep, AnswerCodes DEF Routed!Throw
<1> QED  BY <1>1, <1>4, <1>5, <1>6

LEMMA getProfileStep == ASSUME RouteInv, Routed!getProfile PROVE RouteInv'
<1>1. Routed!At("handler", {"profile"}) /\ (Routed!Throw("NotFound") \/ Routed!Succeed) /\ Routed!Unwritten
  BY DEF Routed!getProfile
<1>2. Routed!Waiting /\ request.step # "validate" /\ request.route.needs = "profile"
  BY <1>1, AtAwait DEF RouteSteps
<1>3. request.route.needs \notin Routed!OfEvent \cup Routed!Own \cup {"judge"} /\ ~AllIsWell(request)
  BY <1>2 DEF Routed!OfEvent, Routed!Own, Routed!Edits, AllIsWell
<1>4. CASE Routed!Succeed
  BY <1>1, <1>2, <1>3, <1>4, WritesNothing, SucceedStep
<1>5. CASE Routed!Throw("NotFound")
  BY <1>1, <1>2, <1>3, <1>5, WritesNothing, RefuseStep, AnswerCodes DEF Routed!Throw
<1> QED  BY <1>1, <1>4, <1>5

LEMMA ServeEventStep == ASSUME RouteInv, Routed!ServeEvent PROVE RouteInv'
<1>1. Routed!At("handler", {"event"}) /\ Routed!findById(Routed!Succeed) /\ Routed!Unwritten
  BY DEF Routed!ServeEvent
<1>2. Routed!Waiting /\ request.step # "validate" /\ request.route.needs = "event"
  BY <1>1, AtAwait DEF RouteSteps
<1>3. request.route.needs \notin Routed!Own \cup {"judge"}
  BY <1>2 DEF Routed!Own, Routed!Edits
<1>4. CASE request.id = "event" /\ Routed!Succeed
  BY <1>1, <1>2, <1>3, <1>4, WritesNothing, SucceedStep
<1> QED  BY <1>1, <1>2, <1>4, Found, NotFoundStep

LEMMA addParticipantStep == ASSUME RouteInv, Routed!addParticipant PROVE RouteInv'
<1>1. Routed!At("handler", {"active"}) /\ Routed!findById(Routed!Throw("Forbidden")) /\ Routed!Unwritten
  BY DEF Routed!addParticipant
<1>2. Routed!Waiting /\ request.step # "validate" /\ request.route.needs = "active"
  BY <1>1, AtAwait DEF RouteSteps
<1>3. request.route.needs \in Routed!OfEvent /\ ~AllIsWell(request)
  BY <1>2 DEF Routed!OfEvent, AllIsWell, Routed!Edits
<1>4. CASE Routed!Throw("Forbidden")
  BY <1>1, <1>2, <1>3, <1>4, WritesNothing, RefuseStep, AnswerCodes DEF Routed!Throw
<1> QED  BY <1>1, <1>2, <1>4, Found, NotFoundStep

LEMMA ServeOwnStep == ASSUME RouteInv, Routed!ServeOwn PROVE RouteInv'
<1>1. /\ Routed!At("handler", Routed!Own \ {"winners"}) /\ Routed!Unwritten
      /\ Routed!findById(IF request.caller # Host \/ Routed!Needs = "publish" THEN Routed!Throw("Forbidden")
                  ELSE IF Routed!IsIdle THEN Routed!Succeed ELSE Routed!Goto("save"))
  BY DEF Routed!ServeOwn
<1>2. Routed!Waiting /\ request.step # "validate" /\ request.route.needs \in Routed!Own \ {"winners"}
  BY <1>1, AtAwait DEF RouteSteps
<1>3. request.route.needs \in Routed!OfEvent /\ request.route.needs # "judge"
  BY <1>2 DEF Routed!OfEvent, Routed!Own, Routed!Edits
<1>4. CASE (request.caller # Host \/ Routed!Needs = "publish") /\ Routed!Throw("Forbidden")
  <2>1. ~AllIsWell(request)
    BY <1>4 DEF AllIsWell, Routed!Needs, Routed!Edits
  <2>2. request' = Routed!Answered(request, 403)
    BY <1>4, AnswerCodes DEF Routed!Throw
  <2>3. Right(request, 403)
    BY <1>2, <1>3, <2>1, Known DEF Right
  <2> QED  BY <1>1, <1>2, <2>2, <2>3, WritesNothing, AnswerStep
<1>5. CASE request.id = "event" /\ request.caller = Host /\ Routed!Succeed
  BY <1>1, <1>2, <1>3, <1>5, WritesNothing, SucceedStep
<1>6. CASE /\ request.id = "event" /\ request.caller = Host /\ Routed!Needs # "publish" /\ ~Routed!IsIdle
           /\ Routed!Goto("save")
  <2>1. request.route.needs \in Routed!Edits
    BY <1>2, <1>6 DEF Routed!Own, Routed!IsIdle, Routed!Needs
  <2>2. request' = Handled(request, "save", request.isJudge, request.fresh, request.status)
    BY <1>6, Changed DEF Routed!Goto, RouteInv
  <2>3. Passed(request) /\ (request.isJudge => judgeSinceAsked) /\ request.isJudge \in BOOLEAN
    BY <1>2, Known DEF OnItsWay, Fields
  <2>4. "save" \in RouteSteps \ {"none", "validate", "answered"}
    BY DEF RouteSteps
  <2> QED  BY <1>1, <1>2, <1>6, <2>1, <2>2, <2>3, <2>4, WritesNothing, GoOn
<1>7. \/ request.id = "malformed" /\ Routed!Throw("CastError")
      \/ (request.id = "unknown" \/ ~eventThere) /\ Routed!Throw("NotFound")
      \/ (request.caller # Host \/ Routed!Needs = "publish") /\ Routed!Throw("Forbidden")
      \/ request.id = "event" /\ request.caller = Host /\ Routed!Succeed
      \/ /\ request.id = "event" /\ request.caller = Host /\ Routed!Needs # "publish" /\ ~Routed!IsIdle
         /\ Routed!Goto("save")
  BY <1>1 DEF Routed!findById, RouteInv, Fields, Routed!Ids
<1> QED  BY <1>1, <1>2, <1>4, <1>5, <1>6, <1>7, NotFoundStep

LEMMA triggerPayoutStep == ASSUME RouteInv, Routed!triggerPayout PROVE RouteInv'
<1>1. /\ Routed!At("handler", {"winners"}) /\ Routed!Unwritten
      /\ Routed!findById(IF request.caller # Host \/ ~request.valid THEN Routed!Throw("Error") ELSE Routed!Succeed)
  BY DEF Routed!triggerPayout
<1>2. Routed!Waiting /\ request.step # "validate" /\ request.route.needs = "winners"
  BY <1>1, AtAwait DEF RouteSteps
<1>3. CASE Routed!Throw("Error")
  BY <1>1, <1>2, <1>3, WritesNothing, FailStep, AnswerCodes DEF Routed!Throw
<1>4. CASE request.id = "event" /\ request.caller = Host /\ Routed!Succeed
  BY <1>1, <1>2, <1>4, WritesNothing, SucceedStep
<1> QED  BY <1>1, <1>2, <1>3, <1>4, Found, NotFoundStep

LEMMA SaveFailsStep == ASSUME RouteInv, Routed!SaveFails PROVE RouteInv'
<1>1. /\ request.step = "save" /\ Routed!Unwritten
      /\ Routed!Throw("ValidationError") \/ Routed!Throw("DocumentNotFoundError") \/ Routed!Throw("VersionError")
  BY DEF Routed!SaveFails
<1>2. Routed!Waiting
  BY <1>1 DEF Routed!Waiting
<1> QED  BY <1>1, <1>2, WritesNothing, FailStep, AnswerCodes DEF Routed!Throw

LEMMA SaveEventStep == ASSUME RouteInv, Routed!SaveEvent PROVE RouteInv'
<1>1. /\ request.step = "save" /\ eventJudges' \in Routed!SavedJudges /\ Routed!Succeed
      /\ UNCHANGED <<roleOf, eventThere, walletConfig, clientThere>> /\ UNCHANGED Routed!history
  BY DEF Routed!SaveEvent, Routed!At
<1>2. Routed!Waiting /\ request.step # "validate"
  BY <1>1 DEF Routed!Waiting
<1>3. /\ request.caller = Host /\ request.id = "event" /\ request.route.needs # "judge"
      /\ request.judge \in Accounts
  BY <1>1, <1>2, Known DEF OnItsWay, Routed!Edits, Fields
<1>4. eventJudges' \subseteq Accounts
  BY <1>1, <1>3 DEF Routed!SavedJudges, RouteInv, RouteDocs
<1>5. RouteDocs'
  BY <1>1, <1>4 DEF RouteInv, RouteDocs
<1> QED  BY <1>1, <1>2, <1>3, <1>5, SucceedStep

LEMMA deleteOneStep == ASSUME RouteInv, Routed!deleteOne PROVE RouteInv'
<1>1. /\ request.step = "save" /\ eventThere' = FALSE /\ Routed!Succeed
      /\ UNCHANGED <<roleOf, eventJudges, walletConfig, clientThere>> /\ UNCHANGED Routed!history
  BY DEF Routed!deleteOne, Routed!At
<1>2. Routed!Waiting /\ request.step # "validate"
  BY <1>1 DEF Routed!Waiting
<1>3. request.caller = Host /\ request.id = "event" /\ request.route.needs # "judge"
  BY <1>1, <1>2, Known DEF OnItsWay, Routed!Edits
<1>4. RouteDocs'
  BY <1>1 DEF RouteInv, RouteDocs
<1> QED  BY <1>1, <1>2, <1>3, <1>4, SucceedStep

LEMMA validateSubmissionDataStep == ASSUME RouteInv, Routed!validateSubmissionData PROVE RouteInv'
<1>1. Routed!At("handler", {"projectTitle"}) /\ Routed!Throw("BadRequest") /\ Routed!Unwritten
  BY DEF Routed!validateSubmissionData
<1>2. Routed!Waiting /\ request.step # "validate" /\ request.route.needs = "projectTitle"
  BY <1>1, AtAwait DEF RouteSteps
<1>3. ~AllIsWell(request)
  BY <1>2 DEF AllIsWell, Routed!Edits
<1> QED  BY <1>1, <1>2, <1>3, WritesNothing, RefuseStep, AnswerCodes DEF Routed!Throw

LEMMA isJudgeStep == ASSUME RouteInv, Routed!isJudge PROVE RouteInv'
<1>1. /\ Routed!At("handler", {"judge"}) /\ Routed!Unwritten
      /\ Routed!findById(request' = [request EXCEPT !.step = "isHost",
                                             !.isJudge = request.caller \in eventJudges])
  BY DEF Routed!isJudge
<1>2. Routed!Waiting /\ request.step # "validate" /\ request.route.needs = "judge"
  BY <1>1, AtAwait DEF RouteSteps
<1>3. CASE request' = [request EXCEPT !.step = "isHost", !.isJudge = request.caller \in eventJudges]
  <2>1. PICK b : b = (request.caller \in eventJudges)
    OBVIOUS
  <2>2. b \in BOOLEAN
    BY <2>1
  <2>3. request' = Handled(request, "isHost", b, request.fresh, request.status)
    BY <1>3, <2>1, Changed DEF RouteInv
  <2>4. Passed(request) /\ (b => judgeSinceAsked)
    BY <1>2, <2>1, Known DEF OnItsWay
  <2>5. "isHost" \in RouteSteps \ {"none", "validate", "answered"}
    BY DEF RouteSteps
  <2> QED  BY <1>1, <1>2, <2>2, <2>3, <2>4, <2>5, WritesNothing, GoOn
<1> QED  BY <1>1, <1>2, <1>3, Found, NotFoundStep

LEMMA isHostStep == ASSUME RouteInv, Routed!isHost PROVE RouteInv'
<1>1. /\ request.step = "isHost" /\ Routed!Unwritten
      /\ Routed!findById(IF ~request.isJudge /\ request.caller # Host THEN Routed!Throw("Forbidden")
                  ELSE Routed!Goto("submission"))
  BY DEF Routed!isHost
<1>2. Routed!Waiting /\ request.step # "validate"
  BY <1>1 DEF Routed!Waiting
<1>3. /\ request.route.needs = "judge" /\ Passed(request) /\ (request.isJudge => judgeSinceAsked)
      /\ request.isJudge \in BOOLEAN
  BY <1>1, <1>2, Known DEF OnItsWay, Fields
<1>4. CASE Routed!Throw("Forbidden")
  <2>1. ~AllIsWell(request) /\ request.route.needs \in Routed!OfEvent
    BY <1>3 DEF AllIsWell, Routed!Edits, Routed!OfEvent
  <2> QED  BY <1>1, <1>2, <1>4, <2>1, WritesNothing, RefuseStep, AnswerCodes DEF Routed!Throw
<1>5. CASE request.id = "event" /\ (request.isJudge \/ request.caller = Host) /\ Routed!Goto("submission")
  <2>1. request' = Handled(request, "submission", request.isJudge, request.fresh, request.status)
    BY <1>5, Changed DEF Routed!Goto, RouteInv
  <2>2. "submission" \in RouteSteps \ {"none", "validate", "answered"}
    BY DEF RouteSteps
  <2> QED  BY <1>1, <1>2, <1>3, <1>5, <2>1, <2>2, WritesNothing, GoOn
<1> QED  BY <1>1, <1>2, <1>4, <1>5, Found, NotFoundStep

LEMMA FindSubmissionStep == ASSUME RouteInv, Routed!FindSubmission PROVE RouteInv'
<1>1. /\ request.step = "submission" /\ Routed!Unwritten
      /\ Routed!Succeed \/ Routed!Throw("NotFound") \/ Routed!Throw("CastError")
  BY DEF Routed!FindSubmission
<1>2. Routed!Waiting /\ request.step # "validate"
  BY <1>1 DEF Routed!Waiting
<1>3. /\ request.route.needs = "judge" /\ request.id = "event"
      /\ request.caller = Host \/ judgeSinceAsked
  BY <1>1, <1>2, Known DEF OnItsWay
<1>4. request.route.needs \notin Routed!Own /\ ~AllIsWell(request)
  BY <1>3 DEF Routed!Own, Routed!Edits, AllIsWell
<1>5. CASE Routed!Succeed
  BY <1>1, <1>2, <1>3, <1>4, <1>5, WritesNothing, SucceedStep
<1>6. CASE Routed!Throw("NotFound")
  BY <1>1, <1>2, <1>3, <1>4, <1>6, WritesNothing, RefuseStep, AnswerCodes DEF Routed!Throw
<1>7. CASE Routed!Throw("CastError")
  BY <1>1, <1>2, <1>7, WritesNothing, FailStep, AnswerCodes DEF Routed!Throw
<1> QED  BY <1>1, <1>5, <1>6, <1>7

LEMMA getJobStatusStep == ASSUME RouteInv, Routed!getJobStatus PROVE RouteInv'
<1>1. Routed!At("handler", {"job"}) /\ (Routed!Succeed \/ Routed!Throw("Error")) /\ Routed!Unwritten
  BY DEF Routed!getJobStatus
<1>2. Routed!Waiting /\ request.step # "validate" /\ request.route.needs = "job"
  BY <1>1, AtAwait DEF RouteSteps
<1>3. request.route.needs \notin Routed!OfEvent \cup Routed!Own \cup {"judge"}
  BY <1>2 DEF Routed!OfEvent, Routed!Own, Routed!Edits
<1>4. CASE Routed!Succeed
  BY <1>1, <1>2, <1>3, <1>4, WritesNothing, SucceedStep
<1>5. CASE Routed!Throw("Error")
  BY <1>1, <1>2, <1>5, WritesNothing, FailStep, AnswerCodes DEF Routed!Throw
<1> QED  BY <1>1, <1>4, <1>5

LEMMA getEscrowAddressStep == ASSUME RouteInv, Routed!getEscrowAddress PROVE RouteInv'
<1>1. /\ Routed!At("handler", {"address", "deposit"}) /\ UNCHANGED Routed!history
      /\ roleOf' = roleOf /\ eventThere' = eventThere /\ eventJudges' = eventJudges /\ clientThere' = clientThere
      /\ \/ walletConfig = "inactive" /\ Routed!Throw("Error") /\ walletConfig' = walletConfig
         \/ walletConfig' = "active" /\ Routed!Needs = "address" /\ Routed!Succeed
         \/ walletConfig' = "active" /\ Routed!Needs # "address" /\ Routed!Goto("event")
  BY DEF Routed!getEscrowAddress
<1>2. /\ Routed!Waiting /\ request.step # "validate" /\ request.route.needs \in {"address", "deposit"}
  BY <1>1, AtAwait DEF RouteSteps
<1>3. RouteDocs'
  BY <1>1 DEF RouteInv, RouteDocs
<1>4. CASE Routed!Throw("Error")
  BY <1>1, <1>2, <1>3, <1>4, FailStep, AnswerCodes DEF Routed!Throw
<1>5. CASE Routed!Needs = "address" /\ Routed!Succeed
  <2>1. request.route.needs \notin Routed!OfEvent \cup Routed!Own \cup {"judge"}
    BY <1>5 DEF Routed!OfEvent, Routed!Own, Routed!Edits, Routed!Needs
  <2> QED  BY <1>1, <1>2, <1>3, <1>5, <2>1, SucceedStep
<1>6. CASE Routed!Needs # "address" /\ Routed!Goto("event")
  <2>1. request.route.needs = "deposit"
    BY <1>2, <1>6 DEF Routed!Needs
  <2>2. request' = Handled(request, "event", request.isJudge, request.fresh, request.status)
    BY <1>6, Changed DEF Routed!Goto, RouteInv
  <2>3. Passed(request) /\ (request.isJudge => judgeSinceAsked) /\ request.isJudge \in BOOLEAN
    BY <1>2, Known DEF OnItsWay, Fields
  <2>4. "event" \in RouteSteps \ {"none", "validate", "answered"}
    BY DEF RouteSteps
  <2> QED  BY <1>1, <1>2, <1>3, <2>1, <2>2, <2>3, <2>4, GoOn
<1> QED  BY <1>1, <1>4, <1>5, <1>6

LEMMA recordDepositStep == ASSUME RouteInv, Routed!recordDeposit PROVE RouteInv'
<1>1. Routed!At("event", {"deposit"}) /\ Routed!findById(Routed!Succeed) /\ Routed!Unwritten
  BY DEF Routed!recordDeposit
<1>2. Routed!Waiting /\ request.step # "validate" /\ request.route.needs = "deposit"
  BY <1>1, AtAwait DEF RouteSteps
<1>3. request.route.needs \notin Routed!Own \cup {"judge"}
  BY <1>2 DEF Routed!Own, Routed!Edits
<1>4. CASE request.id = "event" /\ Routed!Succeed
  BY <1>1, <1>2, <1>3, <1>4, WritesNothing, SucceedStep
<1> QED  BY <1>1, <1>2, <1>4, Found, NotFoundStep

LEMMA getEscrowBalanceStep == ASSUME RouteInv, Routed!getEscrowBalance PROVE RouteInv'
<1>1. Routed!At("handler", {"balance"}) /\ (Routed!Succeed \/ Routed!Throw("NotFound")) /\ Routed!Unwritten
  BY DEF Routed!getEscrowBalance
<1>2. Routed!Waiting /\ request.step # "validate" /\ request.route.needs = "balance"
  BY <1>1, AtAwait DEF RouteSteps
<1>3. request.route.needs \notin Routed!OfEvent \cup Routed!Own \cup {"judge"} /\ ~AllIsWell(request)
  BY <1>2 DEF Routed!OfEvent, Routed!Own, Routed!Edits, AllIsWell
<1>4. CASE Routed!Succeed
  BY <1>1, <1>2, <1>3, <1>4, WritesNothing, SucceedStep
<1>5. CASE Routed!Throw("NotFound")
  BY <1>1, <1>2, <1>3, <1>5, WritesNothing, RefuseStep, AnswerCodes DEF Routed!Throw
<1> QED  BY <1>1, <1>4, <1>5

LEMMA executePayoutStep == ASSUME RouteInv, Routed!executePayout PROVE RouteInv'
<1>1. /\ Routed!At("handler", {"funds"}) /\ Routed!Unwritten
      /\ \/ Routed!Throw("NotFound") \/ Routed!Throw("Error") \/ Routed!Throw("BadRequest") \/ Routed!Throw("BSONError")
         \/ Routed!Succeed
  BY DEF Routed!executePayout
<1>2. Routed!Waiting /\ request.step # "validate" /\ request.route.needs = "funds"
  BY <1>1, AtAwait DEF RouteSteps
<1>3. request.route.needs \notin Routed!Own \cup {"judge"} /\ ~AllIsWell(request)
  BY <1>2 DEF Routed!Own, Routed!Edits, AllIsWell
<1>4. CASE Routed!Succeed
  BY <1>1, <1>2, <1>3, <1>4, WritesNothing, SucceedStep
<1>5. CASE Routed!Throw("NotFound")
  BY <1>1, <1>2, <1>3, <1>5, WritesNothing, RefuseStep, AnswerCodes DEF Routed!Throw
<1>6. CASE Routed!Throw("BadRequest")
  BY <1>1, <1>2, <1>3, <1>6, WritesNothing, RefuseStep, AnswerCodes DEF Routed!Throw
<1>7. CASE Routed!Throw("Error") \/ Routed!Throw("BSONError")
  BY <1>1, <1>2, <1>7, WritesNothing, FailStep, AnswerCodes DEF Routed!Throw
<1> QED  BY <1>1, <1>4, <1>5, <1>6, <1>7

LEMMA ServeByObjectIdStep == ASSUME RouteInv, Routed!ServeByObjectId PROVE RouteInv'
<1>1. Routed!At("handler", {"ObjectId"}) /\ (Routed!Throw("BSONError") \/ Routed!Succeed) /\ Routed!Unwritten
  BY DEF Routed!ServeByObjectId
<1>2. Routed!Waiting /\ request.step # "validate" /\ request.route.needs = "ObjectId"
  BY <1>1, AtAwait DEF RouteSteps
<1>3. request.route.needs \notin Routed!Own \cup {"judge"}
  BY <1>2 DEF Routed!Own, Routed!Edits
<1>4. CASE Routed!Succeed
  BY <1>1, <1>2, <1>3, <1>4, WritesNothing, SucceedStep
<1>5. CASE Routed!Throw("BSONError")
  BY <1>1, <1>2, <1>5, WritesNothing, FailStep, AnswerCodes DEF Routed!Throw
<1> QED  BY <1>1, <1>4, <1>5

LEMMA DatabaseFailsStep == ASSUME RouteInv, Routed!DatabaseFails PROVE RouteInv'
BY WritesNothing, FailStep, AnswerCodes DEF Routed!DatabaseFails, Routed!Throw

LEMMA ValidateStep == ASSUME RouteLimits, RouteInv, Routed!Validate PROVE RouteInv'
<1> DEFINE role == roleOf[request.caller]
<1>1. /\ request.step = "validate" /\ Routed!Unwritten
      /\ \/ role = "none" /\ request' = Routed!Answered(request, 401)
         \/ role # "none" /\ role \notin request.route.guard /\ request' = Routed!Answered(request, 403)
         \/ role \in request.route.guard /\ request' = Routed!PastPipe(request)
  BY AnswerCodes DEF Routed!Validate, Routed!Unwritten
<1>2. Routed!Waiting /\ OnItsWay(request) /\ Fields(request)
  BY <1>1 DEF Routed!Waiting, RouteInv, Underway
<1>3. role \in rolesSince
  BY <1>1, <1>2 DEF OnItsWay
<1>4. /\ request.route.guard \subseteq Routed!UserRole
      /\ request.route.needs \in Routed!Own => request.route.guard = Routed!ForHost
  BY <1>2 DEF Fields, RouteOK
<1>5. AllIsWell(request) => role = "host" /\ role \in request.route.guard /\ request.valid
  BY <1>3, <1>4 DEF AllIsWell, Routed!Own, Routed!ForHost
<1> HIDE DEF role
<1>6. CASE role = "none" /\ request' = Routed!Answered(request, 401)
  <2>1. "none" \notin Routed!UserRole
    BY DEF Routed!UserRole
  <2>2. Right(request, 401)
    BY <1>3, <1>4, <1>5, <1>6, <2>1 DEF Right
  <2> QED  BY <1>1, <1>2, <1>6, <2>2, WritesNothing, AnswerStep
<1>7. CASE role # "none" /\ role \notin request.route.guard /\ request' = Routed!Answered(request, 403)
  <2>1. Right(request, 403)
    BY <1>3, <1>5, <1>7 DEF Right
  <2> QED  BY <1>1, <1>2, <1>7, <2>1, WritesNothing, AnswerStep
<1>8. CASE role \in request.route.guard /\ request' = Routed!PastPipe(request)
  <2>1. Passed(request)
    BY <1>3, <1>8 DEF Passed
  <2>2. CASE ~request.valid /\ request' = Routed!Answered(request, 400)
    <3>1. Right(request, 400)
      BY <1>5, <2>1, <2>2 DEF Right
    <3> QED  BY <1>1, <1>2, <2>2, <3>1, WritesNothing, AnswerStep
  <2>3. CASE request' = [request EXCEPT !.step = "handler"]
    <3>1. request' = Handled(request, "handler", request.isJudge, request.fresh, request.status)
      BY <1>2, <2>3, Changed
    <3>2. (request.isJudge => judgeSinceAsked) /\ request.isJudge \in BOOLEAN
      BY <1>2 DEF OnItsWay, Fields
    <3>3. "handler" \in RouteSteps \ {"none", "validate", "answered"}
      BY DEF RouteSteps
    <3> QED  BY <1>1, <1>2, <2>1, <3>1, <3>2, <3>3, WritesNothing, GoOn
  <2> QED  BY <1>8, <2>2, <2>3, AnswerCodes DEF Routed!PastPipe
<1> QED  BY <1>1, <1>6, <1>7, <1>8

LEMMA AskStep ==
  ASSUME RouteLimits, RouteInv, NEW asked \in Routed!ToSet(Routed!Table),
         NEW caller \in Accounts \cup {Routed!Nobody},
         NEW id \in Routed!Ids, NEW valid \in BOOLEAN, NEW judge \in Accounts,
         Routed!Ask(asked, caller, id, valid, judge)
  PROVE  RouteInv'
<1>1. PICK route : route = Routed!Served(asked)
  OBVIOUS
<1>2. PICK named \in Routed!Ids : named = IF route = asked THEN id ELSE "malformed"
  BY DEF Routed!Ids
<1>3. PICK r : r = Routed!Request(asked, route, caller, named, valid, judge)
  OBVIOUS
<1>4. /\ request.step = "none" /\ UNCHANGED <<roleOf, eventThere, eventJudges, walletConfig, clientThere>>
      /\ sameEvent' = sameEvent /\ routeChanges' = routeChanges
      /\ rolesSince' = (IF caller = Routed!Nobody THEN {} ELSE {roleOf[caller]})
      /\ judgeSinceAsked' = (caller \in eventJudges)
  BY DEF Routed!Ask, Routed!documents
<1>5. request' = IF route.guard = Routed!Public THEN Routed!PastPipe(r)
                 ELSE IF caller = Routed!Nobody THEN Routed!Answered(r, 401)
                 ELSE [r EXCEPT !.step = "validate"]
  BY <1>1, <1>2, <1>3, AnswerCodes DEF Routed!Ask
<1>6. RouteDocs' /\ RouteHistory'
  <2>1. roleOf[caller] \in Routed!UserRole \cup {"none"} \/ caller = Routed!Nobody
    BY DEF RouteInv, RouteDocs
  <2> QED  BY <1>4, <2>1 DEF RouteInv, RouteDocs, RouteHistory
<1>7. Fields(r)
  BY <1>1, <1>3, ServedOK DEF Fields, Handled, Routed!Request, RouteSteps
<1>8. /\ r.route = route /\ r.caller = caller /\ r.valid = valid /\ r.fresh = TRUE
      /\ r.isJudge = FALSE /\ r.status = 0 /\ eventThere = TRUE /\ sameEvent = TRUE
  BY <1>3, <1>4 DEF RouteInv, Underway, Routed!Request
<1>9. ASSUME NEW status, Right(r, status)', request' = Routed!Answered(r, status)
      PROVE  RouteInv'
  <2>1. PICK q : q = Handled(r, "answered", r.isJudge, r.fresh, status)
    OBVIOUS
  <2>2. Routed!Answered(r, status) = q
    BY <1>7, <1>8, <2>1, Changed
  <2>3. /\ Fields(q) /\ q.step = "answered" /\ q.status = status /\ q.route = r.route
        /\ q.caller = r.caller /\ q.id = r.id /\ q.valid = r.valid
    <3>1. "answered" \in RouteSteps /\ r.isJudge \in BOOLEAN /\ r.fresh \in BOOLEAN
      BY <1>7 DEF RouteSteps, Fields
    <3> QED  BY <1>7, <2>1, <3>1, HandledFields
  <2>4. Right(q, status)'
    BY <1>9, <2>3 DEF Right, AllIsWell, Passed
  <2>5. Underway'
    BY <1>9, <2>2, <2>3, <2>4 DEF Underway
  <2>6. Fields(request)'
    BY <1>9, <2>2, <2>3 DEF Fields
  <2> QED  BY <1>6, <2>5, <2>6 DEF RouteInv
<1>10. ASSUME NEW step \in {"validate", "handler"}, request' = [r EXCEPT !.step = step],
              step = "validate" => caller # Routed!Nobody /\ route.guard # Routed!Public,
              step = "handler" => route.guard = Routed!Public
       PROVE  RouteInv'
  <2>1. PICK q : q = Handled(r, step, r.isJudge, r.fresh, r.status)
    OBVIOUS
  <2>2. request' = q
    BY <1>7, <1>8, <1>10, <2>1, Changed
  <2>3. /\ Fields(q) /\ q.step = step /\ q.route = r.route /\ q.isJudge = FALSE
        /\ q.fresh = TRUE /\ q.caller = r.caller
    <3>1. step \in RouteSteps /\ r.isJudge \in BOOLEAN /\ r.fresh \in BOOLEAN
      BY <1>7 DEF RouteSteps, Fields
    <3> QED  BY <1>7, <1>8, <2>1, <3>1, HandledFields
  <2>4. OnItsWay(q)'
    BY <1>4, <1>8, <1>10, <2>3 DEF OnItsWay, Passed, RouteLimits
  <2>5. Underway'
    BY <2>2, <2>3, <2>4 DEF Underway
  <2>6. Fields(request)'
    BY <2>2, <2>3 DEF Fields
  <2> QED  BY <1>6, <2>5, <2>6 DEF RouteInv
<1>11. CASE route.guard = Routed!Public
  <2>1. Passed(r)'
    BY <1>8, <1>11 DEF Passed
  <2>2. CASE ~valid /\ request' = Routed!Answered(r, 400)
    <3>1. Right(r, 400)'
      BY <1>8, <2>1, <2>2 DEF Right, AllIsWell
    <3> QED  BY <1>9, <2>2, <3>1
  <2>3. CASE request' = [r EXCEPT !.step = "handler"]
    BY <1>10, <1>11, <2>3
  <2> QED  BY <1>5, <1>8, <1>11, <2>2, <2>3, AnswerCodes DEF Routed!PastPipe
<1>12. CASE route.guard # Routed!Public /\ caller = Routed!Nobody
  <2>1. Right(r, 401)'
    BY <1>4, <1>8, <1>12 DEF Right, AllIsWell, RouteLimits
  <2> QED  BY <1>5, <1>9, <1>12, <2>1
<1>13. CASE route.guard # Routed!Public /\ caller # Routed!Nobody
  BY <1>5, <1>10, <1>13
<1> QED  BY <1>11, <1>12, <1>13

\* While a request waits, roles and the event change.
LEMMA ChangeStep ==
  ASSUME RouteLimits, RouteInv, Routed!Change, RouteDocs', rolesSince \subseteq rolesSince',
         rolesSince' \subseteq Routed!UserRole \cup {"none"},
         request.caller \in Accounts => roleOf'[request.caller] \in rolesSince',
         judgeSinceAsked \in BOOLEAN, judgeSinceAsked' \in BOOLEAN, judgeSinceAsked => judgeSinceAsked',
         request.caller \in eventJudges' => judgeSinceAsked',
         sameEvent' = FALSE \/ (sameEvent' = sameEvent /\ eventThere' = eventThere),
         \/ request' = request
         \/ /\ sameEvent' = FALSE
            /\ \E f \in BOOLEAN : request' = [request EXCEPT !.fresh = f]
  PROVE  RouteInv'
<1>1. PICK q : q = request
  OBVIOUS
<1>2. Fields(q) /\ OnItsWay(q) /\ q.step \notin {"none", "answered"}
  BY <1>1 DEF RouteInv, Routed!Change, Routed!Waiting, Underway
<1>3. PICK r : /\ r = request' /\ Fields(r) /\ r.step = q.step /\ r.isJudge = q.isJudge
               /\ r.route = q.route /\ r.caller = q.caller /\ r.id = q.id
               /\ sameEvent' => r.fresh = q.fresh
  <2>1. CASE request' = request
    BY <1>1, <1>2, <2>1
  <2>2. ASSUME NEW f \in BOOLEAN, request' = [request EXCEPT !.fresh = f], sameEvent' = FALSE
        PROVE  \E r : /\ r = request' /\ Fields(r) /\ r.step = q.step /\ r.isJudge = q.isJudge
                      /\ r.route = q.route /\ r.caller = q.caller /\ r.id = q.id
                      /\ sameEvent' => r.fresh = q.fresh
    <3>1. PICK r : r = Handled(q, q.step, q.isJudge, f, q.status)
      OBVIOUS
    <3>2. request' = r
      BY <1>1, <1>2, <2>2, <3>1, Changed
    <3>3. q.step \in RouteSteps /\ q.isJudge \in BOOLEAN
      BY <1>2 DEF Fields
    <3>4. /\ Fields(r) /\ r.step = q.step /\ r.isJudge = q.isJudge
          /\ r.route = q.route /\ r.caller = q.caller /\ r.id = q.id
      BY <1>2, <3>1, <3>3, HandledFields
    <3> QED  BY <2>2, <3>2, <3>4
  <2> QED  BY <2>1, <2>2
<1>4. RouteHistory'
  <2>1. routeChanges' \in 0 .. MaxRouteChanges
    BY DEF Routed!Change, RouteInv, RouteHistory, RouteLimits
  <2>2. sameEvent' \in BOOLEAN
    BY DEF RouteInv, RouteHistory
  <2> QED  BY <2>1, <2>2 DEF RouteHistory
<1>5. Passed(q) => Passed(r)'
  BY <1>3 DEF Passed
<1>6. OnItsWay(r)'
  BY <1>1, <1>2, <1>3, <1>5 DEF OnItsWay
<1>7. Underway'
  BY <1>2, <1>3, <1>6 DEF Underway
<1>8. Fields(request)'
  BY <1>3 DEF Fields
<1> QED  BY <1>4, <1>7, <1>8 DEF RouteInv

LEMMA ChangeRoleStep ==
  ASSUME RouteLimits, RouteInv, NEW a \in Accounts, NEW role \in Routed!UserRole \cup {"none"},
         Routed!ChangeRole(a, role)
  PROVE  RouteInv'
<1>1. /\ Routed!Change /\ roleOf' = [roleOf EXCEPT ![a] = role]
      /\ rolesSince' = (IF a = request.caller THEN rolesSince \cup {role} ELSE rolesSince)
      /\ eventThere' = eventThere /\ eventJudges' = eventJudges /\ request' = request
      /\ judgeSinceAsked' = judgeSinceAsked /\ sameEvent' = sameEvent
      /\ walletConfig' = walletConfig /\ clientThere' = clientThere
  BY DEF Routed!ChangeRole, Routed!Change
<1>2. OnItsWay(request) /\ RouteDocs /\ RouteHistory
  BY <1>1 DEF RouteInv, Routed!Change, Routed!Waiting, Underway
<1>3. RouteDocs'
  BY <1>1, <1>2 DEF RouteDocs
<1>4. /\ rolesSince \subseteq rolesSince' /\ rolesSince' \subseteq Routed!UserRole \cup {"none"}
      /\ request.caller \in Accounts => roleOf'[request.caller] \in rolesSince'
      /\ request.caller \in eventJudges' => judgeSinceAsked'
      /\ judgeSinceAsked \in BOOLEAN
  BY <1>1, <1>2 DEF OnItsWay, RouteDocs, RouteHistory
<1>5. (judgeSinceAsked => judgeSinceAsked') /\ judgeSinceAsked' \in BOOLEAN
  <2>1. judgeSinceAsked' = judgeSinceAsked /\ judgeSinceAsked \in BOOLEAN
    BY <1>1, <1>4
  <2> QED  BY ONLY <2>1
<1>6. sameEvent' = FALSE \/ (sameEvent' = sameEvent /\ eventThere' = eventThere)
  BY <1>1
<1> QED  BY <1>1, <1>3, <1>4, <1>5, <1>6, ChangeStep

LEMMA EditJudgesStep ==
  ASSUME RouteLimits, RouteInv, NEW new \in SUBSET Accounts, Routed!EditJudges(new)
  PROVE  RouteInv'
<1>1. /\ Routed!Change /\ eventJudges' = new /\ roleOf' = roleOf /\ eventThere' = eventThere /\ rolesSince' = rolesSince
      /\ request' = [request EXCEPT !.fresh = @ /\ request.step # "save"]
      /\ judgeSinceAsked' = (judgeSinceAsked \/ request.caller \in new) /\ sameEvent' = FALSE
      /\ walletConfig' = walletConfig /\ clientThere' = clientThere
  BY DEF Routed!EditJudges, Routed!Change
<1>2. OnItsWay(request) /\ RouteDocs /\ RouteHistory /\ Fields(request)
  BY <1>1 DEF RouteInv, Routed!Change, Routed!Waiting, Underway
<1>3. RouteDocs'
  BY <1>1, <1>2 DEF RouteDocs
<1>4. /\ rolesSince \subseteq rolesSince' /\ rolesSince' \subseteq Routed!UserRole \cup {"none"}
      /\ request.caller \in Accounts => roleOf'[request.caller] \in rolesSince'
      /\ request.caller \in eventJudges' => judgeSinceAsked'
  BY <1>1, <1>2 DEF OnItsWay, RouteHistory
<1>5. judgeSinceAsked \in BOOLEAN /\ judgeSinceAsked' \in BOOLEAN /\ (judgeSinceAsked => judgeSinceAsked')
  BY <1>1, <1>2 DEF RouteHistory
<1>6. \E f \in BOOLEAN : request' = [request EXCEPT !.fresh = f]
  <2>1. request' = [request EXCEPT !.fresh = request.fresh /\ request.step # "save"]
    BY <1>1, <1>2 DEF Fields, Handled
  <2>2. (request.fresh /\ request.step # "save") \in BOOLEAN
    OBVIOUS
  <2> QED  BY <2>1, <2>2
<1> QED  BY <1>1, <1>3, <1>4, <1>5, <1>6, ChangeStep

LEMMA DeleteEventStep == ASSUME RouteLimits, RouteInv, Routed!DeleteEvent PROVE RouteInv'
<1>1. /\ Routed!Change /\ eventThere' = FALSE /\ sameEvent' = FALSE /\ roleOf' = roleOf
      /\ eventJudges' = eventJudges /\ request' = request /\ rolesSince' = rolesSince /\ judgeSinceAsked' = judgeSinceAsked
      /\ walletConfig' = walletConfig /\ clientThere' = clientThere
  BY DEF Routed!DeleteEvent, Routed!Change
<1>2. OnItsWay(request) /\ RouteDocs /\ RouteHistory
  BY <1>1 DEF RouteInv, Routed!Change, Routed!Waiting, Underway
<1>3. RouteDocs'
  BY <1>1, <1>2 DEF RouteDocs
<1>4. /\ rolesSince \subseteq rolesSince' /\ rolesSince' \subseteq Routed!UserRole \cup {"none"}
      /\ request.caller \in Accounts => roleOf'[request.caller] \in rolesSince'
      /\ request.caller \in eventJudges' => judgeSinceAsked'
      /\ judgeSinceAsked \in BOOLEAN
  BY <1>1, <1>2 DEF OnItsWay, RouteHistory
<1>5. (judgeSinceAsked => judgeSinceAsked') /\ judgeSinceAsked' \in BOOLEAN
  <2>1. judgeSinceAsked' = judgeSinceAsked /\ judgeSinceAsked \in BOOLEAN
    BY <1>1, <1>4
  <2> QED  BY ONLY <2>1
<1> QED  BY <1>1, <1>3, <1>4, <1>5, ChangeStep

LEMMA RoutesNext == ASSUME RouteLimits, RouteInv, [Routed!Next]_(Routed!vars) PROVE RouteInv'
<1>1. CASE \E asked \in Routed!ToSet(Routed!Table), caller \in Accounts \cup {Routed!Nobody}, id \in Routed!Ids,
              valid \in BOOLEAN, judge \in Accounts : Routed!Ask(asked, caller, id, valid, judge)
  BY <1>1, AskStep
<1>2. CASE Routed!Validate
  BY <1>2, ValidateStep
<1>3. CASE Routed!ServeAlways \/ Routed!login \/ Routed!ServeSessions \/ Routed!getProfile \/ Routed!ServeEvent \/ Routed!addParticipant
  BY <1>3, ServeAlwaysStep, loginStep, ServeSessionsStep, getProfileStep, ServeEventStep,
     addParticipantStep
<1>4. CASE Routed!ServeOwn \/ Routed!triggerPayout \/ Routed!SaveFails \/ Routed!SaveEvent \/ Routed!deleteOne
  BY <1>4, ServeOwnStep, triggerPayoutStep, SaveFailsStep, SaveEventStep, deleteOneStep
<1>5. CASE Routed!validateSubmissionData \/ Routed!isJudge \/ Routed!isHost \/ Routed!FindSubmission \/ Routed!getJobStatus
  BY <1>5, validateSubmissionDataStep, isJudgeStep, isHostStep, FindSubmissionStep,
     getJobStatusStep
<1>6. CASE Routed!getEscrowAddress \/ Routed!recordDeposit \/ Routed!getEscrowBalance \/ Routed!executePayout
           \/ Routed!ServeByObjectId \/ Routed!DatabaseFails \/ Routed!DeleteEvent
  BY <1>6, getEscrowAddressStep, recordDepositStep, getEscrowBalanceStep, executePayoutStep,
     ServeByObjectIdStep, DatabaseFailsStep, DeleteEventStep
<1>7. CASE \E a \in Accounts, role \in Routed!UserRole \cup {"none"} : Routed!ChangeRole(a, role)
  BY <1>7, ChangeRoleStep
<1>8. CASE \E new \in SUBSET Accounts : Routed!EditJudges(new)
  BY <1>8, EditJudgesStep
<1>9. CASE UNCHANGED Routed!vars
  <2>1. UNCHANGED <<roleOf, eventThere, eventJudges, walletConfig, clientThere, request, rolesSince, judgeSinceAsked,
                    sameEvent, routeChanges>>
    BY <1>9 DEF Routed!vars, Routed!documents, Routed!history
  <2>2. RouteDocs' /\ RouteHistory' /\ Fields(request)'
    BY <2>1 DEF RouteInv, RouteDocs, RouteHistory, Fields
  <2>3. Underway'
    BY <2>1 DEF RouteInv, Underway, OnItsWay, Right, AllIsWell, Passed
  <2> QED  BY <2>2, <2>3 DEF RouteInv
<1> QED  BY <1>1, <1>2, <1>3, <1>4, <1>5, <1>6, <1>7, <1>8, <1>9 DEF Routed!Next

-----------------------------------------------------------------------------
(* The theorems.                                                             *)

LEMMA RoutesSpec == ASSUME RouteLimits PROVE Routed!Spec => []RouteInv
<1>1. Routed!Init => RouteInv
  BY RoutesInit
<1>2. RouteInv /\ [Routed!Next]_(Routed!vars) => RouteInv'
  BY RoutesNext
<1> QED  BY <1>1, <1>2, PTL DEF Routed!Spec

\* Documents and the request keep their types, and every answer has one of eight statuses.
THEOREM RoutesTypeCorrect == ASSUME RouteLimits PROVE Routed!Spec => []Routed!TypeOK
<1>1. RouteInv => Routed!TypeOK
  BY DEF RouteInv, RouteDocs, RouteHistory, Fields, RouteSteps, Underway, Right, Routed!TypeOK
<1> QED  BY <1>1, RoutesSpec, PTL

\* Every URL is served by the route it was declared with, except GET events/search, which
\* GET events/:id answers: no other route's path is fitted by the URLs of one declared later.
THEOREM RoutesAreTheirOwn == ASSUME RouteLimits PROVE Routed!Spec => []Routed!OwnRouteServes
<1>1. RouteInv => Routed!OwnRouteServes
  BY DEF RouteInv, Fields, OwnRoute, Routed!OwnRouteServes
<1> QED  BY <1>1, RoutesSpec, PTL

\* Whoever changes roles, judges and the event while the request waits: what is behind a
\* guard is done only for a caller who has had a role that it asks for since the request
\* came, what belongs to the host for the host, a score given by the host or a judge.
THEOREM OnlyForTheEntitled == ASSUME RouteLimits PROVE Routed!Spec => []Routed!DoneForTheEntitled
<1>1. ASSUME RouteInv PROVE Routed!DoneForTheEntitled
  <2> SUFFICES ASSUME Routed!Answer(Routed!Success) PROVE Routed!DoneForTheEntitled
    BY DEF Routed!DoneForTheEntitled
  <2>1. Right(request, request.status) /\ request.status \in {200, 201, 204}
    BY <1>1 DEF RouteInv, Underway, Routed!Answer, Routed!Success, Right
  <2> QED  BY <2>1 DEF Right, Passed, Routed!DoneForTheEntitled, Routed!Needs
<1> QED  BY <1>1, RoutesSpec, PTL

\* Nobody learns from a guarded route what an event is like without a role of the guard,
\* and nobody who has it all along is turned away by the guards.
THEOREM NothingForOthers == ASSUME RouteLimits PROVE Routed!Spec => []Routed!OthersLearnNothing
<1>1. ASSUME RouteInv PROVE Routed!OthersLearnNothing
  <2>1. CASE request.step = "answered"
    <3>1. Right(request, request.status)
      BY <1>1, <2>1 DEF RouteInv, Underway
    <3>2. request.status \in Routed!Success \cup {400, 404} => request.status \in {200, 201, 204, 400, 404}
      BY <3>1 DEF Right, Routed!Success
    <3> QED  BY <3>1, <3>2 DEF Right, Passed, Routed!OthersLearnNothing, Routed!Answer, Routed!Needs
  <2>2. CASE request.step # "answered"
    BY <2>2 DEF Routed!OthersLearnNothing, Routed!Answer
  <2> QED  BY <2>1, <2>2
<1> QED  BY <1>1, RoutesSpec, PTL

\* The host whose event nobody changes meanwhile gets what it asks for with a valid body,
\* or hears of a query that failed.
THEOREM HostGetsThrough == ASSUME RouteLimits PROVE Routed!Spec => []Routed!HostIsServed
<1>1. ASSUME RouteInv PROVE Routed!HostIsServed
  <2> SUFFICES ASSUME AllIsWell(request), request.step = "answered"
               PROVE  Routed!Answer(Routed!Success \cup {500})
    BY DEF Routed!HostIsServed, AllIsWell, Routed!Needs
  <2>1. request.status \in {200, 201, 204, 500}
    BY <1>1 DEF RouteInv, Underway, Right
  <2> QED  BY <2>1 DEF Routed!Answer, Routed!Success
<1> QED  BY <1>1, RoutesSpec, PTL

\* A successful answer is about an event there was, and NotFound about one there is not.
THEOREM TrueAnswers == ASSUME RouteLimits PROVE Routed!Spec => []Routed!AnswersAreTrue
<1>1. ASSUME RouteInv PROVE Routed!AnswersAreTrue
  <2>1. CASE request.step = "answered"
    <3>1. Right(request, request.status)
      BY <1>1, <2>1 DEF RouteInv, Underway
    <3>2. request.status \in Routed!Success => request.status \in {200, 201, 204}
      BY <3>1 DEF Right, Routed!Success
    <3> QED  BY <3>1, <3>2 DEF Right, Routed!AnswersAreTrue, Routed!Answer, Routed!Needs
  <2>2. CASE request.step # "answered"
    BY <2>2 DEF Routed!AnswersAreTrue, Routed!Answer
  <2> QED  BY <2>1, <2>2
<1> QED  BY <1>1, RoutesSpec, PTL

-----------------------------------------------------------------------------
(* Tokens.                                                                   *)

TokenLimits ==
    /\ defaultRole \in Roles /\ TOKEN_EXPIRY \in Nat
    /\ MaxRoleChanges \in Nat /\ MaxTokenTime \in Nat \ {0}

TokenTypes ==
    /\ userRole \in SUBSET Roles /\ (userRole = {} \/ \E x \in Roles : userRole = {x})
    /\ tokenLogin \subseteq Roles
    /\ tokens \subseteq [role : Roles, iat : 1 .. tokenTime]
    /\ guarded \in [Requests -> [step : {"none", "findByAddress", "handler"},
                                 guard : Signers!Guards, required : Roles, role : Roles]]
    /\ rolesHeld \in [Requests -> SUBSET Roles]
    /\ roleLast \in [Roles -> 0 .. tokenTime] /\ tokenTime \in 1 .. MaxTokenTime

\* The user's role, and the one a login has read, the user has now; the role in a token the
\* user has had since the token was new.
RolesSince ==
    /\ \A x \in userRole \cup tokenLogin : roleLast[x] = tokenTime
    /\ \A t \in tokens : t.iat <= roleLast[t.role]

\* What the guards have found out, or are about to, of request q.
Guarded(q, roles) ==
    /\ q.step = "findByAddress" => q.guard = "JwtStrategy"
    /\ q.step # "none" => userRole \subseteq roles
    /\ q.step = "handler" =>
         /\ q.guard = "JwtStrategy" => q.required \in roles
         /\ q.guard # "JwtStrategy" =>
              roleLast[q.required] > 0 /\ tokenTime - roleLast[q.required] < TOKEN_EXPIRY

TokensInv ==
    /\ TokenTypes /\ RolesSince
    /\ \A r \in Requests : Guarded(guarded[r], rolesHeld[r])

LEMMA TokensInit == ASSUME TokenLimits, Signers!Init PROVE TokensInv
BY DEF TokenLimits, Signers!Init, Signers!NoRequest, Signers!Guards, TokensInv, TokenTypes,
       RolesSince, Guarded

\* A write of the document only makes the user's roles more recent.
LEMMA RoleWritten ==
  ASSUME TokenLimits, TokensInv, NEW new, new = {} \/ \E x \in Roles : new = {x},
         Signers!Write(new), UNCHANGED <<tokens, guarded, tokenTime>>,
         tokenLogin' \in {tokenLogin, new}
  PROVE  TokensInv'
<1>1. new \in SUBSET Roles
  OBVIOUS
<1>2. /\ roleLast' \in [Roles -> 0 .. tokenTime]
      /\ \A x \in Roles : roleLast'[x] >= roleLast[x]
      /\ \A x \in Roles : roleLast[x] = tokenTime \/ x \in new => roleLast'[x] = tokenTime
  BY <1>1 DEF Signers!Write, TokensInv, TokenTypes, TokenLimits
<1>3. rolesHeld' \in [Requests -> SUBSET Roles]
      /\ \A r \in Requests : rolesHeld'[r] = rolesHeld[r] \cup new
  BY <1>1 DEF Signers!Write, TokensInv, TokenTypes
<1>4. TokenTypes'
  BY <1>1, <1>2, <1>3 DEF TokensInv, TokenTypes, Signers!Write
<1>5. RolesSince'
  <2>1. \A x \in userRole' \cup tokenLogin' : roleLast'[x] = tokenTime'
    BY <1>1, <1>2 DEF Signers!Write, TokensInv, TokenTypes, RolesSince
  <2>2. \A t \in tokens : t.role \in Roles /\ t.iat \in Nat /\ roleLast[t.role] \in Nat
    BY DEF TokensInv, TokenTypes
  <2>3. \A t \in tokens : t.iat <= roleLast'[t.role]
    BY <1>2, <2>2 DEF TokensInv, RolesSince, TokenTypes
  <2> QED  BY <2>1, <2>3 DEF RolesSince
<1>6. ASSUME NEW r \in Requests PROVE Guarded(guarded[r], rolesHeld[r])'
  <2>1. guarded[r].required \in Roles /\ guarded'[r] = guarded[r]
    BY DEF TokensInv, TokenTypes
  <2>2. Guarded(guarded[r], rolesHeld[r])
    BY DEF TokensInv
  <2>3. /\ roleLast[guarded[r].required] \in Nat /\ roleLast'[guarded[r].required] \in Nat
        /\ tokenTime \in Nat /\ tokenTime' = tokenTime /\ TOKEN_EXPIRY \in Nat
        /\ roleLast'[guarded[r].required] >= roleLast[guarded[r].required]
    BY <1>2, <2>1 DEF TokensInv, TokenTypes, TokenLimits
  <2> QED  BY <1>3, <2>1, <2>2, <2>3 DEF Guarded, Signers!Write
<1> QED  BY <1>4, <1>5, <1>6 DEF TokensInv

\* One request goes on, and the documents stay.
LEMMA RequestGoesOn ==
  ASSUME TokenLimits, TokensInv, NEW r \in Requests, NEW q, NEW roles,
         guarded' = [guarded EXCEPT ![r] = q], rolesHeld' = [rolesHeld EXCEPT ![r] = roles],
         UNCHANGED <<userRole, tokens, tokenLogin, roleLast, tokenTime>>,
         q \in [step : {"none", "findByAddress", "handler"}, guard : Signers!Guards,
                required : Roles, role : Roles],
         roles \in SUBSET Roles, Guarded(q, roles)
  PROVE  TokensInv'
<1>1. TokenTypes'
  BY DEF TokensInv, TokenTypes
<1>2. RolesSince'
  BY DEF TokensInv, RolesSince
<1>3. ASSUME NEW s \in Requests PROVE Guarded(guarded[s], rolesHeld[s])'
  BY DEF TokensInv, TokenTypes, Guarded
<1> QED  BY <1>1, <1>2, <1>3 DEF TokensInv

LEMMA RequestStep ==
  ASSUME TokenLimits, TokensInv, NEW r \in Requests, NEW t \in tokens, NEW g \in Signers!Guards,
         NEW required \in Roles, Signers!Request(r, t, g, required)
  PROVE  TokensInv'
<1> DEFINE q == [guard |-> g, required |-> required, role |-> t.role,
                 step |-> IF g = "JwtStrategy" THEN "findByAddress"
                          ELSE Signers!PastRoles(t.role, required)]
<1>1. /\ t.role \in Roles /\ t.iat \in 1 .. tokenTime /\ t.iat <= roleLast[t.role]
      /\ roleLast[t.role] \in Nat /\ tokenTime \in Nat /\ userRole \in SUBSET Roles
      /\ TOKEN_EXPIRY \in Nat
  BY DEF TokensInv, TokenTypes, RolesSince, TokenLimits
<1>2. q \in [step : {"none", "findByAddress", "handler"}, guard : Signers!Guards,
             required : Roles, role : Roles]
  BY <1>1 DEF Signers!PastRoles
<1>3. Guarded(q, userRole)
  BY <1>1 DEF Guarded, Signers!PastRoles, Signers!HasRole, Signers!Request, Signers!IsValid,
              Signers!Guards
<1>4. /\ guarded' = [guarded EXCEPT ![r] = q]
      /\ rolesHeld' = [rolesHeld EXCEPT ![r] = userRole]
      /\ UNCHANGED <<userRole, tokens, tokenLogin, roleLast, tokenTime>>
  BY DEF Signers!Request
<1> HIDE DEF q
<1> QED  BY <1>1, <1>2, <1>3, <1>4, RequestGoesOn

LEMMA AnswerOrValidate ==
  ASSUME TokenLimits, TokensInv, NEW r \in Requests, Signers!Validate(r) \/ Signers!Answer(r)
  PROVE  TokensInv'
<1> DEFINE step == IF guarded[r].step = "findByAddress"
                      /\ \E x \in userRole : Signers!HasRole(x, guarded[r].required)
                   THEN "handler" ELSE "none"
           q == [guarded[r] EXCEPT !.step = step]
<1>1. /\ guarded \in [Requests -> [step : {"none", "findByAddress", "handler"},
                                   guard : Signers!Guards, required : Roles, role : Roles]]
      /\ rolesHeld \in [Requests -> SUBSET Roles] /\ Guarded(guarded[r], rolesHeld[r])
  BY DEF TokensInv, TokenTypes
<1>2. /\ q \in [step : {"none", "findByAddress", "handler"}, guard : Signers!Guards,
                required : Roles, role : Roles]
      /\ q.step = step /\ q.guard = guarded[r].guard /\ q.required = guarded[r].required
  BY <1>1
<1>3. Guarded(q, rolesHeld[r])
  BY <1>1, <1>2 DEF Guarded, Signers!HasRole
<1>4. /\ guarded' = [guarded EXCEPT ![r] = q]
      /\ rolesHeld' = [rolesHeld EXCEPT ![r] = rolesHeld[r]]
      /\ UNCHANGED <<userRole, tokens, tokenLogin, roleLast, tokenTime>>
  BY <1>1 DEF Signers!Validate, Signers!Answer, Signers!Unwritten
<1>5. rolesHeld[r] \in SUBSET Roles
  BY <1>1
<1> HIDE DEF q
<1> QED  BY <1>2, <1>3, <1>4, <1>5, RequestGoesOn

LEMMA TokenSigned ==
  ASSUME TokenLimits, TokensInv, Signers!Sign \/ Signers!FindByAddress
  PROVE  TokensInv'
<1>1. /\ UNCHANGED <<userRole, guarded, rolesHeld, roleLast, tokenTime>>
      /\ tokenLogin' \in {{}, userRole}
  BY DEF Signers!Sign, Signers!FindByAddress, Signers!Unwritten
<1>2. \A t \in tokens' : t \in tokens \/ \E x \in tokenLogin : t = [role |-> x, iat |-> tokenTime]
  BY DEF Signers!Sign, Signers!FindByAddress
<1>3. tokens' \subseteq [role : Roles, iat : 1 .. tokenTime]
  BY <1>2 DEF TokensInv, TokenTypes
<1>4. TokenTypes'
  BY <1>1, <1>3 DEF TokensInv, TokenTypes
<1>5. \A t \in tokens' : t.iat <= roleLast[t.role]
  <2> SUFFICES ASSUME NEW x \in tokenLogin, NEW t, t = [role |-> x, iat |-> tokenTime]
               PROVE  t.iat <= roleLast[t.role]
    BY <1>2 DEF TokensInv, RolesSince
  <2> QED  BY DEF TokensInv, RolesSince, TokenTypes
<1>6. RolesSince'
  BY <1>1, <1>5 DEF TokensInv, RolesSince
<1>7. \A r \in Requests : Guarded(guarded[r], rolesHeld[r])'
  BY <1>1 DEF TokensInv, Guarded
<1> QED  BY <1>4, <1>6, <1>7 DEF TokensInv

LEMMA TokenTick ==
  ASSUME TokenLimits, TokensInv, Signers!Tick
  PROVE  TokensInv'
<1>1. /\ UNCHANGED <<userRole, tokens, tokenLogin, guarded, rolesHeld>> /\ tokenLogin = {}
      /\ tokenTime' = tokenTime + 1 /\ tokenTime \in Nat /\ tokenTime' \in 1 .. MaxTokenTime
      /\ \A r \in Requests : guarded[r].step = "none"
  BY DEF Signers!Tick, TokensInv, TokenTypes, TokenLimits
<1>2. /\ roleLast' \in [Roles -> 0 .. tokenTime'] /\ \A x \in Roles : roleLast'[x] >= roleLast[x]
      /\ \A x \in userRole : roleLast'[x] = tokenTime'
  BY <1>1 DEF Signers!Tick, TokensInv, TokenTypes
<1>3. TokenTypes'
  <2>1. 1 .. tokenTime \subseteq 1 .. tokenTime'
    BY <1>1
  <2>2. tokens' \subseteq [role : Roles, iat : 1 .. tokenTime']
    BY <1>1, <2>1 DEF TokensInv, TokenTypes
  <2> QED  BY <1>1, <1>2, <2>2 DEF TokensInv, TokenTypes
<1>4. RolesSince'
  <2>1. \A t \in tokens : t.role \in Roles /\ t.iat \in Nat /\ roleLast[t.role] \in Nat
                          /\ t.iat <= roleLast[t.role]
    BY DEF TokensInv, TokenTypes, RolesSince
  <2>2. \A t \in tokens : t.iat <= roleLast'[t.role]
    BY <1>2, <2>1, <1>1
  <2> QED  BY <1>1, <1>2, <2>2 DEF RolesSince
<1>5. \A r \in Requests : Guarded(guarded[r], rolesHeld[r])'
  BY <1>1 DEF Guarded
<1> QED  BY <1>3, <1>4, <1>5 DEF TokensInv

LEMMA TokensNext ==
  ASSUME TokenLimits, TokensInv, [Signers!Next]_(Signers!vars)
  PROVE  TokensInv'
<1>1. CASE Signers!Upsert
  <2> DEFINE new == IF userRole = {} THEN {defaultRole} ELSE userRole
  <2>1. new = {} \/ \E x \in Roles : new = {x}
    BY DEF TokenLimits, TokensInv, TokenTypes
  <2>2. /\ Signers!Write(new) /\ tokenLogin' \in {tokenLogin, new}
        /\ UNCHANGED <<tokens, guarded, tokenTime>>
    BY <1>1 DEF Signers!Upsert, Signers!Write
  <2> HIDE DEF new
  <2> QED  BY <2>1, <2>2, RoleWritten
<1>2. CASE Signers!deleteUser
  BY <1>2, RoleWritten DEF Signers!deleteUser, Signers!Update
<1>3. CASE \E x \in Roles : Signers!updateRole(x)
  BY <1>3, RoleWritten DEF Signers!updateRole, Signers!Update
<1>4. CASE UNCHANGED Signers!vars
  BY <1>4 DEF Signers!vars, TokensInv, TokenTypes, RolesSince, Guarded
<1> QED
  BY <1>1, <1>2, <1>3, <1>4, TokenSigned, RequestStep, AnswerOrValidate, TokenTick
  DEF Signers!Next

LEMMA TokensSpec == ASSUME TokenLimits PROVE Signers!Spec => []TokensInv
<1>1. Signers!Init => TokensInv
  BY TokensInit
<1>2. TokensInv /\ [Signers!Next]_(Signers!vars) => TokensInv'
  BY TokensNext
<1> QED  BY <1>1, <1>2, PTL DEF Signers!Spec

\* The user's document, tokens, logins and requests keep their types, and no time is ahead.
THEOREM TokensTypeCorrect == ASSUME TokenLimits PROVE Signers!Spec => []Signers!TypeOK
<1>1. TokensInv => Signers!TypeOK
  BY DEF TokensInv, TokenTypes, Signers!TypeOK
<1> QED  BY <1>1, TokensSpec, PTL

\* However roles change and users go between logins, tokens and guarded requests, a handler
\* behind JwtStrategy is for who has had the role since the request came, and one behind
\* AuthGuard for who has had it less than the lifetime of a token ago.
THEOREM RolesEndWithTheToken ==
  ASSUME TokenLimits PROVE Signers!Spec => []Signers!RolesAreNotOutlived
<1>1. TokensInv => Signers!RolesAreNotOutlived
  BY DEF TokensInv, Guarded, Signers!RolesAreNotOutlived
<1> QED  BY <1>1, TokensSpec, PTL

-----------------------------------------------------------------------------
(* Submissions.                                                              *)

EntrySteps == {"new", "findById", "isHost", "isJudge", "all", "winners", "done", "notFound",
               "refused"}

EntryDocs ==
    /\ eventExists \in BOOLEAN /\ isTheJudge \in BOOLEAN
    /\ submissions \in Seq([status : Entries!SubmissionStatus,
                            score : Scores \cup {Entries!NoScore}])

EntryTypes ==
    /\ DOMAIN entryCalls = Readers
    /\ entriesAtStart \in [Readers -> SUBSET DOMAIN submissions]
    /\ DOMAIN winnersSince = Readers
    /\ judgeSince \in [Readers -> SUBSET BOOLEAN]

\* A call is the same one in spite of the step it has come to and of what it has seen.
At(k, step, seen) == [op |-> k.op, caller |-> k.caller, step |-> step, seen |-> seen]

\* What is known of call k that began with these submissions, of these winners since then,
\* and of the caller's having been a judge, or not, since then.
CallOK(k, began, winners, judged) ==
    /\ k = At(k, k.step, k.seen) /\ k.op \in Entries!Ops /\ k.caller \in Entries!Callers
    /\ k.step \in EntrySteps
    /\ Entries!getWinners \subseteq winners
    /\ k.step # "new" => isTheJudge \in judged
    /\ k.step = "isHost" => k.caller # "nobody"
    /\ k.step = "isJudge" => k.caller = "other"
    /\ k.step = "all" => k.caller = "host" \/ (k.caller = "other" /\ TRUE \in judged)
    /\ k.step = "winners" => k.caller = "nobody" \/ (k.caller = "other" /\ FALSE \in judged)
    /\ k.step = "done" =>
         /\ k.seen \subseteq winners \/ k.caller = "host"
            \/ (k.caller = "other" /\ TRUE \in judged)
         /\ \/ began \subseteq k.seen \/ k.caller = "nobody"
            \/ k.caller = "other" /\ FALSE \in judged

Entry(op, caller, step, seen) == [op |-> op, caller |-> caller, step |-> step, seen |-> seen]

EntriesInv ==
    /\ EntryDocs /\ EntryTypes
    /\ \A c \in Readers : CallOK(entryCalls[c], entriesAtStart[c], winnersSince[c], judgeSince[c])

LEMMA EntriesInit == ASSUME Entries!Init PROVE EntriesInv
<1>1. submissions = <<>> /\ DOMAIN submissions = {} /\ Entries!getWinners = {}
  BY DEF Entries!Init, Entries!getWinners, Entries!findByEventAndStatus
<1>2. EntryDocs /\ EntryTypes
  BY <1>1 DEF Entries!Init, EntryDocs, EntryTypes
<1>3. ASSUME NEW c \in Readers
      PROVE  CallOK(entryCalls[c], entriesAtStart[c], winnersSince[c], judgeSince[c])
  <2> DEFINE k == [op |-> "update", caller |-> "nobody", step |-> "new", seen |-> {}]
  <2>1. entryCalls[c] = k
    BY DEF Entries!Init
  <2>2. k = At(k, k.step, k.seen) /\ k.op = "update" /\ k.caller = "nobody" /\ k.step = "new"
    BY DEF At
  <2> HIDE DEF k
  <2> QED  BY <1>1, <2>1, <2>2 DEF CallOK, EntrySteps, Entries!Ops, Entries!Callers
<1> QED  BY <1>2, <1>3 DEF EntriesInv

\* One call goes on, and nothing else happens.
LEMMA CallGoesOn ==
  ASSUME EntriesInv, NEW c \in Readers, NEW k, entryCalls' = [entryCalls EXCEPT ![c] = k],
         CallOK(k, entriesAtStart[c], winnersSince[c], judgeSince[c]),
         UNCHANGED <<eventExists, isTheJudge, submissions, entriesAtStart, winnersSince,
                     judgeSince, entryChanges>>
  PROVE  EntriesInv'
<1>1. EntryDocs' /\ EntryTypes'
  BY DEF EntriesInv, EntryDocs, EntryTypes
<1>2. Entries!getWinners' = Entries!getWinners
  BY DEF Entries!getWinners, Entries!findByEventAndStatus
<1>3. ASSUME NEW d \in Readers
      PROVE  CallOK(entryCalls[d], entriesAtStart[d], winnersSince[d], judgeSince[d])'
  <2>1. entryCalls'[d] = IF d = c THEN k ELSE entryCalls[d]
    BY DEF EntriesInv, EntryTypes
  <2>2. CallOK(entryCalls'[d], entriesAtStart[d], winnersSince[d], judgeSince[d])
    BY <2>1 DEF EntriesInv
  <2> QED  BY <1>2, <2>2 DEF CallOK
<1> QED  BY <1>1, <1>3 DEF EntriesInv

\* Going to a step that says nothing of what is known.
LEMMA CallGoesTo ==
  ASSUME EntriesInv, NEW c \in Readers, entryCalls[c].step # "new",
         NEW step \in EntrySteps \ {"new", "done"},
         Entries!Goto(c, step),
         step = "isHost" => entryCalls[c].caller # "nobody",
         step = "isJudge" => entryCalls[c].caller = "other",
         step = "all" => \/ entryCalls[c].caller = "host"
                         \/ entryCalls[c].caller = "other" /\ TRUE \in judgeSince[c],
         step = "winners" => \/ entryCalls[c].caller = "nobody"
                             \/ entryCalls[c].caller = "other" /\ FALSE \in judgeSince[c],
         UNCHANGED <<eventExists, isTheJudge, submissions, entriesAtStart, winnersSince,
                     judgeSince, entryChanges>>
  PROVE  EntriesInv'
<1> DEFINE k == entryCalls[c]
           to == At(k, step, k.seen)
<1>1. CallOK(k, entriesAtStart[c], winnersSince[c], judgeSince[c])
  BY DEF EntriesInv
<1>2. entryCalls' = [entryCalls EXCEPT ![c] = to]
  <2>1. k = At(k, k.step, k.seen)
    BY <1>1 DEF CallOK
  <2>2. [k EXCEPT !.step = step] = to
    BY <2>1 DEF At
  <2> QED  BY <2>2 DEF Entries!Goto
<1>3. /\ to.op = k.op /\ to.caller = k.caller /\ to.step = step /\ to.seen = k.seen
      /\ to = At(to, to.step, to.seen)
  BY DEF At
<1>4. CallOK(to, entriesAtStart[c], winnersSince[c], judgeSince[c])
  <2> HIDE DEF to, k
  <2> QED  BY <1>1, <1>3 DEF CallOK, k
<1> QED  BY <1>2, <1>4, CallGoesOn

LEMMA EntryRequested ==
  ASSUME EntriesInv, NEW c \in Readers, NEW op \in Entries!Ops, NEW caller \in Entries!Callers,
         Entries!Request(c, op, caller)
  PROVE  EntriesInv'
<1> DEFINE k == entryCalls[c]
           to == [op |-> op, caller |-> caller, step |-> "findById", seen |-> k.seen]
<1>1. CallOK(k, entriesAtStart[c], winnersSince[c], judgeSince[c])
  BY DEF EntriesInv
<1>2. entryCalls' = [entryCalls EXCEPT ![c] = to]
  <2>1. k = At(k, k.step, k.seen)
    BY <1>1 DEF CallOK
  <2>2. [[[k EXCEPT !.op = op] EXCEPT !.caller = caller] EXCEPT !.step = "findById"] = to
    <3> HIDE DEF k
    <3>1. k = Entry(k.op, k.caller, k.step, k.seen)
      BY Zenon, <2>1 DEF At, Entry
    <3>2. PICK a, b, x, y : k = Entry(a, b, x, y) /\ y = k.seen
      BY Zenon, <3>1
    <3> DEFINE k1 == [k EXCEPT !.op = op]
               k2 == [k1 EXCEPT !.caller = caller]
    <3>3. k1 = Entry(op, b, x, y)
      BY <3>2 DEF Entry
    <3>4. k2 = Entry(op, caller, x, y)
      <4> HIDE DEF k1
      <4> QED  BY <3>3 DEF Entry
    <3>5. [k2 EXCEPT !.step = "findById"] = Entry(op, caller, "findById", y)
      <4> HIDE DEF k2
      <4> QED  BY <3>4 DEF Entry
    <3> QED  BY Zenon, <3>2, <3>5 DEF Entry
  <2>3. DOMAIN entryCalls = Readers
    BY DEF EntriesInv, EntryTypes
  <2>4. entryCalls' = [entryCalls EXCEPT ![c] =
                         [[[k EXCEPT !.op = op] EXCEPT !.caller = caller] EXCEPT !.step = "findById"]]
    BY <2>3 DEF Entries!Request
  <2> QED  BY <2>2, <2>4
<1>3. to.op = op /\ to.caller = caller /\ to.step = "findById" /\ to = At(to, to.step, to.seen)
  BY DEF At
<1>4. EntryDocs' /\ EntryTypes'
  <2>1. submissions' = submissions /\ isTheJudge \in BOOLEAN
    BY DEF EntriesInv, EntryDocs, Entries!Request, Entries!Document
  <2>2. EntryDocs'
    BY DEF EntriesInv, EntryDocs, Entries!Request, Entries!Document
  <2> QED  BY <2>1, <2>2, <1>2 DEF EntriesInv, EntryTypes, Entries!Request
<1>5. Entries!getWinners' = Entries!getWinners /\ isTheJudge' = isTheJudge
  BY DEF Entries!getWinners, Entries!findByEventAndStatus, Entries!Request, Entries!Document
<1>6. ASSUME NEW d \in Readers
      PROVE  CallOK(entryCalls[d], entriesAtStart[d], winnersSince[d], judgeSince[d])'
  <2>1. CASE d = c
    <3>1. /\ entryCalls'[d] = to /\ winnersSince'[d] = Entries!getWinners
          /\ judgeSince'[d] = {isTheJudge}
      BY <1>2, <2>1 DEF EntriesInv, EntryTypes, Entries!Request
    <3> HIDE DEF to
    <3> QED  BY <1>3, <1>5, <3>1 DEF CallOK, EntrySteps
  <2>2. CASE d # c
    <3>1. /\ entryCalls'[d] = entryCalls[d] /\ winnersSince'[d] = winnersSince[d]
          /\ judgeSince'[d] = judgeSince[d] /\ entriesAtStart'[d] = entriesAtStart[d]
      BY <1>2, <2>2 DEF EntriesInv, EntryTypes, Entries!Request
    <3>2. CallOK(entryCalls[d], entriesAtStart[d], winnersSince[d], judgeSince[d])
      BY DEF EntriesInv
    <3>4. CallOK(entryCalls'[d], entriesAtStart'[d], winnersSince'[d], judgeSince'[d])
      BY Zenon, <3>1, <3>2
    <3>5. isTheJudge \in judgeSince'[d] => isTheJudge' \in judgeSince'[d]
      BY Zenon, <1>5
    <3> QED  BY <1>5, <3>4, <3>5 DEF CallOK
  <2> QED  BY <2>1, <2>2
<1> QED  BY <1>4, <1>6 DEF EntriesInv

LEMMA EntryChecked ==
  ASSUME EntriesInv, NEW c \in Readers,
         Entries!VerifyEvent(c) \/ Entries!isHost(c) \/ Entries!isJudge(c) \/ Entries!ChangeOwn(c)
  PROVE  EntriesInv'
<1> DEFINE k == entryCalls[c]
<1>1. CallOK(k, entriesAtStart[c], winnersSince[c], judgeSince[c])
  BY DEF EntriesInv
<1>2. k.caller \in {"nobody", "host", "other"}
  BY <1>1 DEF CallOK, Entries!Callers
<1>3. UNCHANGED <<eventExists, isTheJudge, submissions, entriesAtStart, winnersSince,
                  judgeSince, entryChanges>>
  BY DEF Entries!VerifyEvent, Entries!isHost, Entries!isJudge, Entries!ChangeOwn,
         Entries!findById, Entries!Document, Entries!History
<1>4. CASE Entries!VerifyEvent(c)
  <2>1. k.step = "findById" /\ \E step \in {"winners", "isHost", "notFound"} :
          /\ Entries!Goto(c, step)
          /\ step = "winners" => k.caller = "nobody"
          /\ step = "isHost" => k.caller # "nobody"
    BY <1>4 DEF Entries!VerifyEvent, Entries!findById
  <2> QED  BY <1>3, <2>1, CallGoesTo DEF EntrySteps
<1>5. CASE Entries!isHost(c)
  <2>1. k.step = "isHost" /\ \E step \in {"all", "isJudge", "notFound"} :
          /\ Entries!Goto(c, step)
          /\ step = "all" => k.caller = "host"
          /\ step = "isJudge" => k.caller # "host"
    BY <1>5 DEF Entries!isHost, Entries!findById
  <2>2. k.caller # "nobody"
    BY <1>1, <2>1 DEF CallOK
  <2> QED  BY <1>2, <1>3, <2>1, <2>2, CallGoesTo DEF EntrySteps
<1>6. CASE Entries!isJudge(c)
  <2>1. k.step = "isJudge" /\ \E step \in {"all", "winners", "notFound"} :
          /\ Entries!Goto(c, step)
          /\ step = "all" => isTheJudge
          /\ step = "winners" => ~isTheJudge
    BY <1>6 DEF Entries!isJudge, Entries!findById
  <2>2. k.caller = "other" /\ isTheJudge \in judgeSince[c]
    BY <1>1, <2>1 DEF CallOK
  <2>3. (isTheJudge => TRUE \in judgeSince[c]) /\ (~isTheJudge => FALSE \in judgeSince[c])
    <3>1. isTheJudge \in BOOLEAN
      BY DEF EntriesInv, EntryDocs
    <3> QED  BY Zenon, <2>2, <3>1
  <2> QED  BY <1>3, <2>1, <2>2, <2>3, CallGoesTo DEF EntrySteps
<1>7. CASE Entries!ChangeOwn(c)
  <2>1. \A n \in DOMAIN submissions : submissions[n].status \in Entries!SubmissionStatus
    <3> DEFINE S == [status : Entries!SubmissionStatus, score : Scores \cup {Entries!NoScore}]
    <3>1. submissions \in Seq(S)
      BY DEF EntriesInv, EntryDocs
    <3>2. \A s \in S : s.status \in Entries!SubmissionStatus
      OBVIOUS
    <3> HIDE DEF S
    <3>3. \A n \in DOMAIN submissions : submissions[n] \in S
      BY <3>1
    <3> QED  BY <3>2, <3>3
  <2>2. k.step = "findById" /\ Entries!Goto(c, "refused")
    BY <1>7, <2>1 DEF Entries!ChangeOwn, Entries!update, Entries!delete, Entries!MayChange,
                      Entries!PENDING, Entries!SubmissionStatus
  <2> QED  BY <1>3, <2>2, CallGoesTo DEF EntrySteps
<1> QED  BY <1>4, <1>5, <1>6, <1>7

LEMMA EntriesShown ==
  ASSUME EntriesInv, NEW c \in Readers, Entries!findByEvent(c)
  PROVE  EntriesInv'
<1> DEFINE k == entryCalls[c]
           seen == IF k.step = "all" THEN DOMAIN submissions ELSE Entries!getWinners
           to == At(k, "done", seen)
<1>1. CallOK(k, entriesAtStart[c], winnersSince[c], judgeSince[c])
  BY DEF EntriesInv
<1>2. entryCalls' = [entryCalls EXCEPT ![c] = to]
  <2>1. k = At(k, k.step, k.seen)
    BY <1>1 DEF CallOK
  <2>2. [[k EXCEPT !.step = "done"] EXCEPT !.seen = seen] = to
    <3> HIDE DEF k, seen
    <3>1. k = Entry(k.op, k.caller, k.step, k.seen)
      BY Zenon, <2>1 DEF At, Entry
    <3>2. PICK a, b, x, y : k = Entry(a, b, x, y) /\ a = k.op /\ b = k.caller
      BY Zenon, <3>1
    <3> DEFINE k1 == [k EXCEPT !.step = "done"]
    <3>3. k1 = Entry(a, b, "done", y)
      BY <3>2 DEF Entry
    <3>4. [k1 EXCEPT !.seen = seen] = Entry(a, b, "done", seen)
      <4> HIDE DEF k1
      <4> QED  BY <3>3 DEF Entry
    <3> QED  BY Zenon, <3>2, <3>4 DEF Entry, At
  <2>3. entryCalls' = [entryCalls EXCEPT ![c] = [[k EXCEPT !.step = "done"] EXCEPT !.seen = seen]]
    BY DEF EntriesInv, EntryTypes, Entries!findByEvent
  <2> QED  BY <2>2, <2>3
<1>3. /\ to.op = k.op /\ to.caller = k.caller /\ to.step = "done" /\ to.seen = seen
      /\ to = At(to, to.step, to.seen)
  BY DEF At
<1>4. entriesAtStart[c] \subseteq DOMAIN submissions
  BY DEF EntriesInv, EntryTypes
<1>5. k.step \in {"all", "winners"}
  BY DEF Entries!findByEvent
<1>6. CallOK(to, entriesAtStart[c], winnersSince[c], judgeSince[c])
  <2>1. CASE k.step = "all"
    <3>1. seen = DOMAIN submissions
      BY <2>1
    <3> HIDE DEF to, seen, k
    <3> QED  BY <1>1, <1>3, <1>4, <2>1, <3>1 DEF CallOK, EntrySteps
  <2>2. CASE k.step = "winners"
    <3>1. seen = Entries!getWinners
      BY <2>2
    <3> HIDE DEF to, seen, k
    <3> QED  BY <1>1, <1>3, <1>4, <2>2, <3>1 DEF CallOK, EntrySteps
  <2> QED  BY <1>5, <2>1, <2>2
<1>7. UNCHANGED <<eventExists, isTheJudge, submissions, entriesAtStart, winnersSince,
                  judgeSince, entryChanges>>
  BY DEF Entries!findByEvent, Entries!Document, Entries!History
<1> HIDE DEF to
<1> QED  BY <1>2, <1>6, <1>7, CallGoesOn

\* The calls stay where they are while the documents change: the winners there are now are
\* recorded, and so is what the caller is now.
LEMMA EntriesChange ==
  ASSUME EntriesInv, UNCHANGED <<entryCalls, entriesAtStart>>,
         EntryDocs', DOMAIN submissions \subseteq DOMAIN submissions',
         DOMAIN winnersSince' = Readers, judgeSince' \in [Readers -> SUBSET BOOLEAN],
         \A c \in Readers : /\ winnersSince[c] \subseteq winnersSince'[c]
                            /\ Entries!getWinners' \subseteq winnersSince'[c]
                            /\ judgeSince[c] \subseteq judgeSince'[c]
                            /\ isTheJudge' = isTheJudge \/ isTheJudge' \in judgeSince'[c]
  PROVE  EntriesInv'
<1>1. EntryTypes'
  BY DEF EntriesInv, EntryTypes
<1>2. ASSUME NEW c \in Readers
      PROVE  CallOK(entryCalls[c], entriesAtStart[c], winnersSince[c], judgeSince[c])'
  <2>1. CallOK(entryCalls[c], entriesAtStart[c], winnersSince[c], judgeSince[c])
    BY DEF EntriesInv
  <2>2. /\ entryCalls'[c] = entryCalls[c] /\ entriesAtStart'[c] = entriesAtStart[c]
        /\ Entries!getWinners' \subseteq winnersSince'[c]
        /\ \A x : x \in winnersSince[c] => x \in winnersSince'[c]
        /\ \A b : b \in judgeSince[c] => b \in judgeSince'[c]
        /\ isTheJudge \in judgeSince[c] => isTheJudge' \in judgeSince'[c]
    BY Zenon
  <2> QED  BY <2>1, <2>2 DEF CallOK
<1> QED  BY <1>1, <1>2 DEF EntriesInv

LEMMA EntryCreated ==
  ASSUME EntriesInv, Entries!create
  PROVE  EntriesInv'
<1> DEFINE new == [status |-> "submitted", score |-> Entries!NoScore]
<1>1. submissions' = Append(submissions, new) /\ new.status = "submitted"
  BY DEF Entries!create
<1>2. new \in [status : Entries!SubmissionStatus, score : Scores \cup {Entries!NoScore}]
  BY DEF Entries!SubmissionStatus
<1> HIDE DEF new
<1>3. EntryDocs' /\ DOMAIN submissions \subseteq DOMAIN submissions'
  BY <1>1, <1>2 DEF EntriesInv, EntryDocs, Entries!create
<1>4. Entries!getWinners' = Entries!getWinners
  BY <1>1 DEF EntriesInv, EntryDocs, Entries!getWinners, Entries!findByEventAndStatus
<1>5. \A c \in Readers : Entries!getWinners \subseteq winnersSince[c]
  BY DEF EntriesInv, CallOK
<1>6. UNCHANGED <<entryCalls, entriesAtStart, winnersSince, judgeSince, isTheJudge>>
  BY DEF Entries!create, Entries!Change
<1>7. DOMAIN winnersSince' = Readers /\ judgeSince' \in [Readers -> SUBSET BOOLEAN]
  BY <1>6 DEF EntriesInv, EntryTypes
<1> QED  BY <1>3, <1>4, <1>5, <1>6, <1>7, EntriesChange

LEMMA EntriesUpdated ==
  ASSUME EntriesInv, NEW status \in Entries!SubmissionStatus,
         NEW mark \in Scores \cup {Entries!NoScore}, NEW ns,
         Entries!bulkUpdateStatus(ns, status, mark)
  PROVE  EntriesInv'
<1> DEFINE S == [status : Entries!SubmissionStatus, score : Scores \cup {Entries!NoScore}]
<1>1. submissions \in Seq(S)
  BY DEF EntriesInv, EntryDocs
<1>2. ASSUME NEW n \in DOMAIN submissions
      PROVE  submissions[n] \in S /\ Entries!Updated(n, status, mark) \in S
  <2>1. submissions[n] \in S
    <3> HIDE DEF S
    <3> QED  BY <1>1
  <2> QED  BY <2>1 DEF Entries!Updated
<1>3. DOMAIN submissions' = DOMAIN submissions
      /\ \A n \in DOMAIN submissions : submissions'[n] \in S
  BY <1>1, <1>2 DEF Entries!bulkUpdateStatus
<1>4. submissions' \in Seq(S)
  <2>1. DOMAIN submissions = 1 .. Len(submissions) /\ Len(submissions) \in Nat
    BY <1>1
  <2>2. submissions' = [n \in 1 .. Len(submissions) |-> submissions'[n]]
    BY <2>1 DEF Entries!bulkUpdateStatus
  <2> HIDE DEF S
  <2> QED  BY <1>3, <2>1, <2>2
<1>5. EntryDocs'
  BY <1>4 DEF EntriesInv, EntryDocs, Entries!bulkUpdateStatus
<1>6. /\ UNCHANGED <<entryCalls, entriesAtStart, judgeSince, isTheJudge>>
      /\ winnersSince' = [c \in Readers |-> winnersSince[c] \cup Entries!getWinners']
  BY DEF Entries!bulkUpdateStatus, Entries!Change, Entries!Recorded
<1>7. judgeSince' \in [Readers -> SUBSET BOOLEAN]
  BY <1>6 DEF EntriesInv, EntryTypes
<1> QED  BY <1>3, <1>5, <1>6, <1>7, EntriesChange

LEMMA JudgesEdited ==
  ASSUME EntriesInv, Entries!EditJudges \/ Entries!DeleteEvent
  PROVE  EntriesInv'
<1>1. UNCHANGED <<submissions, entryCalls, entriesAtStart, winnersSince>>
  BY DEF Entries!EditJudges, Entries!DeleteEvent, Entries!Change
<1>2. Entries!getWinners' = Entries!getWinners
  BY <1>1 DEF Entries!getWinners, Entries!findByEventAndStatus
<1>3. \A c \in Readers : Entries!getWinners \subseteq winnersSince[c]
  BY DEF EntriesInv, CallOK
<1>4. EntryDocs'
  BY <1>1 DEF EntriesInv, EntryDocs, Entries!EditJudges, Entries!DeleteEvent
<1>5. /\ judgeSince' \in [Readers -> SUBSET BOOLEAN]
      /\ \A c \in Readers : /\ judgeSince[c] \subseteq judgeSince'[c]
                            /\ isTheJudge' = isTheJudge \/ isTheJudge' \in judgeSince'[c]
  <2>1. CASE Entries!EditJudges
    <3>1. isTheJudge' \in BOOLEAN
      BY <1>4 DEF EntryDocs
    <3>2. judgeSince' = [c \in Readers |-> judgeSince[c] \cup {isTheJudge'}]
      BY <2>1 DEF Entries!EditJudges
    <3> QED  BY <3>1, <3>2 DEF EntriesInv, EntryTypes
  <2>2. CASE Entries!DeleteEvent
    BY <2>2 DEF EntriesInv, EntryTypes, Entries!DeleteEvent
  <2> QED  BY <2>1, <2>2
<1>6. DOMAIN winnersSince' = Readers
  BY <1>1 DEF EntriesInv, EntryTypes
<1> QED  BY <1>1, <1>2, <1>3, <1>4, <1>5, <1>6, EntriesChange

LEMMA EntriesNext ==
  ASSUME EntriesInv, [Entries!Next]_(Entries!vars)
  PROVE  EntriesInv'
<1>1. CASE UNCHANGED Entries!vars
  <2>1. /\ UNCHANGED <<eventExists, isTheJudge, submissions>>
        /\ UNCHANGED <<entryCalls, entriesAtStart, winnersSince, judgeSince>>
    BY <1>1 DEF Entries!vars
  <2>2. Entries!getWinners' = Entries!getWinners
    BY <2>1 DEF Entries!getWinners, Entries!findByEventAndStatus
  <2>3. \A c \in Readers : Entries!getWinners \subseteq winnersSince[c]
    BY DEF EntriesInv, CallOK
  <2>4. EntryDocs' /\ DOMAIN winnersSince' = Readers /\ judgeSince' \in [Readers -> SUBSET BOOLEAN]
    BY <2>1 DEF EntriesInv, EntryDocs, EntryTypes
  <2> QED  BY <2>1, <2>2, <2>3, <2>4, EntriesChange
<1>2. CASE \E c \in Readers, op \in Entries!Ops, caller \in Entries!Callers :
             Entries!Request(c, op, caller)
  BY <1>2, EntryRequested
<1>3. CASE \E c \in Readers : Entries!VerifyEvent(c) \/ Entries!isHost(c) \/ Entries!isJudge(c)
                              \/ Entries!ChangeOwn(c) \/ Entries!findByEvent(c)
  BY <1>3, EntryChecked, EntriesShown
<1>4. CASE \E status \in Entries!SubmissionStatus, mark \in Scores \cup {Entries!NoScore} :
              \/ \E n \in DOMAIN submissions : Entries!updateStatus(n, status, mark)
              \/ Entries!bulkUpdateStatus(DOMAIN submissions, status, mark)
  BY <1>4, EntriesUpdated DEF Entries!updateStatus
<1> QED
  BY <1>1, <1>2, <1>3, <1>4, EntryCreated, JudgesEdited DEF Entries!Next

LEMMA EntriesSpec == Entries!Spec => []EntriesInv
<1>1. Entries!Init => EntriesInv
  BY EntriesInit
<1>2. EntriesInv /\ [Entries!Next]_(Entries!vars) => EntriesInv'
  BY EntriesNext
<1> QED  BY <1>1, <1>2, PTL DEF Entries!Spec

\* The event, its submissions and the calls keep their types.
THEOREM EntriesTypeCorrect == Entries!Spec => []Entries!TypeOK
<1>1. EntriesInv => Entries!TypeOK
  BY DEF EntriesInv, EntryDocs, EntryTypes, CallOK, EntrySteps, Entries!TypeOK
<1> QED  BY <1>1, EntriesSpec, PTL

\* However judges, statuses and submissions change between the awaits of findByEvent, all
\* submissions are shown only to the host and to those who were judges, and nothing of what
\* there was is kept from them; no submission is pending, so no participant changes one.
THEOREM AllSeenByJudges == Entries!Spec => []Entries!OnlyJudgesSeeAll
<1>1. ASSUME EntriesInv PROVE Entries!OnlyJudgesSeeAll
  <2> SUFFICES ASSUME NEW c \in Readers
      PROVE /\ entryCalls[c].step = "done" =>
                 /\ entryCalls[c].seen \subseteq winnersSince[c]
                    \/ Entries!IsHostOrJudge(c, judgeSince[c] # {FALSE})
                 /\ Entries!IsHostOrJudge(c, judgeSince[c] = {TRUE})
                      => entriesAtStart[c] \subseteq entryCalls[c].seen
            /\ entryCalls[c].step \notin {"save", "deleteOne"}
    BY DEF Entries!OnlyJudgesSeeAll
  <2>1. CallOK(entryCalls[c], entriesAtStart[c], winnersSince[c], judgeSince[c])
    BY <1>1 DEF EntriesInv
  <2>2. TRUE \in judgeSince[c] => judgeSince[c] # {FALSE}
    BY Zenon
  <2>3. FALSE \in judgeSince[c] => judgeSince[c] # {TRUE}
    BY Zenon
  <2> QED  BY <2>1, <2>2, <2>3 DEF CallOK, EntrySteps, Entries!IsHostOrJudge
<1> QED  BY <1>1, EntriesSpec, PTL

-----------------------------------------------------------------------------
(* Access, over four of the services.                                        *)

\* Sessions, tokens, submissions and routes keep what AccessIsRight says of them, each in
\* every behaviour of its own.
THEOREM AccessStaysRight ==
  ASSUME SessionLimits, TokenLimits, RouteLimits
  PROVE  Logins!Spec /\ Signers!Spec /\ Entries!Spec /\ Routed!Spec => []AccessIsRight
<1>1. /\ Logins!IndexAgrees /\ Signers!RolesAreNotOutlived /\ Entries!OnlyJudgesSeeAll
      /\ Routed!OwnRouteServes /\ Routed!DoneForTheEntitled /\ Routed!OthersLearnNothing
      /\ Routed!HostIsServed /\ Routed!AnswersAreTrue
      => AccessIsRight
  BY DEF AccessIsRight
<1> QED
  BY <1>1, IndexIsRight, RolesEndWithTheToken, AllSeenByJudges, RoutesAreTheirOwn,
     OnlyForTheEntitled, NothingForOthers, HostGetsThrough, TrueAnswers, PTL

-----------------------------------------------------------------------------
(* Sequences without repetitions: the queues, the buffer and its flushes.    *)

Elements(s) == {s[i] : i \in DOMAIN s}
Distinct(s) == \A i, j \in DOMAIN s : s[i] = s[j] => i = j

LEMMA DistinctCount ==
  ASSUME NEW S, NEW s \in Seq(S)
  PROVE  /\ IsFiniteSet(Elements(s)) /\ Cardinality(Elements(s)) <= Len(s)
         /\ Cardinality(Elements(s)) \in Nat
         /\ Distinct(s) => Cardinality(Elements(s)) = Len(s)
<1>1. IsFiniteSet(1 .. Len(s)) /\ Cardinality(1 .. Len(s)) = Len(s)
  <2>1. Len(s) \in Nat
    OBVIOUS
  <2> QED  BY <2>1, FS_Interval
<1>2. s \in [1 .. Len(s) -> Elements(s)] /\ \A e \in Elements(s) : \E i \in 1 .. Len(s) : s[i] = e
  BY DEF Elements
<1>3. s \in Surjection(1 .. Len(s), Elements(s))
  BY <1>2 DEF Surjection
<1>4. /\ IsFiniteSet(Elements(s)) /\ Cardinality(Elements(s)) <= Len(s)
      /\ Cardinality(Elements(s)) = Len(s) <=> s \in Injection(1 .. Len(s), Elements(s))
  BY <1>1, <1>3, FS_Surjection
<1>5. Distinct(s) => s \in Injection(1 .. Len(s), Elements(s))
  BY <1>2 DEF Distinct, Injection, IsInjective
<1> QED  BY <1>4, <1>5, FS_CardinalityType

LEMMA JoinedElements ==
  ASSUME NEW S, NEW a \in Seq(S), NEW b \in Seq(S)
  PROVE  /\ a \o b \in Seq(S) /\ Elements(a \o b) = Elements(a) \cup Elements(b)
         /\ Distinct(a) /\ Distinct(b) /\ Elements(a) \cap Elements(b) = {} => Distinct(a \o b)
<1> DEFINE c == a \o b
<1>1. /\ c \in Seq(S) /\ Len(c) = Len(a) + Len(b) /\ Len(a) \in Nat /\ Len(b) \in Nat
      /\ DOMAIN a = 1 .. Len(a) /\ DOMAIN b = 1 .. Len(b) /\ DOMAIN c = 1 .. Len(a) + Len(b)
      /\ \A j \in 1 .. Len(a) : c[j] = a[j]
      /\ \A j \in 1 .. Len(b) : c[Len(a) + j] = b[j]
  OBVIOUS
<1> HIDE DEF c
<1>2. ASSUME NEW j \in DOMAIN c
      PROVE  \/ j \in DOMAIN a /\ c[j] = a[j]
             \/ j - Len(a) \in DOMAIN b /\ c[j] = b[j - Len(a)] /\ ~(j \in DOMAIN a)
  <2>1. j \in 1 .. Len(a) \/ (j - Len(a) \in 1 .. Len(b) /\ ~(j \in 1 .. Len(a)))
    BY <1>1
  <2>2. Len(a) + (j - Len(a)) = j
    BY <1>1
  <2> QED  BY <1>1, <2>1, <2>2
<1>3. Elements(c) = Elements(a) \cup Elements(b)
  <2>1. ASSUME NEW e \in Elements(c) PROVE e \in Elements(a) \cup Elements(b)
    BY <1>2 DEF Elements
  <2>2. ASSUME NEW i \in DOMAIN a PROVE a[i] \in Elements(c)
    <3>1. i \in DOMAIN c /\ c[i] = a[i]
      BY <1>1
    <3> QED  BY <3>1 DEF Elements
  <2>3. ASSUME NEW i \in DOMAIN b PROVE b[i] \in Elements(c)
    <3>1. Len(a) + i \in DOMAIN c /\ c[Len(a) + i] = b[i]
      BY <1>1
    <3> QED  BY <3>1 DEF Elements
  <2>4. \A e \in Elements(a) \cup Elements(b) : e \in Elements(c)
    BY <2>2, <2>3 DEF Elements
  <2> QED  BY <2>1, <2>4
<1>4. ASSUME Distinct(a), Distinct(b), Elements(a) \cap Elements(b) = {} PROVE Distinct(c)
  <2> SUFFICES ASSUME NEW i \in DOMAIN c, NEW j \in DOMAIN c, c[i] = c[j] PROVE i = j
    BY DEF Distinct
  <2>1. CASE i \in DOMAIN a /\ c[i] = a[i]
    <3>1. c[i] \in Elements(a)
      BY <2>1 DEF Elements
    <3>2. ~(j - Len(a) \in DOMAIN b /\ c[j] = b[j - Len(a)])
      BY <1>4, <3>1 DEF Elements
    <3> QED  BY <1>2, <1>4, <2>1, <3>2 DEF Distinct
  <2>2. CASE i - Len(a) \in DOMAIN b /\ c[i] = b[i - Len(a)]
    <3>1. c[i] \in Elements(b)
      BY <2>2 DEF Elements
    <3>2. ~(j \in DOMAIN a /\ c[j] = a[j])
      BY <1>4, <3>1 DEF Elements
    <3>3. j - Len(a) \in DOMAIN b /\ c[j] = b[j - Len(a)]
      BY <1>2, <3>2
    <3>4. i - Len(a) = j - Len(a)
      BY <1>4, <2>2, <3>3 DEF Distinct
    <3> QED  BY <1>1, <3>4
  <2> QED  BY <1>2, <2>1, <2>2
<1> QED  BY <1>1, <1>3, <1>4 DEF c

LEMMA OneElement ==
  ASSUME NEW S, NEW e \in S
  PROVE  <<e>> \in Seq(S) /\ Elements(<<e>>) = {e} /\ Distinct(<<e>>)
<1>1. <<e>> \in Seq(S) /\ DOMAIN <<e>> = {1} /\ <<e>>[1] = e
  OBVIOUS
<1> QED  BY <1>1 DEF Elements, Distinct

LEMMA NoElement ==
  ASSUME NEW S PROVE <<>> \in Seq(S) /\ Elements(<<>>) = {} /\ Distinct(<<>>)
<1>1. <<>> \in Seq(S) /\ DOMAIN <<>> = {}
  OBVIOUS
<1> QED  BY <1>1 DEF Elements, Distinct

LEMMA AppendedElements ==
  ASSUME NEW S, NEW s \in Seq(S), NEW e \in S
  PROVE  /\ Append(s, e) \in Seq(S) /\ Elements(Append(s, e)) = Elements(s) \cup {e}
         /\ Distinct(s) /\ e \notin Elements(s) => Distinct(Append(s, e))
<1>1. Append(s, e) = s \o <<e>>
  OBVIOUS
<1>2. <<e>> \in Seq(S) /\ Elements(<<e>>) = {e} /\ Distinct(<<e>>)
  BY OneElement
<1>3. /\ s \o <<e>> \in Seq(S) /\ Elements(s \o <<e>>) = Elements(s) \cup Elements(<<e>>)
      /\ (Distinct(s) /\ Distinct(<<e>>) /\ Elements(s) \cap Elements(<<e>>) = {}
            => Distinct(s \o <<e>>))
  BY <1>2, JoinedElements
<1> QED  BY <1>1, <1>2, <1>3

LEMMA FirstElements ==
  ASSUME NEW S, NEW s \in Seq(S), NEW n \in 0 .. Len(s)
  PROVE  /\ SubSeq(s, 1, n) \in Seq(S) /\ Len(SubSeq(s, 1, n)) = n
         /\ Elements(SubSeq(s, 1, n)) \subseteq Elements(s)
<1>1. /\ SubSeq(s, 1, n) \in Seq(S) /\ Len(SubSeq(s, 1, n)) = n
      /\ \A i \in 1 .. n : SubSeq(s, 1, n)[i] = s[i] /\ i \in DOMAIN s
  OBVIOUS
<1>2. DOMAIN SubSeq(s, 1, n) = 1 .. n
  BY <1>1
<1> QED  BY <1>1, <1>2 DEF Elements

\* The tail has all but the first.
LEMMA TailElements ==
  ASSUME NEW S, NEW s \in Seq(S), s # <<>>, Distinct(s)
  PROVE  /\ s[1] \in S /\ s[1] \in Elements(s)
         /\ Tail(s) \in Seq(S) /\ Elements(Tail(s)) = Elements(s) \ {s[1]} /\ Distinct(Tail(s))
<1> DEFINE t == Tail(s)
<1>1. /\ t \in Seq(S) /\ Len(t) = Len(s) - 1 /\ Len(s) \in Nat /\ Len(s) >= 1
      /\ DOMAIN s = 1 .. Len(s) /\ DOMAIN t = 1 .. Len(s) - 1
      /\ \A i \in 1 .. Len(s) - 1 : t[i] = s[i + 1]
  OBVIOUS
<1> HIDE DEF t
<1>2. s[1] \in S /\ s[1] \in Elements(s) /\ 1 \in DOMAIN s
  BY <1>1 DEF Elements
<1>3. \A i \in DOMAIN t : i + 1 \in DOMAIN s /\ t[i] = s[i + 1] /\ i + 1 # 1
  BY <1>1
<1>4. \A i \in DOMAIN t : t[i] \in Elements(s) /\ t[i] # s[1]
  BY <1>2, <1>3 DEF Elements, Distinct
<1>5. \A i \in DOMAIN s : i # 1 => i - 1 \in DOMAIN t /\ t[i - 1] = s[i]
  BY <1>1
<1>6. \A e \in Elements(s) : e # s[1] => e \in Elements(t)
  BY <1>5 DEF Elements
<1>7. Elements(t) = Elements(s) \ {s[1]}
  BY <1>4, <1>6 DEF Elements
<1>8. ASSUME NEW i \in DOMAIN t, NEW j \in DOMAIN t, t[i] = t[j] PROVE i = j
  <2>1. i + 1 = j + 1
    BY <1>3, <1>8 DEF Distinct
  <2> QED  BY <1>1, <2>1
<1> QED  BY <1>1, <1>2, <1>7, <1>8 DEF t, Distinct

-----------------------------------------------------------------------------
(* The job queue: what the filter keeps.                                     *)

JobSteps(s, S, n, f) ==
    f = [i \in 0 .. n |-> IF i = 0 THEN <<>>
                          ELSE IF s[i] \in S THEN Append(f[i - 1], s[i]) ELSE f[i - 1]]

LEMMA JobStepsExist ==
  ASSUME NEW s, NEW S, NEW n \in Nat PROVE \E f : JobSteps(s, S, n, f)
<1> DEFINE T == {k \in Nat : ~ \E f : JobSteps(s, S, k, f)}
<1>1. SUFFICES ASSUME T # {} PROVE FALSE
  OBVIOUS
<1>2. PICK k \in T : \A m \in T : k <= m
  BY <1>1, LeastNumber
<1>3. CASE k = 0
  <2>1. PICK f : f = [i \in 0 .. 0 |-> <<>>]
    OBVIOUS
  <2>2. f = [i \in 0 .. k |-> IF i = 0 THEN <<>>
                              ELSE IF s[i] \in S THEN Append(f[i - 1], s[i]) ELSE f[i - 1]]
    BY <1>3, <2>1
  <2> QED  BY <2>2 DEF JobSteps
<1>4. CASE k # 0
  <2>1. k \in Nat /\ k - 1 \in Nat /\ k - 1 \notin T
    BY <1>2, <1>4
  <2>2. PICK f : JobSteps(s, S, k - 1, f)
    BY <2>1
  <2>3. PICK l : l = IF s[k] \in S THEN Append(f[k - 1], s[k]) ELSE f[k - 1]
    OBVIOUS
  <2>4. PICK g : g = [i \in 0 .. k |-> IF i = k THEN l ELSE f[i]]
    OBVIOUS
  <2>5. ASSUME NEW i \in 0 .. k
        PROVE  g[i] = IF i = 0 THEN <<>>
                      ELSE IF s[i] \in S THEN Append(g[i - 1], s[i]) ELSE g[i - 1]
    <3>1. CASE i = k
      <4>1. g[i] = l /\ i - 1 \in 0 .. k /\ g[i - 1] = f[k - 1]
        BY <1>4, <2>1, <2>4, <3>1
      <4> QED  BY <1>4, <2>3, <3>1, <4>1
    <3>2. CASE i # k
      <4>1. i \in 0 .. k - 1 /\ g[i] = f[i]
        BY <2>1, <2>4, <3>2
      <4>2. f[i] = IF i = 0 THEN <<>>
                   ELSE IF s[i] \in S THEN Append(f[i - 1], s[i]) ELSE f[i - 1]
        BY <2>2, <4>1 DEF JobSteps
      <4>3. i # 0 => g[i - 1] = f[i - 1]
        BY <2>1, <2>4, <4>1
      <4> QED  BY <4>1, <4>2, <4>3
    <3> QED  BY <3>1, <3>2
  <2>6. g = [i \in 0 .. k |-> g[i]]
    BY <2>4
  <2>7. g = [i \in 0 .. k |-> IF i = 0 THEN <<>>
                              ELSE IF s[i] \in S THEN Append(g[i - 1], s[i]) ELSE g[i - 1]]
    BY <2>5, <2>6
  <2> QED  BY <2>7 DEF JobSteps
<1> QED  BY <1>3, <1>4

\* The filter keeps what is in S, each as often as it was there.
LEMMA KeptIs ==
  ASSUME NEW A, NEW s \in Seq(A), Distinct(s), NEW S
  PROVE  /\ Queue!Kept(s, S) \in Seq(A) /\ Distinct(Queue!Kept(s, S))
         /\ Elements(Queue!Kept(s, S)) = Elements(s) \cap S
<1> DEFINE f == CHOOSE g : g = [i \in 0 .. Len(s) |-> IF i = 0 THEN <<>>
                          ELSE IF s[i] \in S THEN Append(g[i - 1], s[i]) ELSE g[i - 1]]
<1>1. Queue!Kept(s, S) = f[Len(s)]
  BY DEF Queue!Kept
<1>2. Len(s) \in Nat /\ DOMAIN s = 1 .. Len(s)
  OBVIOUS
<1>3. JobSteps(s, S, Len(s), f)
  <2>1. \E g : JobSteps(s, S, Len(s), g)
    BY <1>2, JobStepsExist
  <2> QED  BY <2>1 DEF JobSteps
<1> HIDE DEF f
<1> DEFINE FilteredTo(i) == /\ f[i] \in Seq(A) /\ Distinct(f[i])
                       /\ Elements(f[i]) = {s[j] : j \in 1 .. i} \cap S
           T == {i \in 0 .. Len(s) : ~FilteredTo(i)}
<1>4. T = {}
  <2>1. SUFFICES ASSUME T # {} PROVE FALSE
    OBVIOUS
  <2>2. T \subseteq Nat
    BY <1>2
  <2>3. PICK k \in T : \A m \in T : k <= m
    BY <2>1, <2>2, LeastNumber
  <2>4. k \in 0 .. Len(s) /\ ~FilteredTo(k)
    OBVIOUS
  <2>5. f[k] = IF k = 0 THEN <<>> ELSE IF s[k] \in S THEN Append(f[k - 1], s[k]) ELSE f[k - 1]
    BY <1>2, <1>3, <2>4 DEF JobSteps
  <2>6. CASE k = 0
    <3>1. f[k] = <<>> /\ {s[j] : j \in 1 .. k} = {}
      BY <2>5, <2>6
    <3> QED  BY <2>4, <3>1, NoElement
  <2>7. CASE k # 0
    <3>1. k - 1 \in 0 .. Len(s) /\ k - 1 \notin T /\ k \in DOMAIN s
      <4> HIDE DEF T
      <4>1. k - 1 \in 0 .. Len(s) /\ k \in DOMAIN s /\ ~ (k <= k - 1)
        BY <1>2, <2>4, <2>7
      <4> QED  BY <2>3, <4>1
    <3>2. PICK l : l = f[k - 1]
      OBVIOUS
    <3>3. l \in Seq(A) /\ Distinct(l) /\ Elements(l) = {s[j] : j \in 1 .. k - 1} \cap S
      BY <3>1, <3>2
    <3>4. {s[j] : j \in 1 .. k} = {s[j] : j \in 1 .. k - 1} \cup {s[k]}
      BY <1>2, <2>4, <2>7
    <3>5. CASE s[k] \notin S
      <4>1. f[k] = l /\ {s[j] : j \in 1 .. k} \cap S = {s[j] : j \in 1 .. k - 1} \cap S
        BY <2>5, <2>7, <3>2, <3>4, <3>5
      <4> QED  BY <2>4, <3>3, <4>1
    <3>6. CASE s[k] \in S
      <4>1. s[k] \in A
        BY <3>1
      <4>2. s[k] \notin {s[j] : j \in 1 .. k - 1}
        <5> SUFFICES ASSUME NEW j \in 1 .. k - 1, s[j] = s[k] PROVE FALSE
          OBVIOUS
        <5>1. j \in DOMAIN s /\ j # k
          BY <1>2, <3>1
        <5> QED  BY <3>1, <5>1 DEF Distinct
      <4>3. PICK a : a = Append(l, s[k])
        OBVIOUS
      <4>4. a \in Seq(A) /\ Distinct(a) /\ Elements(a) = Elements(l) \cup {s[k]}
        BY <3>3, <4>1, <4>2, <4>3, AppendedElements
      <4>5. f[k] = a
        BY <2>5, <2>7, <3>2, <3>6, <4>3
      <4> QED  BY <2>4, <3>3, <3>4, <3>6, <4>4, <4>5
    <3> QED  BY <3>5, <3>6
  <2> QED  BY <2>6, <2>7
<1>5. FilteredTo(Len(s))
  <2>1. PICK n : n = Len(s)
    OBVIOUS
  <2>2. n \in 0 .. Len(s) /\ n \notin T
    <3> HIDE DEF T
    <3>1. n \in Nat
      BY <1>2, <2>1
    <3>2. n \in 0 .. n /\ n \notin T
      BY <1>4, <3>1
    <3> QED  BY <2>1, <3>2
  <2>3. FilteredTo(n)
    BY <2>2
  <2> QED  BY <2>1, <2>3
<1>6. Elements(s) = {s[j] : j \in 1 .. Len(s)}
  BY <1>2 DEF Elements
<1> QED  BY <1>1, <1>5, <1>6

-----------------------------------------------------------------------------
(* The job queue: every open job has one place.                              *)

JobLimits ==
    /\ maxConcurrency \in Nat /\ jobAttempts \in Nat \ {0}
    /\ MaxJobs \in Nat /\ MaxJobTime \in Nat

\* What a method hands to processQueue: the queue, the jobs and those in processing.
JobsOK(q, js, busy) ==
    /\ js \in Seq(Queue!QueueJob) /\ Len(js) <= MaxJobs
    /\ q \in Seq(DOMAIN js) /\ Distinct(q)
    /\ busy \subseteq DOMAIN js /\ Cardinality(busy) <= maxConcurrency
    /\ Elements(q) \cap busy = {}
    /\ Elements(q) \cup busy = {id \in DOMAIN js : js[id].outcome = "open"}
    /\ \A id \in Elements(q) : js[id].attempts < jobAttempts
    /\ \A id \in busy : js[id].attempts >= 1

JobsInv ==
    /\ JobsOK(queue, jobs, processing)
    /\ isRunning \in BOOLEAN /\ executing \subseteq Queue!Executions
    /\ jobTime \in 0 .. MaxJobTime

LEMMA JobsCount == ASSUME NEW S PROVE Queue!Cardinality(S) = Cardinality(S)
BY DEF Queue!Cardinality, Cardinality

LEMMA JobsAreFinite ==
  ASSUME NEW js \in Seq(Queue!QueueJob), NEW busy, busy \subseteq DOMAIN js
  PROVE  IsFiniteSet(busy) /\ Cardinality(busy) \in Nat
<1>1. Len(js) \in Nat /\ DOMAIN js = 1 .. Len(js)
  OBVIOUS
<1>2. IsFiniteSet(DOMAIN js)
  BY <1>1, FS_Interval
<1>3. IsFiniteSet(busy)
  BY <1>2, FS_Subset
<1> QED  BY <1>3, FS_CardinalityType

\* The loop of processQueue takes queued jobs, and no more than there is room for.
LEMMA NextJobsFit ==
  ASSUME JobLimits, NEW q, NEW js, NEW busy, JobsOK(q, js, busy)
  PROVE  /\ Queue!NextJobs(q, js, busy) \subseteq Elements(q)
         /\ Cardinality(busy \cup Queue!NextJobs(q, js, busy)) <= maxConcurrency
<1> DEFINE due == Queue!Kept(q, {id \in Queue!Ids(q) : jobTime >= js[id].createdAt + js[id].delay})
           room == maxConcurrency - Queue!Cardinality(busy)
           n == IF Len(due) < room THEN Len(due) ELSE room
<1>1. Queue!NextJobs(q, js, busy) = Elements(SubSeq(due, 1, n))
  BY DEF Queue!NextJobs, Queue!Ids, Elements
<1>2. due \in Seq(DOMAIN js) /\ Elements(due) \subseteq Elements(q)
  <2>1. PICK S : S = {id \in Queue!Ids(q) : jobTime >= js[id].createdAt + js[id].delay}
    OBVIOUS
  <2>2. /\ Queue!Kept(q, S) \in Seq(DOMAIN js)
        /\ Elements(Queue!Kept(q, S)) = Elements(q) \cap S
    BY KeptIs DEF JobsOK
  <2> QED  BY <2>1, <2>2
<1>3. /\ IsFiniteSet(busy) /\ Cardinality(busy) \in Nat /\ Cardinality(busy) <= maxConcurrency
      /\ room = maxConcurrency - Cardinality(busy)
  BY JobsAreFinite, JobsCount DEF JobsOK
<1>4. PICK d : d = due
  OBVIOUS
<1>5. PICK r : r = room
  OBVIOUS
<1>6. PICK k : k = n
  OBVIOUS
<1>7. d \in Seq(DOMAIN js) /\ Elements(d) \subseteq Elements(q)
  BY <1>2, <1>4
<1>8. r \in Nat /\ r = maxConcurrency - Cardinality(busy) /\ k = IF Len(d) < r THEN Len(d) ELSE r
  BY <1>3, <1>4, <1>5, <1>6 DEF JobLimits
<1>9. Queue!NextJobs(q, js, busy) = Elements(SubSeq(d, 1, k))
  BY <1>1, <1>4, <1>6
<1> HIDE DEF due, room, n
<1>10. k \in 0 .. Len(d) /\ k <= r
  BY <1>7, <1>8
<1>11. PICK t : t = SubSeq(d, 1, k)
  OBVIOUS
<1>12. t \in Seq(DOMAIN js) /\ Len(t) = k /\ Elements(t) \subseteq Elements(d)
  BY <1>7, <1>10, <1>11, FirstElements
<1>13. IsFiniteSet(Elements(t)) /\ Cardinality(Elements(t)) \in Nat /\ Cardinality(Elements(t)) <= k
  BY <1>12, DistinctCount
<1>14. /\ Cardinality(busy \cup Elements(t))
             = Cardinality(busy) + Cardinality(Elements(t)) - Cardinality(busy \cap Elements(t))
       /\ Cardinality(busy \cap Elements(t)) \in Nat
  <2>1. IsFiniteSet(busy \cap Elements(t))
    BY <1>13, FS_Subset
  <2> QED  BY <1>3, <1>13, <2>1, FS_Union, FS_CardinalityType
<1>15. Cardinality(busy \cup Elements(t)) <= maxConcurrency
  <2>1. PICK a, b, c : /\ a = Cardinality(busy) /\ b = Cardinality(Elements(t))
                       /\ c = Cardinality(busy \cap Elements(t))
    OBVIOUS
  <2>2. /\ a \in Nat /\ b \in Nat /\ c \in Nat /\ b <= k /\ k <= r /\ r = maxConcurrency - a
        /\ r \in Nat /\ maxConcurrency \in Nat /\ k \in Nat
    BY <1>3, <1>8, <1>10, <1>12, <1>13, <1>14, <2>1 DEF JobLimits
  <2>3. a + b - c <= maxConcurrency
    BY <2>2
  <2> QED  BY <1>14, <2>1, <2>3
<1> QED  BY <1>7, <1>9, <1>11, <1>12, <1>15

LEMMA ProcessQueueStep ==
  ASSUME JobLimits, NEW q, NEW js, NEW busy, NEW out,
         JobsOK(q, js, busy), out \subseteq Queue!Executions,
         isRunning \in BOOLEAN, jobTime \in 0 .. MaxJobTime,
         Queue!ProcessQueue(q, js, busy, out)
  PROVE  JobsInv'
<1>1. PICK taken : taken = IF isRunning THEN {} ELSE Queue!NextJobs(q, js, busy)
  OBVIOUS
<1>2. taken \subseteq Elements(q) /\ Cardinality(busy \cup taken) <= maxConcurrency
  <2>1. CASE isRunning
    <3>1. taken = {} /\ busy \cup taken = busy
      BY <1>1, <2>1
    <3> QED  BY <3>1 DEF JobsOK
  <2>2. CASE ~isRunning
    BY <1>1, <2>2, NextJobsFit
  <2> QED  BY <2>1, <2>2
<1>3. /\ queue' = Queue!Kept(q, Queue!Ids(q) \ taken)
      /\ jobs' = [id \in DOMAIN js |->
                    IF id \in taken THEN [js[id] EXCEPT !.attempts = @ + 1] ELSE js[id]]
      /\ processing' = busy \cup taken
      /\ isRunning' = (isRunning \/ processing' # {})
      /\ executing' = out \cup {<<id, jobs'[id].attempts>> : id \in taken}
      /\ jobTime' = jobTime
  BY <1>1 DEF Queue!ProcessQueue
<1>4. PICK js1, q1 : js1 = jobs' /\ q1 = queue'
  OBVIOUS
<1>5. js \in Seq(Queue!QueueJob) /\ DOMAIN js = 1 .. Len(js) /\ Len(js) \in Nat /\ Len(js) <= MaxJobs
  BY DEF JobsOK
<1>6. \A id \in taken : id \in DOMAIN js /\ js[id].attempts < jobAttempts
  BY <1>2 DEF JobsOK, Elements
<1>7. ASSUME NEW id \in DOMAIN js
      PROVE  /\ js1[id] \in Queue!QueueJob /\ js1[id].outcome = js[id].outcome
             /\ js1[id].attempts = js[id].attempts + (IF id \in taken THEN 1 ELSE 0)
             /\ js[id].attempts \in Nat
  <2>1. PICK j : j = js[id]
    OBVIOUS
  <2>2. j \in Queue!QueueJob /\ j.attempts \in 0 .. jobAttempts
    <3>1. j \in Queue!QueueJob
      BY <1>5, <1>7, <2>1
    <3> QED  BY <3>1 DEF Queue!QueueJob
  <2>3. js1[id] = IF id \in taken THEN [j EXCEPT !.attempts = @ + 1] ELSE j
    BY <1>3, <1>4, <2>1
  <2>4. CASE id \in taken
    <3>1. j.attempts + 1 \in 0 .. jobAttempts
      BY <1>6, <2>1, <2>2, <2>4 DEF JobLimits
    <3>2. PICK a : a = j.attempts + 1
      OBVIOUS
    <3>3. js1[id] = [j EXCEPT !.attempts = a]
      BY <2>3, <2>4, <3>2
    <3> QED  BY <2>1, <2>2, <2>4, <3>1, <3>2, <3>3 DEF Queue!QueueJob
  <2>5. CASE id \notin taken
    BY <2>1, <2>2, <2>3, <2>5
  <2> QED  BY <2>4, <2>5
<1>8. js1 \in Seq(Queue!QueueJob) /\ Len(js1) = Len(js) /\ DOMAIN js1 = DOMAIN js
  <2>1. js1 = [id \in 1 .. Len(js) |-> js1[id]]
    BY <1>3, <1>4, <1>5
  <2>2. js1 \in [1 .. Len(js) -> Queue!QueueJob]
    BY <1>5, <1>7, <2>1
  <2> QED  BY <1>5, <2>2, IsSeq
<1>9. q1 \in Seq(DOMAIN js1) /\ Distinct(q1) /\ Elements(q1) = Elements(q) \ taken
  <2>1. PICK S : S = Queue!Ids(q) \ taken
    OBVIOUS
  <2>2. /\ Queue!Kept(q, S) \in Seq(DOMAIN js) /\ Distinct(Queue!Kept(q, S))
        /\ Elements(Queue!Kept(q, S)) = Elements(q) \cap S
    BY KeptIs DEF JobsOK
  <2>3. q1 = Queue!Kept(q, S) /\ Elements(q) \cap S = Elements(q) \ taken
    BY <1>3, <1>4, <2>1 DEF Queue!Ids, Elements
  <2> QED  BY <1>8, <2>2, <2>3
<1>10. JobsOK(q1, js1, busy \cup taken)
  <2>1. busy \cup taken \subseteq DOMAIN js1 /\ Elements(q1) \cap (busy \cup taken) = {}
    BY <1>6, <1>8, <1>9 DEF JobsOK
  <2>2. Elements(q1) \cup (busy \cup taken) = Elements(q) \cup busy
    BY <1>2, <1>9
  <2>3. {id \in DOMAIN js1 : js1[id].outcome = "open"} = {id \in DOMAIN js : js[id].outcome = "open"}
    BY <1>7, <1>8
  <2>4. ASSUME NEW id \in Elements(q1) PROVE js1[id].attempts < jobAttempts
    <3>1. id \in Elements(q) /\ id \notin taken /\ id \in DOMAIN js
      BY <1>9 DEF JobsOK, Elements
    <3>2. js[id].attempts < jobAttempts /\ js1[id].attempts = js[id].attempts
      BY <1>7, <3>1 DEF JobsOK
    <3> QED  BY <3>2
  <2>5. ASSUME NEW id \in busy \cup taken PROVE js1[id].attempts >= 1
    <3>1. id \in DOMAIN js
      BY <1>6 DEF JobsOK
    <3>2. CASE id \in taken
      BY <1>7, <3>1, <3>2
    <3>3. CASE id \notin taken
      <4>1. js[id].attempts >= 1 /\ js1[id].attempts = js[id].attempts
        BY <1>7, <3>1, <3>3 DEF JobsOK
      <4> QED  BY <4>1
    <3> QED  BY <3>2, <3>3
  <2> QED  BY <1>2, <1>5, <1>8, <1>9, <2>1, <2>2, <2>3, <2>4, <2>5 DEF JobsOK
<1>11. executing' \subseteq Queue!Executions
  <2>1. ASSUME NEW id \in taken PROVE <<id, js1[id].attempts>> \in Queue!Executions
    <3>1. id \in 1 .. MaxJobs
      BY <1>5, <1>6 DEF JobLimits
    <3>2. js1[id].attempts \in 1 .. jobAttempts
      BY <1>6, <1>7, <2>1 DEF JobLimits
    <3> QED  BY <3>1, <3>2 DEF Queue!Executions, Queue!JobIds
  <2> QED  BY <1>3, <1>4, <2>1
<1>12. JobsOK(queue, jobs, processing)'
  BY <1>3, <1>4, <1>10 DEF JobsOK
<1> QED  BY <1>3, <1>11, <1>12 DEF JobsInv

LEMMA SortedIs ==
  ASSUME NEW A, NEW q \in Seq(A), Distinct(q), NEW id \in A, id \notin Elements(q), NEW js
  PROVE  /\ Queue!Sorted(q, id, js) \in Seq(A) /\ Distinct(Queue!Sorted(q, id, js))
         /\ Elements(Queue!Sorted(q, id, js)) = Elements(q) \cup {id}
<1>1. PICK before : before = {x \in Queue!Ids(q) : js[x].priority >= js[id].priority}
  OBVIOUS
<1>2. PICK a, b, one : /\ a = Queue!Kept(q, before) /\ b = Queue!Kept(q, Queue!Ids(q) \ before)
                       /\ one = <<id>>
  OBVIOUS
<1>3. Queue!Sorted(q, id, js) = (a \o one) \o b
  BY <1>1, <1>2 DEF Queue!Sorted
<1>4. Queue!Ids(q) = Elements(q)
  BY DEF Queue!Ids, Elements
<1>5. /\ a \in Seq(A) /\ Distinct(a) /\ Elements(a) = Elements(q) \cap before
      /\ b \in Seq(A) /\ Distinct(b) /\ Elements(b) = Elements(q) \cap (Queue!Ids(q) \ before)
  BY <1>2, KeptIs
<1>6. one \in Seq(A) /\ Distinct(one) /\ Elements(one) = {id}
  BY <1>2, OneElement
<1>7. PICK c : c = a \o one
  OBVIOUS
<1>8. c \in Seq(A) /\ Distinct(c) /\ Elements(c) = Elements(a) \cup {id}
  <2>1. Elements(a) \cap Elements(one) = {}
    BY <1>5, <1>6
  <2> QED  BY <1>5, <1>6, <1>7, <2>1, JoinedElements
<1>9. Elements(c) \cap Elements(b) = {} /\ Elements(c) \cup Elements(b) = Elements(q) \cup {id}
  BY <1>4, <1>5, <1>8
<1>10. c \o b \in Seq(A) /\ Distinct(c \o b) /\ Elements(c \o b) = Elements(q) \cup {id}
  BY <1>5, <1>8, <1>9, JoinedElements
<1> QED  BY <1>3, <1>7, <1>10

LEMMA AddStep ==
  ASSUME JobLimits, JobsInv, NEW p \in JobPriorities, NEW d \in JobDelays, Queue!Add(p, d)
  PROVE  JobsInv'
<1>1. PICK j : j = [priority |-> p, attempts |-> 0, delay |-> d, createdAt |-> jobTime,
                    outcome |-> "open"]
  OBVIOUS
<1>2. PICK js0, q0, busy : js0 = jobs /\ q0 = queue /\ busy = processing
  OBVIOUS
<1>3. PICK js : js = Append(js0, j)
  OBVIOUS
<1>4. PICK q : q = Queue!Sorted(q0, Len(js), js)
  OBVIOUS
<1>5. Len(js0) < MaxJobs /\ Queue!ProcessQueue(q, js, busy, executing)
  BY <1>1, <1>2, <1>3, <1>4 DEF Queue!Add
<1>6. JobsOK(q0, js0, busy)
  BY <1>2 DEF JobsInv
<1>7. j \in Queue!QueueJob
  BY <1>1 DEF Queue!QueueJob, JobsInv, JobLimits
<1>8. js0 \in Seq(Queue!QueueJob)
  BY <1>6 DEF JobsOK
<1>9. PICK n : n = Len(js)
  OBVIOUS
<1>10. /\ js \in Seq(Queue!QueueJob) /\ n = Len(js0) + 1 /\ n \in DOMAIN js
       /\ n \notin DOMAIN js0 /\ DOMAIN js = DOMAIN js0 \cup {n} /\ js[n] = j
       /\ \A id \in DOMAIN js0 : js[id] = js0[id]
  <2>1. /\ js \in Seq(Queue!QueueJob) /\ Len(js) = Len(js0) + 1 /\ js[Len(js0) + 1] = j
        /\ Len(js0) \in Nat /\ DOMAIN js = 1 .. Len(js) /\ DOMAIN js0 = 1 .. Len(js0)
        /\ \A id \in 1 .. Len(js0) : js[id] = js0[id]
    BY <1>3, <1>7, <1>8
  <2> QED  BY <1>9, <2>1
<1>11. Elements(q0) \subseteq DOMAIN js0 /\ n \notin Elements(q0)
  BY <1>6, <1>10 DEF JobsOK, Elements
<1>12. q \in Seq(DOMAIN js) /\ Distinct(q) /\ Elements(q) = Elements(q0) \cup {n}
  <2>1. q0 \in Seq(DOMAIN js) /\ Distinct(q0)
    BY <1>6, <1>10 DEF JobsOK
  <2> QED  BY <1>4, <1>9, <1>10, <1>11, <2>1, SortedIs
<1>13. JobsOK(q, js, busy)
  <2>1. {id \in DOMAIN js : js[id].outcome = "open"}
          = {id \in DOMAIN js0 : js0[id].outcome = "open"} \cup {n}
    BY <1>1, <1>10
  <2>2. busy \subseteq DOMAIN js0
    BY <1>6 DEF JobsOK
  <2>3. Len(js) <= MaxJobs
    <3>1. Len(js0) \in Nat
      BY <1>8
    <3> QED  BY <1>5, <1>9, <1>10, <3>1 DEF JobLimits
  <2>4. \A id \in Elements(q) : js[id].attempts < jobAttempts
    BY <1>1, <1>6, <1>10, <1>11, <1>12 DEF JobsOK, JobLimits
  <2>5. \A id \in busy : js[id].attempts >= 1
    BY <1>6, <1>10, <2>2 DEF JobsOK
  <2>6. Elements(q) \cap busy = {} /\ Elements(q) \cup busy = Elements(q0) \cup busy \cup {n}
    BY <1>6, <1>10, <1>12, <2>2 DEF JobsOK
  <2> QED
    BY <1>6, <1>10, <1>12, <2>1, <2>2, <2>3, <2>4, <2>5, <2>6 DEF JobsOK
<1>14. PICK out : out = executing
  OBVIOUS
<1> QED  BY <1>5, <1>13, <1>14, ProcessQueueStep DEF JobsInv

\* One field of one job is changed.
LEMMA JobChanged ==
  ASSUME NEW js \in Seq(Queue!QueueJob), NEW id \in DOMAIN js, NEW j \in Queue!QueueJob,
         NEW js1, js1 = [js EXCEPT ![id] = j]
  PROVE  /\ js1 \in Seq(Queue!QueueJob) /\ Len(js1) = Len(js) /\ DOMAIN js1 = DOMAIN js
         /\ js1[id] = j /\ \A k \in DOMAIN js : k # id => js1[k] = js[k]
OBVIOUS

\* A job that is processed ends.
LEMMA FinishedStep ==
  ASSUME JobLimits, JobsInv, NEW id \in processing, NEW o \in {"completed", "failed"},
         NEW out, out \subseteq Queue!Executions,
         Queue!ProcessQueue(queue, Queue!Finished(id, o), processing \ {id}, out)
  PROVE  JobsInv'
<1>1. PICK js0, q, busy : js0 = jobs /\ q = queue /\ busy = processing
  OBVIOUS
<1>2. JobsOK(q, js0, busy) /\ id \in busy
  BY <1>1 DEF JobsInv
<1>3. PICK j : j = [js0[id] EXCEPT !.outcome = o]
  OBVIOUS
<1>4. PICK js : js = [js0 EXCEPT ![id] = j]
  OBVIOUS
<1>5. js0 \in Seq(Queue!QueueJob) /\ id \in DOMAIN js0 /\ js0[id] \in Queue!QueueJob
  BY <1>2 DEF JobsOK
<1>6. PICK j0 : j0 = js0[id]
  OBVIOUS
<1>7. j \in Queue!QueueJob /\ j.outcome = o
  BY <1>3, <1>5, <1>6 DEF Queue!QueueJob
<1>8. /\ js \in Seq(Queue!QueueJob) /\ Len(js) = Len(js0) /\ DOMAIN js = DOMAIN js0
      /\ js[id] = j /\ \A k \in DOMAIN js0 : k # id => js[k] = js0[k]
  BY <1>4, <1>5, <1>7, JobChanged
<1>9. Queue!ProcessQueue(q, js, busy \ {id}, out)
  BY <1>1, <1>3, <1>4 DEF Queue!Finished
<1>10. JobsOK(q, js, busy \ {id})
  <2>1. {k \in DOMAIN js : js[k].outcome = "open"}
          = {k \in DOMAIN js0 : js0[k].outcome = "open"} \ {id}
    BY <1>7, <1>8
  <2>2. id \notin Elements(q) /\ Elements(q) \subseteq DOMAIN js0
    BY <1>2 DEF JobsOK, Elements
  <2>3. Cardinality(busy \ {id}) <= maxConcurrency
    <3>1. IsFiniteSet(busy) /\ Cardinality(busy) \in Nat /\ Cardinality(busy) <= maxConcurrency
      BY <1>2, <1>5, JobsAreFinite DEF JobsOK
    <3>2. Cardinality(busy \ {id}) = Cardinality(busy) - 1
      BY <1>2, <3>1, FS_RemoveElement
    <3> QED  BY <3>1, <3>2 DEF JobLimits
  <2>4. \A k \in Elements(q) : js[k].attempts < jobAttempts
    BY <1>2, <1>8, <2>2 DEF JobsOK
  <2>5. \A k \in busy \ {id} : js[k].attempts >= 1
    BY <1>2, <1>8 DEF JobsOK
  <2>6. /\ Elements(q) \cap (busy \ {id}) = {} /\ busy \ {id} \subseteq DOMAIN js
        /\ Elements(q) \cup (busy \ {id}) = {k \in DOMAIN js : js[k].outcome = "open"}
    BY <1>2, <1>8, <2>1, <2>2 DEF JobsOK
  <2> QED  BY <1>2, <1>8, <2>3, <2>4, <2>5, <2>6 DEF JobsOK
<1> QED  BY <1>9, <1>10, ProcessQueueStep DEF JobsInv

LEMMA RejectedStep ==
  ASSUME JobLimits, JobsInv, NEW id \in processing,
         NEW out, out \subseteq Queue!Executions, Queue!Rejected(id, out)
  PROVE  JobsInv'
<1>1. CASE ~(jobs[id].attempts < jobAttempts)
  BY <1>1, FinishedStep DEF Queue!Rejected
<1>2. CASE jobs[id].attempts < jobAttempts
  <2>1. PICK js0, q0, busy : js0 = jobs /\ q0 = queue /\ busy = processing
    OBVIOUS
  <2>2. JobsOK(q0, js0, busy) /\ id \in busy
    BY <2>1 DEF JobsInv
  <2>3. js0 \in Seq(Queue!QueueJob) /\ id \in DOMAIN js0 /\ js0[id] \in Queue!QueueJob
    BY <2>2 DEF JobsOK
  <2>4. PICK j0, t : j0 = js0[id] /\ t = jobDelay * js0[id].attempts
    OBVIOUS
  <2>5. PICK j : j = [j0 EXCEPT !.delay = t]
    OBVIOUS
  <2>6. PICK js : js = [js0 EXCEPT ![id] = j]
    OBVIOUS
  <2>7. j \in Queue!QueueJob /\ j.outcome = j0.outcome /\ j.attempts = j0.attempts
    <3>1. j0.attempts \in 1 .. jobAttempts
      BY <2>2, <2>3, <2>4 DEF JobsOK, Queue!QueueJob, JobLimits
    <3>2. t \in {jobDelay * n : n \in 1 .. jobAttempts}
      BY <2>4, <3>1
    <3> QED  BY <2>3, <2>4, <2>5, <3>2 DEF Queue!QueueJob
  <2>8. /\ js \in Seq(Queue!QueueJob) /\ Len(js) = Len(js0) /\ DOMAIN js = DOMAIN js0
        /\ js[id] = j /\ \A k \in DOMAIN js0 : k # id => js[k] = js0[k]
    BY <2>3, <2>6, <2>7, JobChanged
  <2>9. PICK q : q = Queue!Sorted(q0, id, js)
    OBVIOUS
  <2>10. Queue!ProcessQueue(q, js, busy \ {id}, out)
    <3>1. js = [jobs EXCEPT ![id].delay = jobDelay * jobs[id].attempts]
      BY <2>1, <2>3, <2>4, <2>5, <2>6
    <3> QED  BY <1>2, <2>1, <2>9, <3>1 DEF Queue!Rejected
  <2>11. id \notin Elements(q0) /\ Elements(q0) \subseteq DOMAIN js0
    BY <2>2 DEF JobsOK, Elements
  <2>12. q \in Seq(DOMAIN js) /\ Distinct(q) /\ Elements(q) = Elements(q0) \cup {id}
    <3>1. q0 \in Seq(DOMAIN js) /\ Distinct(q0)
      BY <2>2, <2>8 DEF JobsOK
    <3> QED  BY <2>3, <2>8, <2>9, <2>11, <3>1, SortedIs
  <2>13. JobsOK(q, js, busy \ {id})
    <3>1. {k \in DOMAIN js : js[k].outcome = "open"} = {k \in DOMAIN js0 : js0[k].outcome = "open"}
      BY <2>4, <2>7, <2>8
    <3>2. Cardinality(busy \ {id}) <= maxConcurrency
      <4>1. IsFiniteSet(busy) /\ Cardinality(busy) \in Nat /\ Cardinality(busy) <= maxConcurrency
        BY <2>2, <2>3, JobsAreFinite DEF JobsOK
      <4>2. Cardinality(busy \ {id}) = Cardinality(busy) - 1
        BY <2>2, <4>1, FS_RemoveElement
      <4> QED  BY <4>1, <4>2 DEF JobLimits
    <3>3. \A k \in Elements(q) : js[k].attempts < jobAttempts
      <4>1. j.attempts < jobAttempts
        BY <1>2, <2>1, <2>4, <2>7
      <4> QED  BY <2>2, <2>8, <2>11, <2>12, <4>1 DEF JobsOK
    <3>4. \A k \in busy \ {id} : js[k].attempts >= 1
      BY <2>2, <2>8 DEF JobsOK
    <3>5. /\ Elements(q) \cap (busy \ {id}) = {} /\ busy \ {id} \subseteq DOMAIN js
          /\ Elements(q) \cup (busy \ {id}) = Elements(q0) \cup busy
      BY <2>2, <2>8, <2>11, <2>12 DEF JobsOK
    <3> QED  BY <2>2, <2>8, <2>12, <3>1, <3>2, <3>3, <3>4, <3>5 DEF JobsOK
  <2> QED  BY <2>10, <2>13, ProcessQueueStep DEF JobsInv
<1> QED  BY <1>1, <1>2

LEMMA ExecutionStep ==
  ASSUME JobLimits, JobsInv, NEW e \in Queue!Executions, Queue!Callback(e) \/ Queue!Timeout(e)
  PROVE  JobsInv'
<1>1. e \in executing /\ executing \subseteq Queue!Executions
  BY DEF Queue!Callback, Queue!Timeout, JobsInv
<1>2. PICK id : id = e[1]
  OBVIOUS
<1>3. PICK out, left : out = executing /\ left = executing \ {e}
  OBVIOUS
<1>4. out \subseteq Queue!Executions /\ left \subseteq Queue!Executions
  BY <1>1, <1>3
<1>5. CASE Queue!IsAwaited(e)
  <2>1. id \in processing
    BY <1>2, <1>5 DEF Queue!IsAwaited
  <2>2. \/ Queue!ProcessQueue(queue, Queue!Finished(id, "completed"), processing \ {id}, left)
        \/ Queue!Rejected(id, left) \/ Queue!Rejected(id, out)
    BY <1>2, <1>3, <1>5 DEF Queue!Callback, Queue!Timeout
  <2> QED  BY <1>4, <2>1, <2>2, FinishedStep, RejectedStep
<1>6. CASE ~Queue!IsAwaited(e)
  <2>1. UNCHANGED <<queue, jobs, processing, isRunning, jobTime>> /\ executing' = executing \ {e}
    BY <1>6 DEF Queue!Callback, Queue!Timeout
  <2> QED  BY <1>1, <2>1 DEF JobsInv, JobsOK
<1> QED  BY <1>5, <1>6

LEMMA RemoveStep ==
  ASSUME JobLimits, JobsInv, NEW ids, ids \subseteq Elements(queue), Queue!Remove(ids)
  PROVE  JobsInv'
<1>1. PICK js0, q0, busy : js0 = jobs /\ q0 = queue /\ busy = processing
  OBVIOUS
<1>2. JobsOK(q0, js0, busy) /\ ids \subseteq Elements(q0)
  BY <1>1 DEF JobsInv
<1>3. PICK js, q : js = jobs' /\ q = queue'
  OBVIOUS
<1>4. /\ q = Queue!Kept(q0, Queue!Ids(q0) \ ids)
      /\ js = [id \in DOMAIN js0 |->
                 IF id \in ids THEN [js0[id] EXCEPT !.outcome = "removed"] ELSE js0[id]]
      /\ UNCHANGED <<processing, isRunning, executing, jobTime>>
  BY <1>1, <1>3 DEF Queue!Remove
<1>5. js0 \in Seq(Queue!QueueJob) /\ DOMAIN js0 = 1 .. Len(js0) /\ Len(js0) \in Nat
  BY <1>2 DEF JobsOK
<1>6. ASSUME NEW id \in DOMAIN js0
      PROVE  /\ js[id] \in Queue!QueueJob /\ js[id].attempts = js0[id].attempts
             /\ js[id].outcome = IF id \in ids THEN "removed" ELSE js0[id].outcome
  <2>1. PICK j : j = js0[id]
    OBVIOUS
  <2>2. j \in Queue!QueueJob
    BY <1>5, <1>6, <2>1
  <2>3. js[id] = IF id \in ids THEN [j EXCEPT !.outcome = "removed"] ELSE j
    BY <1>4, <2>1
  <2>4. CASE id \in ids
    BY <2>1, <2>2, <2>3, <2>4 DEF Queue!QueueJob
  <2>5. CASE id \notin ids
    BY <2>1, <2>2, <2>3, <2>5
  <2> QED  BY <2>4, <2>5
<1>7. js \in Seq(Queue!QueueJob) /\ Len(js) = Len(js0) /\ DOMAIN js = DOMAIN js0
  <2>1. js = [id \in 1 .. Len(js0) |-> js[id]]
    BY <1>4, <1>5
  <2>2. js \in [1 .. Len(js0) -> Queue!QueueJob]
    BY <1>5, <1>6, <2>1
  <2> QED  BY <1>5, <2>2, IsSeq
<1>8. q \in Seq(DOMAIN js) /\ Distinct(q) /\ Elements(q) = Elements(q0) \ ids
  <2>1. PICK S : S = Queue!Ids(q0) \ ids
    OBVIOUS
  <2>2. /\ Queue!Kept(q0, S) \in Seq(DOMAIN js0) /\ Distinct(Queue!Kept(q0, S))
        /\ Elements(Queue!Kept(q0, S)) = Elements(q0) \cap S
    BY <1>2, KeptIs DEF JobsOK
  <2>3. q = Queue!Kept(q0, S) /\ Elements(q0) \cap S = Elements(q0) \ ids
    BY <1>4, <2>1 DEF Queue!Ids, Elements
  <2> QED  BY <1>7, <2>2, <2>3
<1>9. JobsOK(q, js, busy)
  <2>1. {id \in DOMAIN js : js[id].outcome = "open"}
          = {id \in DOMAIN js0 : js0[id].outcome = "open"} \ ids
    BY <1>6, <1>7
  <2>2. Elements(q0) \subseteq DOMAIN js0
    BY <1>2 DEF JobsOK, Elements
  <2>3. \A id \in Elements(q) : js[id].attempts < jobAttempts
    BY <1>2, <1>6, <1>8, <2>2 DEF JobsOK
  <2>4. \A id \in busy : js[id].attempts >= 1
    BY <1>2, <1>6 DEF JobsOK
  <2>5. Elements(q) \cap busy = {} /\ Elements(q) \cup busy = (Elements(q0) \cup busy) \ ids
    BY <1>2, <1>8 DEF JobsOK
  <2> QED  BY <1>2, <1>7, <1>8, <2>1, <2>3, <2>4, <2>5 DEF JobsOK
<1>10. JobsOK(queue, jobs, processing)'
  BY <1>1, <1>3, <1>4, <1>9 DEF JobsOK
<1> QED  BY <1>4, <1>10 DEF JobsInv

LEMMA JobsInit == ASSUME JobLimits, Queue!Init PROVE JobsInv
<1>1. PICK js, q, busy : js = jobs /\ q = queue /\ busy = processing
  OBVIOUS
<1>2. js = <<>> /\ q = <<>> /\ busy = {}
  BY <1>1 DEF Queue!Init
<1>3. js \in Seq(Queue!QueueJob) /\ Len(js) = 0 /\ DOMAIN js = {}
  BY <1>2
<1>4. q \in Seq(DOMAIN js) /\ Elements(q) = {} /\ Distinct(q)
  BY <1>2, NoElement
<1>5. Cardinality(busy) = 0
  BY <1>2, FS_EmptySet
<1>6. JobsOK(q, js, busy)
  BY <1>2, <1>3, <1>4, <1>5 DEF JobsOK, JobLimits
<1>7. isRunning = FALSE /\ executing = {} /\ jobTime \in 0 .. MaxJobTime
  BY DEF Queue!Init, JobLimits
<1> QED  BY <1>1, <1>6, <1>7 DEF JobsInv

LEMMA JobsNext == ASSUME JobLimits, JobsInv, [Queue!Next]_(Queue!vars) PROVE JobsInv'
<1>1. CASE \E p \in JobPriorities, d \in JobDelays : Queue!Add(p, d)
  BY <1>1, AddStep
<1>2. CASE \E e \in Queue!Executions : Queue!Callback(e) \/ Queue!Timeout(e)
  BY <1>2, ExecutionStep
<1>3. CASE (\E id \in Queue!JobIds : Queue!RemoveJob(id)) \/ Queue!Clear
  <2>1. \A id : Queue!RemoveJob(id) => {id} \subseteq Elements(queue) /\ Queue!Remove({id})
    BY DEF Queue!RemoveJob, Queue!Ids, Elements
  <2>2. PICK ids : ids \subseteq Elements(queue) /\ Queue!Remove(ids)
    <3>1. CASE Queue!Clear
      <4>1. PICK all : all = Queue!Ids(queue)
        OBVIOUS
      <4> QED  BY <3>1, <4>1 DEF Queue!Clear, Queue!Ids, Elements
    <3>2. CASE \E id \in Queue!JobIds : Queue!RemoveJob(id)
      BY <2>1, <3>2
    <3> QED  BY <1>3, <3>1, <3>2
  <2> QED  BY <2>2, RemoveStep
<1>4. CASE Queue!Pause
  BY <1>4 DEF Queue!Pause, JobsInv, JobsOK
<1>5. CASE Queue!Resume
  <2>1. PICK js, q, busy, out : js = jobs /\ q = queue /\ busy = processing /\ out = executing
    OBVIOUS
  <2> QED  BY <1>5, <2>1, ProcessQueueStep DEF Queue!Resume, JobsInv
<1>6. CASE Queue!Tick
  <2>1. jobTime' \in 0 .. MaxJobTime
    BY <1>6 DEF Queue!Tick, JobsInv, JobLimits
  <2> QED  BY <1>6, <2>1 DEF Queue!Tick, JobsInv, JobsOK
<1>7. CASE UNCHANGED Queue!vars
  BY <1>7 DEF Queue!vars, JobsInv, JobsOK
<1> QED  BY <1>1, <1>2, <1>3, <1>4, <1>5, <1>6, <1>7 DEF Queue!Next

LEMMA JobsSpec == ASSUME JobLimits PROVE Queue!Spec => []JobsInv
<1>1. Queue!Init => JobsInv
  BY JobsInit
<1>2. JobsInv /\ [Queue!Next]_(Queue!vars) => JobsInv'
  BY JobsNext
<1> QED  BY <1>1, <1>2, PTL DEF Queue!Spec

LEMMA JobsPromise == ASSUME JobLimits, JobsInv PROVE Queue!TypeOK /\ Queue!NoJobLost
<1>1. PICK js, q, busy : js = jobs /\ q = queue /\ busy = processing
  OBVIOUS
<1>2. JobsOK(q, js, busy)
  BY <1>1 DEF JobsInv
<1>3. Elements(q) = Queue!Ids(q)
  BY DEF Queue!Ids, Elements
<1>4. Queue!Cardinality(Queue!Ids(q)) = Len(q)
  BY <1>2, <1>3, DistinctCount, JobsCount DEF JobsOK
<1>5. Queue!Cardinality(busy) <= maxConcurrency
  BY <1>2, JobsCount DEF JobsOK
<1>6. Queue!NoJobLost
  BY <1>1, <1>2, <1>3, <1>4, <1>5 DEF JobsOK, Queue!NoJobLost
<1>7. q \in Seq(Queue!JobIds)
  <2>1. DOMAIN js \subseteq 1 .. MaxJobs
    <3>1. js \in Seq(Queue!QueueJob) /\ Len(js) <= MaxJobs
      BY <1>2 DEF JobsOK
    <3> QED  BY <3>1 DEF JobLimits
  <2>2. q \in Seq(DOMAIN js)
    BY <1>2 DEF JobsOK
  <2>3. q \in [1 .. Len(q) -> DOMAIN js] /\ Len(q) \in Nat
    BY <2>2
  <2>4. q \in [1 .. Len(q) -> 1 .. MaxJobs]
    BY <2>1, <2>3
  <2> QED  BY <2>3, <2>4, IsSeq DEF Queue!JobIds
<1>8. Queue!TypeOK
  BY <1>1, <1>2, <1>7 DEF JobsInv, JobsOK, Queue!TypeOK
<1> QED  BY <1>6, <1>8

-----------------------------------------------------------------------------
(* The mails of the SMTP service: every waiting mail has one place.          *)

SmtpLimits ==
    /\ maxReconnectAttempts \in Nat \ {0} /\ MaxQueuedMails \in Nat
    /\ MaxVerifies \in Nat \ {0}

MailLoops ==
    [at : {"idle", "sending", "requeued", "delay"}, mail : 0 .. MaxQueuedMails]
InLoop(l) == IF l.at = "sending" THEN {l.mail} ELSE {}

MailsOK(q, l, out, ms) ==
    /\ ms \in Seq({"waiting", "resolved", "rejected"}) /\ Len(ms) <= MaxQueuedMails
    /\ q \in Seq(DOMAIN ms) /\ Distinct(q) /\ l \in MailLoops /\ out \subseteq DOMAIN ms
    /\ Elements(q) \cup InLoop(l) \cup out = {id \in DOMAIN ms : ms[id] = "waiting"}
    /\ Elements(q) \cap (InLoop(l) \cup out) = {} /\ InLoop(l) \cap out = {}

ConnectionOK ==
    /\ credentials \in BOOLEAN /\ transporter \in BOOLEAN /\ isConnected \in BOOLEAN
    /\ timer \in BOOLEAN /\ reconnectAttempts \in 0 .. maxReconnectAttempts
    /\ verifying \subseteq Smtp!Callers /\ verifies \in 0 .. MaxVerifies

MailInv == ConnectionOK /\ MailsOK(mailQueue, loop, sending, mails)

LEMMA MailsUnchanged ==
  ASSUME MailInv, ConnectionOK', UNCHANGED <<mailQueue, loop, sending, mails>>
  PROVE  MailInv'
BY DEF MailInv, MailsOK

\* The loop takes the head of the queue, or puts it behind the others.
LEMMA ContinueStep ==
  ASSUME NEW q, NEW l, NEW out, NEW ms, MailsOK(q, l, out, ms), l.at # "sending",
         MaxQueuedMails \in Nat, NEW c, Smtp!Continue(q, c)
  PROVE  MailsOK(mailQueue', loop', out, ms)
<1>1. PICK q1, l1, has : q1 = mailQueue' /\ l1 = loop' /\ has = transporter
  OBVIOUS
<1>2. InLoop(l) = {}
  BY DEF InLoop
<1>3. CASE q = <<>> \/ ~c
  <2>1. q1 = q /\ l1 = Smtp!Idle
    BY <1>1, <1>3 DEF Smtp!Continue
  <2>2. l1 \in MailLoops /\ InLoop(l1) = {}
    BY <2>1 DEF Smtp!Idle, MailLoops, InLoop
  <2> QED  BY <1>1, <1>2, <2>1, <2>2 DEF MailsOK
<1>4. CASE q # <<>> /\ c
  <2>1. q \in Seq(DOMAIN ms) /\ Distinct(q) /\ DOMAIN ms \subseteq 1 .. MaxQueuedMails
    BY DEF MailsOK
  <2>2. PICK t, e : t = Tail(q) /\ e = q[1]
    OBVIOUS
  <2>3. /\ e \in DOMAIN ms /\ e \in Elements(q)
        /\ t \in Seq(DOMAIN ms) /\ Elements(t) = Elements(q) \ {e} /\ Distinct(t)
    BY <1>4, <2>1, <2>2, TailElements
  <2>4. /\ l1 = [at |-> IF has THEN "sending" ELSE "requeued", mail |-> e]
        /\ q1 = IF has THEN t ELSE Append(t, e)
    BY <1>1, <1>4, <2>2 DEF Smtp!Continue
  <2>5. l1 \in MailLoops
    <3>1. e \in 0 .. MaxQueuedMails
      BY <2>1, <2>3
    <3> QED  BY <2>4, <3>1 DEF MailLoops
  <2>6. CASE has
    <3>1. q1 = t /\ InLoop(l1) = {e}
      BY <2>4, <2>6 DEF InLoop
    <3> QED  BY <1>1, <1>2, <2>3, <2>5, <3>1 DEF MailsOK
  <2>7. CASE ~has
    <3>1. q1 = Append(t, e) /\ InLoop(l1) = {}
      BY <2>4, <2>7 DEF InLoop
    <3>2. q1 \in Seq(DOMAIN ms) /\ Distinct(q1) /\ Elements(q1) = Elements(q)
      <4>1. e \notin Elements(t) /\ Elements(t) \cup {e} = Elements(q)
        BY <2>3
      <4>2. t \in Seq(DOMAIN ms) /\ e \in DOMAIN ms /\ Distinct(t)
        BY <2>3
      <4>3. /\ Append(t, e) \in Seq(DOMAIN ms) /\ Distinct(Append(t, e))
            /\ Elements(Append(t, e)) = Elements(t) \cup {e}
        BY <4>1, <4>2, AppendedElements
      <4> QED  BY <3>1, <4>1, <4>3
    <3> QED  BY <1>1, <1>2, <2>5, <3>1, <3>2 DEF MailsOK
  <2> QED  BY <2>6, <2>7
<1> QED  BY <1>3, <1>4

LEMMA ReconnectStep == ASSUME SmtpLimits, MailInv, Smtp!Reconnect PROVE MailInv'
<1>1. UNCHANGED <<mailQueue, loop, sending, mails, isConnected, credentials>>
  BY DEF Smtp!Reconnect, Smtp!Verify
<1>2. PICK has : has = (transporter \/ credentials)
  OBVIOUS
<1>3. Smtp!Verify("reconnect", has) /\ has \in BOOLEAN /\ transporter' = has
  BY <1>2 DEF Smtp!Reconnect, Smtp!Verify
<1>4. CASE has
  <2>1. /\ timer' = FALSE /\ reconnectAttempts' = reconnectAttempts
        /\ verifying' = verifying \cup {"reconnect"}
        /\ verifies < MaxVerifies /\ verifies' = verifies + 1
    BY <1>3, <1>4 DEF Smtp!Reconnect, Smtp!Verify
  <2>2. verifies' \in 0 .. MaxVerifies /\ verifying' \subseteq Smtp!Callers
    BY <2>1 DEF SmtpLimits, MailInv, ConnectionOK, Smtp!Callers
  <2>3. ConnectionOK'
    BY <1>1, <1>3, <2>1, <2>2 DEF MailInv, ConnectionOK
  <2> QED  BY <1>1, <2>3, MailsUnchanged
<1>5. CASE ~has
  <2>1. /\ timer' = (reconnectAttempts < maxReconnectAttempts)
        /\ reconnectAttempts' = reconnectAttempts + (IF timer' THEN 1 ELSE 0)
        /\ verifying' = verifying /\ verifies' = verifies
    BY <1>3, <1>5 DEF Smtp!Reconnect, Smtp!Verify
  <2>2. reconnectAttempts \in Nat /\ reconnectAttempts <= maxReconnectAttempts
    BY DEF MailInv, ConnectionOK, SmtpLimits
  <2>3. reconnectAttempts' \in 0 .. maxReconnectAttempts
    <3>1. CASE reconnectAttempts < maxReconnectAttempts
      <4>1. reconnectAttempts' = reconnectAttempts + 1
        BY <2>1, <3>1
      <4> QED  BY <2>2, <3>1, <4>1 DEF SmtpLimits
    <3>2. CASE ~(reconnectAttempts < maxReconnectAttempts)
      <4>1. reconnectAttempts' = reconnectAttempts + 0
        BY <2>1, <3>2
      <4> QED  BY <2>2, <4>1 DEF SmtpLimits
    <3> QED  BY <3>1, <3>2
  <2>4. ConnectionOK'
    BY <1>1, <1>3, <2>1, <2>3 DEF MailInv, ConnectionOK
  <2> QED  BY <1>1, <2>4, MailsUnchanged
<1> QED  BY <1>4, <1>5

LEMMA VerifyAskedStep ==
  ASSUME SmtpLimits, MailInv,
         Smtp!TestConnection \/ \E c \in BOOLEAN : Smtp!UpdateConfig(c)
  PROVE  MailInv'
<1>1. PICK who, has :
        /\ who \in Smtp!Callers /\ has \in BOOLEAN /\ Smtp!Verify(who, has)
        /\ credentials' \in BOOLEAN /\ timer' = timer
        /\ ~has => reconnectAttempts' = reconnectAttempts
  <2>1. CASE Smtp!TestConnection
    BY <2>1 DEF Smtp!TestConnection, Smtp!Callers, MailInv, ConnectionOK
  <2>2. CASE \E c \in BOOLEAN : Smtp!UpdateConfig(c)
    BY <2>2 DEF Smtp!UpdateConfig, Smtp!Callers
  <2> QED  BY <2>1, <2>2
<1>2. /\ UNCHANGED <<isConnected, mailQueue, loop, sending, mails, reconnectAttempts>>
      /\ transporter' = has
  BY <1>1 DEF Smtp!Verify
<1>3. verifying' \subseteq Smtp!Callers /\ verifies' \in 0 .. MaxVerifies
  BY <1>1 DEF Smtp!Verify, MailInv, ConnectionOK, SmtpLimits
<1>4. ConnectionOK'
  BY <1>1, <1>2, <1>3 DEF MailInv, ConnectionOK
<1> QED  BY <1>2, <1>4, MailsUnchanged

LEMMA VerifiedStep == ASSUME SmtpLimits, MailInv, NEW who, Smtp!Verified(who) PROVE MailInv'
<1>1. /\ verifying' = verifying \ {who} /\ isConnected' = TRUE /\ reconnectAttempts' = 0
      /\ UNCHANGED <<credentials, transporter, timer, sending, mails, verifies>>
      /\ \/ UNCHANGED <<loop, mailQueue>>
         \/ loop = Smtp!Idle /\ Smtp!Continue(mailQueue, TRUE)
  BY DEF Smtp!Verified
<1>2. ConnectionOK'
  BY <1>1 DEF MailInv, ConnectionOK, SmtpLimits
<1>3. CASE UNCHANGED <<loop, mailQueue>>
  BY <1>1, <1>2, <1>3, MailsUnchanged
<1>4. CASE loop = Smtp!Idle /\ Smtp!Continue(mailQueue, TRUE)
  <2>1. PICK q, l, out, ms : q = mailQueue /\ l = loop /\ out = sending /\ ms = mails
    OBVIOUS
  <2>2. MailsOK(q, l, out, ms) /\ l.at # "sending" /\ Smtp!Continue(q, TRUE)
    BY <1>4, <2>1 DEF MailInv, Smtp!Idle
  <2>3. MailsOK(mailQueue', loop', out, ms)
    BY <2>2, ContinueStep DEF SmtpLimits
  <2> QED  BY <1>1, <1>2, <2>1, <2>3 DEF MailInv, MailsOK
<1> QED  BY <1>1, <1>3, <1>4

LEMMA VerifyFailedStep ==
  ASSUME SmtpLimits, MailInv, NEW who, Smtp!VerifyFailed(who) PROVE MailInv'
<1>1. /\ verifying' = verifying \ {who} /\ isConnected' = FALSE
      /\ UNCHANGED <<credentials, transporter, mailQueue, loop, sending, mails, verifies>>
  BY DEF Smtp!VerifyFailed
<1>2. timer' \in BOOLEAN /\ reconnectAttempts' \in 0 .. maxReconnectAttempts
  <2>1. /\ timer \in BOOLEAN /\ reconnectAttempts \in Nat
        /\ reconnectAttempts <= maxReconnectAttempts /\ maxReconnectAttempts \in Nat
    BY DEF MailInv, ConnectionOK, SmtpLimits
  <2>2. \/ UNCHANGED <<reconnectAttempts, timer>>
        \/ /\ ~(reconnectAttempts >= maxReconnectAttempts)
           /\ reconnectAttempts' = reconnectAttempts + 1 /\ timer' = TRUE
    BY DEF Smtp!VerifyFailed, Smtp!ScheduleReconnect
  <2>3. CASE reconnectAttempts' = reconnectAttempts /\ timer' = timer
    BY <2>1, <2>3
  <2>4. CASE /\ ~(reconnectAttempts >= maxReconnectAttempts)
             /\ reconnectAttempts' = reconnectAttempts + 1 /\ timer' = TRUE
    <3>1. reconnectAttempts' \in 0 .. maxReconnectAttempts
      BY <2>1, <2>4
    <3> QED  BY <2>4, <3>1
  <2> QED  BY <2>2, <2>3, <2>4
<1>3. ConnectionOK'
  BY <1>1, <1>2 DEF MailInv, ConnectionOK
<1> QED  BY <1>1, <1>3, MailsUnchanged

LEMMA SendMailStep == ASSUME SmtpLimits, MailInv, Smtp!SendMail PROVE MailInv'
<1>1. PICK q, l, out, ms : q = mailQueue /\ l = loop /\ out = sending /\ ms = mails
  OBVIOUS
<1>2. PICK n, ms1, q1, out1 : /\ n = Len(mails') /\ ms1 = mails' /\ q1 = mailQueue'
                              /\ out1 = sending'
  OBVIOUS
<1>3. /\ Len(ms) < MaxQueuedMails /\ ms1 = Append(ms, "waiting") /\ n = Len(ms1)
      /\ \/ q1 = q /\ out1 = out \cup {n}
         \/ q1 = Append(q, n) /\ out1 = out
      /\ UNCHANGED <<loop, credentials, transporter, isConnected, reconnectAttempts, timer,
                     verifying, verifies>>
  BY <1>1, <1>2 DEF Smtp!SendMail, Smtp!connection
<1>4. MailsOK(q, l, out, ms)
  BY <1>1 DEF MailInv
<1>5. ms \in Seq({"waiting", "resolved", "rejected"})
  BY <1>4 DEF MailsOK
<1>6. /\ ms1 \in Seq({"waiting", "resolved", "rejected"}) /\ n = Len(ms) + 1
      /\ Len(ms) \in Nat /\ n \in Nat /\ n \notin DOMAIN ms /\ ms1[n] = "waiting"
      /\ DOMAIN ms1 = DOMAIN ms \cup {n} /\ \A id \in DOMAIN ms : ms1[id] = ms[id]
  <2>1. /\ ms1 \in Seq({"waiting", "resolved", "rejected"}) /\ Len(ms1) = Len(ms) + 1
        /\ Len(ms) \in Nat /\ DOMAIN ms1 = 1 .. Len(ms1) /\ DOMAIN ms = 1 .. Len(ms)
        /\ ms1[Len(ms) + 1] = "waiting" /\ \A id \in 1 .. Len(ms) : ms1[id] = ms[id]
    BY <1>3, <1>5
  <2> QED  BY <1>3, <2>1
<1>7. Len(ms1) <= MaxQueuedMails
  BY <1>3, <1>6 DEF SmtpLimits
<1>8. {id \in DOMAIN ms1 : ms1[id] = "waiting"} = {id \in DOMAIN ms : ms[id] = "waiting"} \cup {n}
  BY <1>6
<1>9. /\ Elements(q) \subseteq DOMAIN ms /\ out \subseteq DOMAIN ms /\ InLoop(l) \subseteq DOMAIN ms
      /\ q \in Seq(DOMAIN ms1)
  BY <1>4, <1>6 DEF MailsOK, Elements
<1>10. CASE q1 = q /\ out1 = out \cup {n}
  <2>1. MailsOK(q1, l, out1, ms1)
    BY <1>4, <1>6, <1>7, <1>8, <1>9, <1>10 DEF MailsOK
  <2> QED  BY <1>1, <1>2, <1>3, <2>1 DEF MailInv, MailsOK, ConnectionOK
<1>11. CASE q1 = Append(q, n) /\ out1 = out
  <2>1. q1 \in Seq(DOMAIN ms1) /\ Distinct(q1) /\ Elements(q1) = Elements(q) \cup {n}
    <3>1. n \in DOMAIN ms1 /\ n \notin Elements(q) /\ Distinct(q)
      BY <1>4, <1>6, <1>9 DEF MailsOK
    <3> QED  BY <1>9, <1>11, <3>1, AppendedElements
  <2>2. MailsOK(q1, l, out1, ms1)
    BY <1>4, <1>6, <1>7, <1>8, <1>9, <1>11, <2>1 DEF MailsOK
  <2> QED  BY <1>1, <1>2, <1>3, <2>2 DEF MailInv, MailsOK, ConnectionOK
<1> QED  BY <1>3, <1>10, <1>11

\* One promise is settled, by the answer of the transporter.
LEMMA MailSettled ==
  ASSUME NEW ms \in Seq({"waiting", "resolved", "rejected"}), NEW id \in DOMAIN ms,
         NEW how \in {"resolved", "rejected"}, NEW ms1, ms1 = [ms EXCEPT ![id] = how]
  PROVE  /\ ms1 \in Seq({"waiting", "resolved", "rejected"})
         /\ Len(ms1) = Len(ms) /\ DOMAIN ms1 = DOMAIN ms
         /\ {k \in DOMAIN ms1 : ms1[k] = "waiting"} = {k \in DOMAIN ms : ms[k] = "waiting"} \ {id}
<1>1. /\ ms1 \in Seq({"waiting", "resolved", "rejected"})
      /\ Len(ms1) = Len(ms) /\ DOMAIN ms1 = DOMAIN ms
  OBVIOUS
<1>2. ms1[id] = how /\ \A k \in DOMAIN ms : k # id => ms1[k] = ms[k]
  OBVIOUS
<1> QED  BY <1>1, <1>2

LEMMA AnswerMailStep ==
  ASSUME SmtpLimits, MailInv, NEW how \in {"resolved", "rejected"},
         Smtp!LoopAnswer(how) \/ \E id \in sending : Smtp!Answer(id, how)
  PROVE  MailInv'
<1>1. PICK q, l, out, ms : q = mailQueue /\ l = loop /\ out = sending /\ ms = mails
  OBVIOUS
<1>2. PICK l1, ms1, out1 : l1 = loop' /\ ms1 = mails' /\ out1 = sending'
  OBVIOUS
<1>3. MailsOK(q, l, out, ms)
  BY <1>1 DEF MailInv
<1>4. UNCHANGED <<mailQueue, credentials, transporter, isConnected, reconnectAttempts, timer,
                  verifying, verifies>>
  BY DEF Smtp!LoopAnswer, Smtp!Answer, Smtp!connection
<1>5. PICK id :
        /\ ms1 = [ms EXCEPT ![id] = how]
        /\ \/ l.at = "sending" /\ id = l.mail /\ l1 = [at |-> "delay", mail |-> 0] /\ out1 = out
           \/ id \in out /\ out1 = out \ {id} /\ l1 = l
  BY <1>1, <1>2 DEF Smtp!LoopAnswer, Smtp!Answer
<1>6. id \in InLoop(l) \cup out
  BY <1>5 DEF InLoop
<1>7. id \in DOMAIN ms /\ ms[id] = "waiting" /\ ms \in Seq({"waiting", "resolved", "rejected"})
  BY <1>3, <1>6 DEF MailsOK
<1>8. /\ ms1 \in Seq({"waiting", "resolved", "rejected"})
      /\ Len(ms1) = Len(ms) /\ DOMAIN ms1 = DOMAIN ms
      /\ {k \in DOMAIN ms1 : ms1[k] = "waiting"} = {k \in DOMAIN ms : ms[k] = "waiting"} \ {id}
  BY <1>5, <1>7, MailSettled
<1>9. /\ l1 \in MailLoops /\ out1 \subseteq out /\ InLoop(l1) \subseteq InLoop(l)
      /\ InLoop(l1) \cup out1 = (InLoop(l) \cup out) \ {id}
  <2>1. CASE l.at = "sending" /\ id = l.mail /\ l1 = [at |-> "delay", mail |-> 0] /\ out1 = out
    <3>1. l1 \in MailLoops
      BY <2>1 DEF MailLoops, SmtpLimits
    <3>2. InLoop(l) = {id} /\ InLoop(l1) = {} /\ id \notin out
      BY <1>3, <2>1 DEF InLoop, MailsOK
    <3> QED  BY <2>1, <3>1, <3>2
  <2>2. CASE id \in out /\ out1 = out \ {id} /\ l1 = l
    BY <1>3, <2>2 DEF MailsOK
  <2> QED  BY <1>5, <2>1, <2>2
<1>10. id \notin Elements(q)
  BY <1>3, <1>6 DEF MailsOK
<1>11. MailsOK(q, l1, out1, ms1)
  BY <1>3, <1>8, <1>9, <1>10 DEF MailsOK
<1> QED  BY <1>1, <1>2, <1>4, <1>11 DEF MailInv, MailsOK, ConnectionOK

LEMMA LoopContinuesStep == ASSUME SmtpLimits, MailInv, Smtp!LoopContinues PROVE MailInv'
<1>1. PICK q, l, out, ms, c : /\ q = mailQueue /\ l = loop /\ out = sending /\ ms = mails
                              /\ c = isConnected
  OBVIOUS
<1>2. /\ MailsOK(q, l, out, ms) /\ l.at # "sending" /\ Smtp!Continue(q, c)
      /\ UNCHANGED <<credentials, transporter, isConnected, reconnectAttempts, timer,
                     verifying, verifies, sending, mails>>
  BY <1>1 DEF MailInv, Smtp!LoopContinues, Smtp!connection
<1>3. MailsOK(mailQueue', loop', out, ms)
  BY <1>2, ContinueStep DEF SmtpLimits
<1> QED  BY <1>1, <1>2, <1>3 DEF MailInv, MailsOK, ConnectionOK

LEMMA ClearQueueStep == ASSUME SmtpLimits, MailInv, Smtp!ClearQueue PROVE MailInv'
<1>1. PICK q, l, out, ms : q = mailQueue /\ l = loop /\ out = sending /\ ms = mails
  OBVIOUS
<1>2. PICK l1, ms1 : l1 = loop' /\ ms1 = mails'
  OBVIOUS
<1>3. MailsOK(q, l, out, ms)
  BY <1>1 DEF MailInv
<1>4. /\ mailQueue' = <<>>
      /\ ms1 = [id \in DOMAIN ms |-> IF id \in Elements(q) THEN "rejected" ELSE ms[id]]
      /\ l1 = IF l.at = "requeued" THEN [at |-> "delay", mail |-> 0] ELSE l
      /\ UNCHANGED <<credentials, transporter, isConnected, reconnectAttempts, timer,
                     verifying, verifies, sending>>
  <2>1. \A id : id \in Elements(q) <=> \E i \in DOMAIN mailQueue : mailQueue[i] = id
    BY <1>1 DEF Elements
  <2>2. /\ mailQueue' = <<>>
        /\ ms1 = [id \in DOMAIN ms |->
                    IF \E i \in DOMAIN mailQueue : mailQueue[i] = id THEN "rejected" ELSE ms[id]]
        /\ l1 = IF l.at = "requeued" THEN [at |-> "delay", mail |-> 0] ELSE l
        /\ UNCHANGED <<credentials, transporter, isConnected, reconnectAttempts, timer,
                       verifying, verifies, sending>>
    BY <1>1, <1>2 DEF Smtp!ClearQueue, Smtp!connection
  <2> QED  BY <2>1, <2>2
<1>5. ms \in Seq({"waiting", "resolved", "rejected"}) /\ DOMAIN ms = 1 .. Len(ms) /\ Len(ms) \in Nat
  BY <1>3 DEF MailsOK
<1>6. ms1 \in Seq({"waiting", "resolved", "rejected"}) /\ Len(ms1) = Len(ms) /\ DOMAIN ms1 = DOMAIN ms
  <2>1. ms1 \in [1 .. Len(ms) -> {"waiting", "resolved", "rejected"}]
    BY <1>4, <1>5
  <2> QED  BY <1>5, <2>1, IsSeq
<1>7. {k \in DOMAIN ms1 : ms1[k] = "waiting"} = {k \in DOMAIN ms : ms[k] = "waiting"} \ Elements(q)
  BY <1>4, <1>6
<1>8. l1 \in MailLoops /\ InLoop(l1) = InLoop(l)
  <2>1. [at |-> "delay", mail |-> 0] \in MailLoops /\ l \in MailLoops
    BY <1>3 DEF MailLoops, SmtpLimits, MailsOK
  <2> QED  BY <1>4, <2>1 DEF InLoop
<1>9. PICK q1 : q1 = <<>>
  OBVIOUS
<1>10. q1 \in Seq(DOMAIN ms1) /\ Distinct(q1) /\ Elements(q1) = {}
  BY <1>9, NoElement
<1>11. MailsOK(q1, l1, out, ms1)
  BY <1>3, <1>6, <1>7, <1>8, <1>10 DEF MailsOK
<1> QED  BY <1>1, <1>2, <1>4, <1>9, <1>11 DEF MailInv, MailsOK, ConnectionOK

LEMMA MailInit == ASSUME SmtpLimits, Smtp!Init PROVE MailInv
<1>1. PICK q, l, out, ms : q = <<>> /\ l = Smtp!Idle /\ out = {} /\ ms = <<>>
  OBVIOUS
<1>2. ms \in Seq({"waiting", "resolved", "rejected"}) /\ Len(ms) = 0 /\ DOMAIN ms = {}
  BY <1>1
<1>3. q \in Seq(DOMAIN ms) /\ Distinct(q) /\ Elements(q) = {}
  BY <1>1, NoElement
<1>4. l \in MailLoops /\ InLoop(l) = {}
  BY <1>1 DEF Smtp!Idle, MailLoops, InLoop, SmtpLimits
<1>5. MailsOK(q, l, out, ms)
  BY <1>1, <1>2, <1>3, <1>4 DEF MailsOK, SmtpLimits
<1>6. mailQueue = q /\ loop = l /\ sending = out /\ mails = ms
  BY <1>1 DEF Smtp!Init
<1>7. verifies \in 0 .. 1 /\ verifying \subseteq {"reconnect"}
  <2>1. verifying = {} \/ verifying = {"reconnect"}
    BY DEF Smtp!Init
  <2>2. Cardinality({}) = 0 /\ Cardinality({"reconnect"}) = 1
    BY FS_EmptySet, FS_Singleton
  <2>3. verifies = Cardinality(verifying)
    BY DEF Smtp!Init, Smtp!Cardinality, Cardinality
  <2> QED  BY <2>1, <2>2, <2>3
<1>8. ConnectionOK
  <2>1. /\ credentials \in BOOLEAN /\ transporter \in BOOLEAN /\ isConnected \in BOOLEAN
        /\ timer \in BOOLEAN
    BY DEF Smtp!Init
  <2>2. reconnectAttempts \in 0 .. 1
    BY DEF Smtp!Init
  <2> QED  BY <1>7, <2>1, <2>2 DEF ConnectionOK, Smtp!Callers, SmtpLimits
<1> QED  BY <1>5, <1>6, <1>8 DEF MailInv

LEMMA MailNext == ASSUME SmtpLimits, MailInv, [Smtp!Next]_(Smtp!vars) PROVE MailInv'
<1>1. CASE Smtp!Destroy \/ UNCHANGED Smtp!vars
  <2>1. UNCHANGED <<mailQueue, loop, sending, mails>> /\ ConnectionOK'
    BY <1>1 DEF Smtp!Destroy, Smtp!vars, MailInv, ConnectionOK
  <2> QED  BY <2>1, MailsUnchanged
<1>2. CASE Smtp!Reconnect
  BY <1>2, ReconnectStep
<1>3. CASE Smtp!TestConnection \/ \E c \in BOOLEAN : Smtp!UpdateConfig(c)
  BY <1>3, VerifyAskedStep
<1>4. CASE \E who \in Smtp!Callers : Smtp!Verified(who) \/ Smtp!VerifyFailed(who)
  BY <1>4, VerifiedStep, VerifyFailedStep
<1>5. CASE Smtp!SendMail \/ Smtp!LoopContinues \/ Smtp!ClearQueue
  BY <1>5, SendMailStep, LoopContinuesStep, ClearQueueStep
<1>6. CASE \E how \in {"resolved", "rejected"} :
             Smtp!LoopAnswer(how) \/ \E id \in sending : Smtp!Answer(id, how)
  BY <1>6, AnswerMailStep
<1> QED  BY <1>1, <1>2, <1>3, <1>4, <1>5, <1>6 DEF Smtp!Next

LEMMA MailSpec == ASSUME SmtpLimits PROVE Smtp!Spec => []MailInv
<1>1. Smtp!Init => MailInv
  BY MailInit
<1>2. MailInv /\ [Smtp!Next]_(Smtp!vars) => MailInv'
  BY MailNext
<1> QED  BY <1>1, <1>2, PTL DEF Smtp!Spec

LEMMA MailPromise == ASSUME SmtpLimits, MailInv PROVE Smtp!TypeOK /\ Smtp!EveryMailHasAPlace
<1>1. PICK q, l, out, ms : q = mailQueue /\ l = loop /\ out = sending /\ ms = mails
  OBVIOUS
<1>2. MailsOK(q, l, out, ms)
  BY <1>1 DEF MailInv
<1>3. Smtp!Cardinality(Elements(q)) = Len(q)
  <2>1. Cardinality(Elements(q)) = Len(q)
    BY <1>2, DistinctCount DEF MailsOK
  <2> QED  BY <2>1 DEF Smtp!Cardinality, Cardinality
<1>4. Smtp!EveryMailHasAPlace
  BY <1>1, <1>2, <1>3 DEF MailsOK, Elements, InLoop, Smtp!EveryMailHasAPlace
<1>5. mailQueue \in Seq(1 .. MaxQueuedMails)
  <2>1. ms \in Seq({"waiting", "resolved", "rejected"}) /\ Len(ms) <= MaxQueuedMails
    BY <1>2 DEF MailsOK
  <2>2. DOMAIN ms \subseteq 1 .. MaxQueuedMails
    BY <2>1 DEF SmtpLimits
  <2>3. q \in Seq(DOMAIN ms)
    BY <1>2 DEF MailsOK
  <2>4. q \in [1 .. Len(q) -> DOMAIN ms] /\ Len(q) \in Nat
    BY <2>3
  <2>5. q \in [1 .. Len(q) -> 1 .. MaxQueuedMails]
    BY <2>2, <2>4
  <2>6. q \in Seq(1 .. MaxQueuedMails)
    BY <2>4, <2>5, IsSeq
  <2> QED  BY <1>1, <2>6
<1>6. loop \in MailLoops /\ sending \subseteq DOMAIN mails
      /\ mails \in Seq({"waiting", "resolved", "rejected"})
  BY <1>1, <1>2 DEF MailsOK
<1>7. Smtp!TypeOK
  BY <1>5, <1>6 DEF MailInv, ConnectionOK, MailLoops, Smtp!TypeOK
<1> QED  BY <1>4, <1>7

-----------------------------------------------------------------------------
(* The audit log: every entry has one place until it is stored.              *)

AuditLimits == MaxEntries \in Nat /\ MaxAuditFailures \in Nat

Flushes == [logs : Seq(Audit!Entries), again : BOOLEAN]

\* The buffer b and the flushes fl share no entry, and none has one twice.
PlacesOK(b, fl) ==
    /\ b \in Seq(Audit!Entries) /\ Distinct(b) /\ fl \in Seq(Flushes)
    /\ \A i \in DOMAIN fl : Distinct(fl[i].logs) /\ Elements(b) \cap Elements(fl[i].logs) = {}
    /\ \A i, k \in DOMAIN fl : i # k => Elements(fl[i].logs) \cap Elements(fl[k].logs) = {}

HeldIn(b, fl) == Elements(b) \cup UNION {Elements(fl[i].logs) : i \in DOMAIN fl}

\* What is held and what is stored of the first n entries, when there were so many failures.
CopiesOK(n, held, st, gone, fails) ==
    /\ n \in 0 .. MaxEntries /\ held \subseteq 1 .. n /\ fails \in 0 .. MaxAuditFailures
    /\ st \in [Audit!Entries -> Nat] /\ gone \subseteq Audit!Entries
    /\ \A e \in 1 .. n : /\ st[e] <= (IF e \in held THEN 0 ELSE 1) + fails
                         /\ e \in held \/ st[e] > 0 \/ e \in gone
    /\ \A e \in Audit!Entries : e > n => st[e] = 0

AuditInv ==
    /\ PlacesOK(buffer, flushing) /\ ticking \in BOOLEAN
    /\ CopiesOK(logged, HeldIn(buffer, flushing), stored, removed, auditFailures)

\* The same from values that do not change, as the lemmas below need them.
LEMMA AuditInvFrom ==
  ASSUME NEW n, NEW held, NEW st, NEW gone, NEW fails,
         CopiesOK(n, held, st, gone, fails), PlacesOK(buffer, flushing)',
         logged' = n, HeldIn(buffer, flushing)' = held, stored' = st, removed' = gone,
         auditFailures' = fails, ticking' \in BOOLEAN
  PROVE  AuditInv'
<1>1. CopiesOK(logged, HeldIn(buffer, flushing), stored, removed, auditFailures)'
  BY DEF CopiesOK
<1> QED  BY <1>1 DEF AuditInv

LEMMA HeldEntry ==
  ASSUME NEW b, NEW fl, NEW e
  PROVE  e \in HeldIn(b, fl) <=> \/ e \in Elements(b)
                                 \/ \E i \in DOMAIN fl : e \in Elements(fl[i].logs)
BY DEF HeldIn

\* flushBuffer moves the buffer to a flush of its own.
LEMMA FlushBufferIs ==
  ASSUME NEW b, NEW rest, PlacesOK(b, rest), NEW again \in BOOLEAN,
         Audit!FlushBuffer(b, rest, again)
  PROVE  PlacesOK(buffer, flushing)' /\ HeldIn(buffer, flushing)' = HeldIn(b, rest)
<1>1. PICK b1, fl : b1 = buffer' /\ fl = flushing'
  OBVIOUS
<1>2. b1 = <<>> /\ b1 \in Seq(Audit!Entries) /\ Elements(b1) = {} /\ Distinct(b1)
  <2>1. b1 = <<>>
    BY <1>1 DEF Audit!FlushBuffer
  <2> QED  BY <2>1, NoElement
<1>3. CASE b = <<>>
  <2>1. fl = rest /\ Elements(b) = {}
    BY <1>1, <1>3, NoElement DEF Audit!FlushBuffer
  <2>2. PlacesOK(b1, fl) /\ HeldIn(b1, fl) = HeldIn(b, rest)
    BY <1>2, <2>1 DEF PlacesOK, HeldIn
  <2> QED  BY <1>1, <2>2 DEF PlacesOK, HeldIn
<1>4. CASE b # <<>>
  <2>1. PICK f : f = [logs |-> b, again |-> again]
    OBVIOUS
  <2>2. fl = Append(rest, f)
    BY <1>1, <1>4, <2>1 DEF Audit!FlushBuffer
  <2>3. f \in Flushes /\ f.logs = b /\ rest \in Seq(Flushes) /\ Distinct(b)
    BY <2>1 DEF Flushes, PlacesOK
  <2>4. PICK n : n = Len(rest) + 1
    OBVIOUS
  <2>5. /\ fl \in Seq(Flushes) /\ DOMAIN fl = DOMAIN rest \cup {n} /\ n \notin DOMAIN rest
        /\ fl[n] = f /\ \A i \in DOMAIN rest : fl[i] = rest[i]
    <3>1. /\ fl \in Seq(Flushes) /\ Len(fl) = Len(rest) + 1 /\ Len(rest) \in Nat
          /\ DOMAIN rest = 1 .. Len(rest) /\ DOMAIN fl = 1 .. Len(fl)
          /\ fl[Len(rest) + 1] = f /\ \A i \in 1 .. Len(rest) : fl[i] = rest[i]
      BY <2>2, <2>3
    <3> QED  BY <2>4, <3>1
  <2>6. ASSUME NEW i \in DOMAIN fl
        PROVE  Distinct(fl[i].logs) /\ Elements(b1) \cap Elements(fl[i].logs) = {}
    <3>1. CASE i = n
      BY <1>2, <2>3, <2>5, <3>1
    <3>2. CASE i # n
      BY <1>2, <2>5, <2>6, <3>2 DEF PlacesOK
    <3> QED  BY <3>1, <3>2
  <2>7. ASSUME NEW i \in DOMAIN fl, NEW k \in DOMAIN fl, i # k
        PROVE  Elements(fl[i].logs) \cap Elements(fl[k].logs) = {}
    <3>1. CASE i = n
      <4>1. k \in DOMAIN rest /\ fl[k] = rest[k] /\ fl[i].logs = b
        BY <2>3, <2>5, <2>7, <3>1
      <4> QED  BY <4>1 DEF PlacesOK
    <3>2. CASE k = n
      <4>1. i \in DOMAIN rest /\ fl[i] = rest[i] /\ fl[k].logs = b
        BY <2>3, <2>5, <2>7, <3>2
      <4> QED  BY <4>1 DEF PlacesOK
    <3>3. CASE i # n /\ k # n
      <4>1. i \in DOMAIN rest /\ fl[i] = rest[i] /\ k \in DOMAIN rest /\ fl[k] = rest[k]
        BY <2>5, <2>7, <3>3
      <4> QED  BY <2>7, <4>1 DEF PlacesOK
    <3> QED  BY <3>1, <3>2, <3>3
  <2>8. PlacesOK(b1, fl)
    BY <1>2, <2>5, <2>6, <2>7 DEF PlacesOK
  <2>9. HeldIn(b1, fl) = HeldIn(b, rest)
    <3>1. \A e : e \in HeldIn(b1, fl) <=> e \in HeldIn(b, rest)
      <4> SUFFICES ASSUME NEW e PROVE e \in HeldIn(b1, fl) <=> e \in HeldIn(b, rest)
        OBVIOUS
      <4>1. (\E i \in DOMAIN fl : e \in Elements(fl[i].logs))
              <=> (e \in Elements(b) \/ \E i \in DOMAIN rest : e \in Elements(rest[i].logs))
        BY <2>3, <2>5
      <4> QED  BY <1>2, <4>1, HeldEntry
    <3> QED  BY <3>1
  <2> QED  BY <1>1, <2>8, <2>9 DEF PlacesOK, HeldIn
<1> QED  BY <1>3, <1>4

\* The other flushes, when one is over.
OthersAre(fl, i, w) ==
    /\ \A k \in DOMAIN w : \E j \in DOMAIN fl : j # i /\ w[k] = fl[j]
    /\ \A j \in DOMAIN fl : j # i => \E k \in DOMAIN w : w[k] = fl[j]
    /\ \A k, l \in DOMAIN w : k # l =>
          \E j, m \in DOMAIN fl : j # m /\ w[k] = fl[j] /\ w[l] = fl[m]

LEMMA OthersStay ==
  ASSUME NEW S, NEW fl \in Seq(S), NEW i \in DOMAIN fl, NEW w,
         w = SubSeq(fl, 1, i - 1) \o SubSeq(fl, i + 1, Len(fl))
  PROVE  w \in Seq(S) /\ OthersAre(fl, i, w)
<1>1. PICK a, b, n : /\ a = SubSeq(fl, 1, i - 1) /\ b = SubSeq(fl, i + 1, Len(fl))
                     /\ n = Len(fl)
  OBVIOUS
<1>2. n \in Nat /\ i \in 1 .. n /\ DOMAIN fl = 1 .. n
  BY <1>1
<1>3. a \in Seq(S) /\ Len(a) = i - 1 /\ \A k \in 1 .. i - 1 : a[k] = fl[k]
  BY <1>1, <1>2
<1>4. b \in Seq(S) /\ Len(b) = n - i /\ \A k \in 1 .. n - i : b[k] = fl[i + k]
  BY <1>1, <1>2
<1>5. /\ w \in Seq(S) /\ Len(w) = n - 1
      /\ \A k \in 1 .. i - 1 : w[k] = a[k]
      /\ \A k \in 1 .. n - i : w[(i - 1) + k] = b[k]
  <2>1. /\ a \o b \in Seq(S) /\ Len(a \o b) = Len(a) + Len(b)
        /\ \A k \in 1 .. Len(a) : (a \o b)[k] = a[k]
        /\ \A k \in 1 .. Len(b) : (a \o b)[Len(a) + k] = b[k]
    <3>1. a \in Seq(S) /\ b \in Seq(S)
      BY <1>3, <1>4
    <3> QED  BY <3>1, Joined
  <2>2. (i - 1) + (n - i) = n - 1
    BY <1>2
  <2> QED  BY <1>1, <1>2, <1>3, <1>4, <2>1, <2>2
<1>6. DOMAIN w = 1 .. n - 1
  BY <1>2, <1>5
<1> DEFINE Place(k) == IF k < i THEN k ELSE k + 1
<1>7. ASSUME NEW k \in DOMAIN w PROVE Place(k) \in DOMAIN fl /\ Place(k) # i /\ w[k] = fl[Place(k)]
  <2>1. k \in 1 .. n - 1
    BY <1>6
  <2>2. CASE k < i
    <3>1. k \in 1 .. i - 1 /\ k \in 1 .. n /\ k # i
      BY <1>2, <2>1, <2>2
    <3> QED  BY <1>2, <1>3, <1>5, <2>2, <3>1
  <2>3. CASE ~(k < i)
    <3>1. PICK j : j = k - (i - 1)
      OBVIOUS
    <3>2. j \in 1 .. n - i /\ (i - 1) + j = k /\ i + j = k + 1 /\ k + 1 \in 1 .. n /\ k + 1 # i
      <4>1. k \in Int /\ k <= n - 1 /\ n \in Nat /\ i \in Int /\ 1 <= i
        BY <1>2, <2>1
      <4>2. i <= k
        BY <2>3, <4>1
      <4>3. j \in Int /\ 1 <= j /\ j <= n - i /\ (i - 1) + j = k /\ i + j = k + 1
        <5>1. j \in Int
          BY <3>1, <4>1
        <5>2. 1 <= j /\ j <= n - i
          BY <3>1, <4>1, <4>2, <5>1
        <5>3. (i - 1) + j = k
          BY <3>1, <4>1, <5>1
        <5>4. i + j = k + 1
          BY <3>1, <4>1, <5>1
        <5> QED  BY <5>1, <5>2, <5>3, <5>4
      <4>4. k + 1 \in 1 .. n /\ k + 1 # i
        BY <4>1, <4>2
      <4>5. j \in 1 .. n - i
        BY <4>1, <4>3
      <4> QED  BY <4>3, <4>4, <4>5
    <3>3. w[k] = b[j] /\ b[j] = fl[k + 1]
      BY <1>4, <1>5, <3>2
    <3> QED  BY <1>2, <2>3, <3>2, <3>3
  <2> QED  BY <2>2, <2>3
<1>8. ASSUME NEW j \in DOMAIN fl, j # i PROVE \E k \in DOMAIN w : w[k] = fl[j]
  <2>1. PICK k : k = IF j < i THEN j ELSE j - 1
    OBVIOUS
  <2>2. k \in DOMAIN w /\ Place(k) = j
    BY <1>2, <1>6, <1>8, <2>1
  <2> QED  BY <1>7, <2>2
<1>9. ASSUME NEW k \in DOMAIN w, NEW l \in DOMAIN w, k # l PROVE Place(k) # Place(l)
  <2>1. k \in Int /\ l \in Int /\ i \in Int
    BY <1>2, <1>6
  <2> QED  BY <1>9, <2>1
<1> HIDE DEF Place
<1>10. \A k, l \in DOMAIN w : k # l =>
          \E j, m \in DOMAIN fl : j # m /\ w[k] = fl[j] /\ w[l] = fl[m]
  BY <1>7, <1>9
<1> QED  BY <1>5, <1>7, <1>8, <1>10 DEF OthersAre

\* A flush that is over leaves its entries, or puts them behind the buffer.
LEMMA FlushOver ==
  ASSUME NEW b, NEW fl, PlacesOK(b, fl), NEW i \in DOMAIN fl,
         NEW w \in Seq(Flushes), OthersAre(fl, i, w)
  PROVE  /\ PlacesOK(b, w) /\ HeldIn(b, w) = HeldIn(b, fl) \ Elements(fl[i].logs)
         /\ PlacesOK(b \o fl[i].logs, w) /\ HeldIn(b \o fl[i].logs, w) = HeldIn(b, fl)
<1>1. fl \in Seq(Flushes)
  BY DEF PlacesOK
<1>2. PICK logs : logs = fl[i].logs
  OBVIOUS
<1>3. logs \in Seq(Audit!Entries) /\ Distinct(logs) /\ Elements(b) \cap Elements(logs) = {}
  <2>1. fl[i] \in Flushes
    BY <1>1
  <2> QED  BY <1>2, <2>1 DEF Flushes, PlacesOK
<1>4. /\ b \o logs \in Seq(Audit!Entries) /\ Distinct(b \o logs)
      /\ Elements(b \o logs) = Elements(b) \cup Elements(logs)
  <2>1. b \in Seq(Audit!Entries) /\ Distinct(b)
    BY DEF PlacesOK
  <2> QED  BY <1>3, <2>1, JoinedElements
<1>5. PICK c : c = b \o logs
  OBVIOUS
<1>6. ASSUME NEW k \in DOMAIN w
      PROVE  /\ Distinct(w[k].logs) /\ Elements(b) \cap Elements(w[k].logs) = {}
             /\ Elements(logs) \cap Elements(w[k].logs) = {}
  <2>1. PICK j \in DOMAIN fl : j # i /\ w[k] = fl[j]
    BY DEF OthersAre
  <2> QED  BY <1>2, <2>1 DEF PlacesOK
<1>7. ASSUME NEW k \in DOMAIN w, NEW l \in DOMAIN w, k # l
      PROVE  Elements(w[k].logs) \cap Elements(w[l].logs) = {}
  <2>1. PICK j \in DOMAIN fl, m \in DOMAIN fl : j # m /\ w[k] = fl[j] /\ w[l] = fl[m]
    BY <1>7 DEF OthersAre
  <2> QED  BY <2>1 DEF PlacesOK
<1>8. PlacesOK(b, w)
  BY <1>6, <1>7 DEF PlacesOK
<1>9. PlacesOK(c, w)
  <2>1. \A k \in DOMAIN w : Elements(c) \cap Elements(w[k].logs) = {}
    BY <1>4, <1>5, <1>6
  <2> QED  BY <1>4, <1>5, <1>6, <1>7, <2>1 DEF PlacesOK
<1>10. ASSUME NEW e
       PROVE  /\ e \in HeldIn(b, w) <=> e \in HeldIn(b, fl) /\ e \notin Elements(logs)
              /\ e \in HeldIn(c, w) <=> e \in HeldIn(b, fl)
  <2>1. (\E j \in DOMAIN fl : e \in Elements(fl[j].logs))
          <=> (e \in Elements(logs) \/ \E k \in DOMAIN w : e \in Elements(w[k].logs))
    BY <1>2 DEF OthersAre
  <2>2. \A k \in DOMAIN w : e \in Elements(w[k].logs) => e \notin Elements(logs)
    BY <1>6
  <2>3. e \in Elements(b) => e \notin Elements(logs)
    BY <1>3
  <2>7. /\ e \in HeldIn(b, w)
             <=> (e \in Elements(b) \/ \E k \in DOMAIN w : e \in Elements(w[k].logs))
        /\ e \in HeldIn(b, fl)
             <=> (e \in Elements(b) \/ \E j \in DOMAIN fl : e \in Elements(fl[j].logs))
        /\ e \in HeldIn(c, w)
             <=> (e \in Elements(c) \/ \E k \in DOMAIN w : e \in Elements(w[k].logs))
    BY HeldEntry
  <2>4. e \in HeldIn(b, w) <=> e \in HeldIn(b, fl) /\ e \notin Elements(logs)
    BY <2>1, <2>2, <2>3, <2>7
  <2>5. e \in Elements(c) <=> e \in Elements(b) \/ e \in Elements(logs)
    BY <1>4, <1>5
  <2>6. e \in HeldIn(c, w) <=> e \in HeldIn(b, fl)
    BY <2>1, <2>5, <2>7
  <2> QED  BY <2>4, <2>6
<1>11. HeldIn(b, w) = HeldIn(b, fl) \ Elements(logs) /\ HeldIn(c, w) = HeldIn(b, fl)
  BY <1>10
<1> QED  BY <1>2, <1>5, <1>8, <1>9, <1>11

\* The end of a flush, with the second one of its caller.
LEMMA EndedIs ==
  ASSUME NEW i, NEW b, NEW w, w = Audit!Without(i), PlacesOK(b, w), Audit!Ended(i, b)
  PROVE  PlacesOK(buffer, flushing)' /\ HeldIn(buffer, flushing)' = HeldIn(b, w)
<1>1. CASE flushing[i].again
  <2>1. Audit!FlushBuffer(b, w, FALSE)
    BY <1>1 DEF Audit!Ended
  <2> QED  BY <2>1, FlushBufferIs
<1>2. CASE ~flushing[i].again
  <2>1. buffer' = b /\ flushing' = w
    BY <1>2 DEF Audit!Ended
  <2> QED  BY <2>1 DEF PlacesOK, HeldIn
<1> QED  BY <1>1, <1>2

\* insertMany of the first n entries stores one more copy of each.
LEMMA StoredIs ==
  ASSUME AuditInv, NEW logs \in Seq(Audit!Entries), Distinct(logs), NEW n \in 0 .. Len(logs),
         NEW st, st = Audit!Stored(logs, n)
  PROVE  /\ st \in [Audit!Entries -> Nat]
         /\ \A e \in Audit!Entries :
               st[e] = stored[e] + (IF e \in {logs[j] : j \in 1 .. n} THEN 1 ELSE 0)
<1>1. stored \in [Audit!Entries -> Nat]
  BY DEF AuditInv, CopiesOK
<1>2. DOMAIN logs = 1 .. Len(logs) /\ Len(logs) \in Nat /\ 1 .. n \subseteq DOMAIN logs
  OBVIOUS
<1>3. ASSUME NEW e \in Audit!Entries
      PROVE  st[e] = stored[e] + (IF e \in {logs[j] : j \in 1 .. n} THEN 1 ELSE 0)
  <2>1. PICK J : J = {j \in 1 .. n : logs[j] = e}
    OBVIOUS
  <2>2. st[e] = stored[e] + Cardinality(J)
    BY <2>1 DEF Audit!Stored, Audit!Cardinality, Cardinality
  <2>3. CASE e \in {logs[j] : j \in 1 .. n}
    <3>1. PICK j \in 1 .. n : logs[j] = e
      BY <2>3
    <3>2. J = {j}
      BY <1>2, <2>1, <3>1 DEF Distinct
    <3>3. Cardinality(J) = 1
      BY <3>2, FS_Singleton
    <3> QED  BY <2>2, <2>3, <3>3
  <2>4. CASE e \notin {logs[j] : j \in 1 .. n}
    <3>1. J = {}
      BY <2>1, <2>4
    <3>2. Cardinality(J) = 0
      BY <3>1, FS_EmptySet
    <3> QED  BY <2>2, <2>4, <3>2
  <2> QED  BY <2>3, <2>4
<1>4. st = [e \in Audit!Entries |-> st[e]]
  BY DEF Audit!Stored
<1>5. \A e \in Audit!Entries : st[e] \in Nat
  BY <1>1, <1>3
<1> QED  BY <1>3, <1>4, <1>5

LEMMA LogStep == ASSUME AuditLimits, AuditInv, NEW severity, Audit!Log(severity) PROVE AuditInv'
<1>1. PICK b0, fl0, n, st, gone, fails :
        /\ b0 = buffer /\ fl0 = flushing /\ n = logged + 1 /\ st = stored /\ gone = removed
        /\ fails = auditFailures
  OBVIOUS
<1>2. PICK b, again : b = Append(b0, n) /\ again = (severity = "critical")
  OBVIOUS
<1>3. /\ logged < MaxEntries /\ logged' = n /\ stored' = st /\ removed' = gone
      /\ auditFailures' = fails /\ ticking' = ticking
      /\ \/ Audit!FlushBuffer(b, fl0, again) \/ Audit!FlushBuffer(b, fl0, FALSE)
         \/ buffer' = b /\ flushing' = fl0
  BY <1>1, <1>2 DEF Audit!Log
<1>4. PlacesOK(b0, fl0) /\ CopiesOK(n - 1, HeldIn(b0, fl0), st, gone, fails)
  <2>1. n - 1 = logged
    BY <1>1 DEF AuditInv, CopiesOK, AuditLimits
  <2> QED  BY <1>1, <2>1 DEF AuditInv
<1>5. n \in Audit!Entries /\ n \in Nat /\ n <= MaxEntries /\ n \notin HeldIn(b0, fl0)
  <2>1. logged \in 0 .. MaxEntries /\ HeldIn(b0, fl0) \subseteq 1 .. logged
    BY <1>1 DEF AuditInv, CopiesOK
  <2>2. n \in 1 .. MaxEntries /\ n \notin 1 .. logged
    BY <1>1, <1>3, <2>1 DEF AuditLimits
  <2> QED  BY <2>1, <2>2 DEF AuditLimits, Audit!Entries
<1>6. b \in Seq(Audit!Entries) /\ Distinct(b) /\ Elements(b) = Elements(b0) \cup {n}
  <2>1. b0 \in Seq(Audit!Entries) /\ Distinct(b0) /\ n \notin Elements(b0)
    BY <1>4, <1>5 DEF PlacesOK, HeldIn
  <2> QED  BY <1>2, <1>5, <2>1, AppendedElements
<1>7. PlacesOK(b, fl0) /\ HeldIn(b, fl0) = HeldIn(b0, fl0) \cup {n}
  <2>1. \A i \in DOMAIN fl0 : n \notin Elements(fl0[i].logs)
    BY <1>5 DEF HeldIn
  <2>2. PlacesOK(b, fl0)
    BY <1>4, <1>6, <2>1 DEF PlacesOK
  <2> QED  BY <1>6, <2>2 DEF HeldIn
<1>8. PlacesOK(buffer, flushing)' /\ HeldIn(buffer, flushing)' = HeldIn(b, fl0)
  <2>1. again \in BOOLEAN
    BY <1>2
  <2>2. CASE Audit!FlushBuffer(b, fl0, again) \/ Audit!FlushBuffer(b, fl0, FALSE)
    BY <1>7, <2>1, <2>2, FlushBufferIs
  <2>3. CASE buffer' = b /\ flushing' = fl0
    BY <1>7, <2>3 DEF PlacesOK, HeldIn
  <2> QED  BY <1>3, <2>2, <2>3
<1>9. PICK held : held = HeldIn(b0, fl0) \cup {n}
  OBVIOUS
<1>10. CopiesOK(n, held, st, gone, fails)
  <2>1. held \subseteq 1 .. n /\ n \in 0 .. MaxEntries
    BY <1>4, <1>5, <1>9 DEF CopiesOK, AuditLimits
  <2>2. ASSUME NEW e \in 1 .. n
        PROVE  /\ st[e] <= (IF e \in held THEN 0 ELSE 1) + fails
               /\ e \in held \/ st[e] > 0 \/ e \in gone
    <3>1. CASE e = n
      <4>1. st[n] = 0 /\ fails \in Nat
        BY <1>4, <1>5 DEF CopiesOK, AuditLimits
      <4> QED  BY <1>9, <3>1, <4>1
    <3>2. CASE e # n
      <4>1. e \in 1 .. n - 1
        BY <1>5, <3>2
      <4> QED  BY <1>4, <1>9, <3>2, <4>1 DEF CopiesOK
    <3> QED  BY <3>1, <3>2
  <2>3. \A e \in Audit!Entries : e > n => st[e] = 0
    <3>1. \A e \in Audit!Entries : e > n => e > n - 1
      BY <1>5 DEF Audit!Entries, AuditLimits
    <3> QED  BY <1>4, <3>1 DEF CopiesOK
  <2> QED  BY <1>4, <2>1, <2>2, <2>3 DEF CopiesOK
<1>11. HeldIn(buffer, flushing)' = held /\ ticking' \in BOOLEAN
  BY <1>3, <1>7, <1>8, <1>9 DEF AuditInv
<1> QED  BY <1>3, <1>8, <1>10, <1>11, AuditInvFrom

LEMMA FlushStep ==
  ASSUME AuditLimits, AuditInv, Audit!FlushInterval \/ Audit!Destroy PROVE AuditInv'
<1>1. PICK b, fl, n, st, gone, fails :
        /\ b = buffer /\ fl = flushing /\ n = logged /\ st = stored /\ gone = removed
        /\ fails = auditFailures
  OBVIOUS
<1>2. /\ Audit!FlushBuffer(b, fl, FALSE)
      /\ logged' = n /\ stored' = st /\ removed' = gone /\ auditFailures' = fails
      /\ ticking' \in BOOLEAN
  BY <1>1 DEF Audit!FlushInterval, Audit!Destroy, AuditInv
<1>3. PlacesOK(b, fl) /\ CopiesOK(n, HeldIn(b, fl), st, gone, fails)
  BY <1>1 DEF AuditInv
<1>4. PlacesOK(buffer, flushing)' /\ HeldIn(buffer, flushing)' = HeldIn(b, fl)
  BY <1>2, <1>3, FlushBufferIs
<1> QED  BY <1>2, <1>3, <1>4, AuditInvFrom

LEMMA FlushedStep ==
  ASSUME AuditLimits, AuditInv, NEW i \in DOMAIN flushing, Audit!Flushed(i) PROVE AuditInv'
<1>1. PICK b, fl, n, st, gone, fails :
        /\ b = buffer /\ fl = flushing /\ n = logged /\ st = stored /\ gone = removed
        /\ fails = auditFailures
  OBVIOUS
<1>2. PICK logs, w, st1 : /\ logs = fl[i].logs /\ w = Audit!Without(i)
                          /\ st1 = Audit!Stored(logs, Len(logs))
  OBVIOUS
<1>3. /\ stored' = st1 /\ Audit!Ended(i, b) /\ logged' = n /\ removed' = gone
      /\ auditFailures' = fails /\ ticking' = ticking
  BY <1>1, <1>2 DEF Audit!Flushed
<1>4. PlacesOK(b, fl) /\ CopiesOK(n, HeldIn(b, fl), st, gone, fails) /\ i \in DOMAIN fl
  BY <1>1 DEF AuditInv
<1>5. w \in Seq(Flushes) /\ OthersAre(fl, i, w)
  <2>1. fl \in Seq(Flushes)
    BY <1>4 DEF PlacesOK
  <2>2. w = SubSeq(fl, 1, i - 1) \o SubSeq(fl, i + 1, Len(fl))
    BY <1>1, <1>2 DEF Audit!Without
  <2> QED  BY <1>4, <2>1, <2>2, OthersStay
<1>6. PlacesOK(b, w) /\ HeldIn(b, w) = HeldIn(b, fl) \ Elements(logs)
  <2>1. PlacesOK(b, w) /\ HeldIn(b, w) = HeldIn(b, fl) \ Elements(fl[i].logs)
    BY <1>4, <1>5, FlushOver
  <2> QED  BY <1>2, <2>1
<1>7. PlacesOK(buffer, flushing)' /\ HeldIn(buffer, flushing)' = HeldIn(b, w)
  BY <1>2, <1>3, <1>6, EndedIs
<1>8. logs \in Seq(Audit!Entries) /\ Distinct(logs) /\ Elements(logs) \subseteq HeldIn(b, fl)
  <2>1. fl[i] \in Flushes /\ Distinct(fl[i].logs)
    BY <1>4 DEF PlacesOK
  <2> QED  BY <1>2, <1>4, <2>1 DEF Flushes, HeldIn
<1>9. /\ st1 \in [Audit!Entries -> Nat]
      /\ \A e \in Audit!Entries : st1[e] = st[e] + (IF e \in Elements(logs) THEN 1 ELSE 0)
  <2>1. Len(logs) \in 0 .. Len(logs) /\ Elements(logs) = {logs[j] : j \in 1 .. Len(logs)}
    BY <1>8 DEF Elements
  <2>2. PICK m : m = Len(logs)
    OBVIOUS
  <2>3. /\ st1 \in [Audit!Entries -> Nat]
        /\ \A e \in Audit!Entries :
              st1[e] = stored[e] + (IF e \in {logs[j] : j \in 1 .. m} THEN 1 ELSE 0)
    <3>1. m \in 0 .. Len(logs) /\ st1 = Audit!Stored(logs, m)
      BY <1>2, <2>1, <2>2
    <3> QED  BY <1>8, <3>1, StoredIs
  <2> QED  BY <1>1, <2>1, <2>2, <2>3
<1>10. PICK held, left : held = HeldIn(b, fl) /\ left = HeldIn(b, fl) \ Elements(logs)
  OBVIOUS
<1>11. CopiesOK(n, left, st1, gone, fails)
  <2>1. CopiesOK(n, held, st, gone, fails)
    BY <1>4, <1>10
  <2>2. n \in Nat /\ fails \in Nat /\ 1 .. n \subseteq Audit!Entries
    BY <2>1 DEF CopiesOK, AuditLimits, Audit!Entries
  <2>3. ASSUME NEW e \in 1 .. n
        PROVE  /\ st1[e] <= (IF e \in left THEN 0 ELSE 1) + fails
               /\ e \in left \/ st1[e] > 0 \/ e \in gone
    <3>1. /\ st[e] \in Nat /\ st[e] <= (IF e \in held THEN 0 ELSE 1) + fails
          /\ e \in held \/ st[e] > 0 \/ e \in gone
      BY <2>1, <2>2 DEF CopiesOK
    <3>2. CASE e \in Elements(logs)
      <4>1. e \in held /\ e \notin left /\ st1[e] = st[e] + 1
        BY <1>8, <1>9, <1>10, <2>2, <3>2
      <4> QED  BY <2>2, <3>1, <4>1
    <3>3. CASE e \notin Elements(logs)
      <4>1. (e \in left <=> e \in held) /\ st1[e] = st[e]
        BY <1>9, <1>10, <2>2, <3>1, <3>3
      <4> QED  BY <3>1, <4>1
    <3> QED  BY <3>2, <3>3
  <2>4. ASSUME NEW e \in Audit!Entries, e > n PROVE st1[e] = 0
    <3>1. e \notin Elements(logs) /\ st[e] = 0
      BY <1>8, <1>10, <2>1, <2>2, <2>4 DEF CopiesOK
    <3> QED  BY <1>9, <3>1
  <2>5. left \subseteq 1 .. n
    BY <1>10, <2>1 DEF CopiesOK
  <2> QED  BY <1>9, <2>1, <2>3, <2>4, <2>5 DEF CopiesOK
<1>12. HeldIn(buffer, flushing)' = left /\ ticking' \in BOOLEAN
  BY <1>3, <1>6, <1>7, <1>10 DEF AuditInv
<1> QED  BY <1>3, <1>7, <1>11, <1>12, AuditInvFrom

LEMMA FlushFailedStep ==
  ASSUME AuditLimits, AuditInv, NEW i \in DOMAIN flushing, Audit!FlushFailed(i) PROVE AuditInv'
<1>1. PICK b, fl, n, st, gone, fails :
        /\ b = buffer /\ fl = flushing /\ n = logged /\ st = stored /\ gone = removed
        /\ fails = auditFailures
  OBVIOUS
<1>2. PICK logs, w : logs = fl[i].logs /\ w = Audit!Without(i)
  OBVIOUS
<1>3. PICK c : c = b \o logs
  OBVIOUS
<1>4. /\ fails < MaxAuditFailures /\ auditFailures' = fails + 1
      /\ Audit!Ended(i, c) /\ logged' = n /\ removed' = gone /\ ticking' = ticking
      /\ \E m \in 0 .. Len(logs) : stored' = Audit!Stored(logs, m)
  BY <1>1, <1>2, <1>3 DEF Audit!FlushFailed, Audit!PutBack
<1>5. PICK m \in 0 .. Len(logs) : stored' = Audit!Stored(logs, m)
  BY <1>4
<1>6. PICK st1, fails1 : st1 = Audit!Stored(logs, m) /\ fails1 = fails + 1
  OBVIOUS
<1>7. PlacesOK(b, fl) /\ CopiesOK(n, HeldIn(b, fl), st, gone, fails) /\ i \in DOMAIN fl
  BY <1>1 DEF AuditInv
<1>8. w \in Seq(Flushes) /\ OthersAre(fl, i, w)
  <2>1. fl \in Seq(Flushes)
    BY <1>7 DEF PlacesOK
  <2>2. w = SubSeq(fl, 1, i - 1) \o SubSeq(fl, i + 1, Len(fl))
    BY <1>1, <1>2 DEF Audit!Without
  <2> QED  BY <1>7, <2>1, <2>2, OthersStay
<1>9. PlacesOK(c, w) /\ HeldIn(c, w) = HeldIn(b, fl)
  <2>1. PlacesOK(b \o fl[i].logs, w) /\ HeldIn(b \o fl[i].logs, w) = HeldIn(b, fl)
    BY <1>7, <1>8, FlushOver
  <2> QED  BY <1>2, <1>3, <2>1
<1>10. PlacesOK(buffer, flushing)' /\ HeldIn(buffer, flushing)' = HeldIn(c, w)
  BY <1>2, <1>4, <1>9, EndedIs
<1>11. logs \in Seq(Audit!Entries) /\ Distinct(logs) /\ Elements(logs) \subseteq HeldIn(b, fl)
  <2>1. fl[i] \in Flushes /\ Distinct(fl[i].logs)
    BY <1>7 DEF PlacesOK
  <2>2. fl[i].logs \in Seq(Audit!Entries)
    BY <2>1 DEF Flushes
  <2>3. Elements(fl[i].logs) \subseteq HeldIn(b, fl)
    BY <1>7 DEF HeldIn
  <2> QED  BY <1>2, <2>1, <2>2, <2>3
<1>12. PICK first : first = {logs[j] : j \in 1 .. m}
  OBVIOUS
<1>13. first \subseteq Elements(logs)
  BY <1>11, <1>12 DEF Elements
<1>14. /\ st1 \in [Audit!Entries -> Nat]
       /\ \A e \in Audit!Entries : st1[e] = st[e] + (IF e \in first THEN 1 ELSE 0)
  <2>1. logs \in Seq(Audit!Entries) /\ Distinct(logs) /\ st1 = Audit!Stored(logs, m)
    BY <1>6, <1>11
  <2>2. /\ st1 \in [Audit!Entries -> Nat]
        /\ \A e \in Audit!Entries :
              st1[e] = stored[e] + (IF e \in {logs[j] : j \in 1 .. m} THEN 1 ELSE 0)
    BY <1>5, <2>1, StoredIs
  <2> QED  BY <1>1, <1>12, <2>2
<1>15. PICK held : held = HeldIn(b, fl)
  OBVIOUS
<1>16. CopiesOK(n, held, st1, gone, fails1)
  <2>1. CopiesOK(n, held, st, gone, fails)
    BY <1>7, <1>15
  <2>2. /\ n \in Nat /\ fails \in Nat /\ 1 .. n \subseteq Audit!Entries
        /\ fails1 = fails + 1 /\ fails1 \in 0 .. MaxAuditFailures
    BY <1>4, <1>6, <2>1 DEF CopiesOK, AuditLimits, Audit!Entries
  <2>3. ASSUME NEW e \in 1 .. n
        PROVE  /\ st1[e] <= (IF e \in held THEN 0 ELSE 1) + fails1
               /\ e \in held \/ st1[e] > 0 \/ e \in gone
    <3>1. /\ st[e] \in Nat /\ st[e] <= (IF e \in held THEN 0 ELSE 1) + fails
          /\ e \in held \/ st[e] > 0 \/ e \in gone
      BY <2>1, <2>2 DEF CopiesOK
    <3>2. st1[e] \in Nat /\ st1[e] <= st[e] + 1 /\ st1[e] >= st[e]
      BY <1>14, <2>2, <3>1
    <3> QED  BY <2>2, <3>1, <3>2
  <2>4. ASSUME NEW e \in Audit!Entries, e > n PROVE st1[e] = 0
    <3>1. e \notin first /\ st[e] = 0
      BY <1>11, <1>13, <1>15, <2>1, <2>2, <2>4 DEF CopiesOK
    <3> QED  BY <1>14, <3>1
  <2> QED  BY <1>14, <2>1, <2>2, <2>3, <2>4 DEF CopiesOK
<1>17. HeldIn(buffer, flushing)' = held /\ ticking' \in BOOLEAN
  BY <1>4, <1>9, <1>10, <1>15 DEF AuditInv
<1>18. stored' = st1 /\ auditFailures' = fails1
  BY <1>4, <1>5, <1>6
<1> QED  BY <1>4, <1>10, <1>16, <1>17, <1>18, AuditInvFrom

LEMMA DeleteStep == ASSUME AuditLimits, AuditInv, NEW e \in Nat, Audit!Delete(e) PROVE AuditInv'
<1>1. PICK held, n, st, gone, fails :
        /\ held = HeldIn(buffer, flushing) /\ n = logged /\ st = stored /\ gone = removed
        /\ fails = auditFailures
  OBVIOUS
<1>2. PICK st1, gone1 : /\ st1 = [f \in Audit!Entries |-> IF f < e THEN 0 ELSE st[f]]
                        /\ gone1 = gone \cup {f \in Audit!Entries : f < e /\ st[f] > 0}
  OBVIOUS
<1>3. /\ stored' = st1 /\ removed' = gone1 /\ logged' = n /\ auditFailures' = fails
      /\ buffer' = buffer /\ flushing' = flushing /\ ticking' = ticking
  BY <1>1, <1>2 DEF Audit!Delete
<1>4. CopiesOK(n, held, st, gone, fails)
  BY <1>1 DEF AuditInv
<1>5. CopiesOK(n, held, st1, gone1, fails)
  <2>1. n \in Nat /\ fails \in Nat /\ 1 .. n \subseteq Audit!Entries
    BY <1>4 DEF CopiesOK, AuditLimits, Audit!Entries
  <2>2. st1 \in [Audit!Entries -> Nat] /\ gone1 \subseteq Audit!Entries
    BY <1>2, <1>4 DEF CopiesOK
  <2>3. ASSUME NEW f \in 1 .. n
        PROVE  /\ st1[f] <= (IF f \in held THEN 0 ELSE 1) + fails
               /\ f \in held \/ st1[f] > 0 \/ f \in gone1
    <3>1. /\ st[f] \in Nat /\ st[f] <= (IF f \in held THEN 0 ELSE 1) + fails
          /\ f \in held \/ st[f] > 0 \/ f \in gone
      BY <1>4, <2>1 DEF CopiesOK
    <3>2. CASE f < e
      <4>1. st1[f] = 0 /\ (st[f] > 0 => f \in gone1) /\ (f \in gone => f \in gone1)
        BY <1>2, <2>1, <3>2
      <4> QED  BY <2>1, <3>1, <4>1
    <3>3. CASE ~(f < e)
      <4>1. st1[f] = st[f] /\ (f \in gone => f \in gone1)
        BY <1>2, <2>1, <3>3
      <4> QED  BY <3>1, <4>1
    <3> QED  BY <3>2, <3>3
  <2>4. \A f \in Audit!Entries : f > n => st1[f] = 0
    BY <1>2, <1>4 DEF CopiesOK
  <2> QED  BY <1>4, <2>2, <2>3, <2>4 DEF CopiesOK
<1>6. PlacesOK(buffer, flushing)' /\ HeldIn(buffer, flushing)' = held /\ ticking' \in BOOLEAN
  BY <1>1, <1>3 DEF AuditInv, PlacesOK, HeldIn
<1> QED  BY <1>3, <1>5, <1>6, AuditInvFrom

LEMMA AuditInit == ASSUME AuditLimits, Audit!Init PROVE AuditInv
<1>1. PICK b, fl, st : b = <<>> /\ fl = <<>> /\ st = [e \in Audit!Entries |-> 0]
  OBVIOUS
<1>2. /\ buffer = b /\ flushing = fl /\ stored = st /\ logged = 0 /\ removed = {}
      /\ ticking = TRUE /\ auditFailures = 0
  BY <1>1 DEF Audit!Init
<1>3. b \in Seq(Audit!Entries) /\ Distinct(b) /\ Elements(b) = {}
  BY <1>1, NoElement
<1>4. fl \in Seq(Flushes) /\ DOMAIN fl = {}
  BY <1>1
<1>5. PlacesOK(b, fl) /\ HeldIn(b, fl) = {}
  BY <1>3, <1>4 DEF PlacesOK, HeldIn
<1>6. CopiesOK(0, {}, st, {}, 0)
  BY <1>1 DEF CopiesOK, AuditLimits
<1> QED  BY <1>2, <1>5, <1>6 DEF AuditInv

LEMMA AuditNext == ASSUME AuditLimits, AuditInv, [Audit!Next]_(Audit!vars) PROVE AuditInv'
<1>1. CASE \E event \in DOMAIN Audit!Severities :
             \E s \in Audit!Severities[event] : Audit!Log(s)
  BY <1>1, LogStep
<1>2. CASE Audit!FlushInterval \/ Audit!Destroy
  BY <1>2, FlushStep
<1>3. CASE \E i \in DOMAIN flushing : Audit!Flushed(i) \/ Audit!FlushFailed(i)
  BY <1>3, FlushedStep, FlushFailedStep
<1>4. CASE \E e \in 2 .. MaxEntries + 1 : Audit!Delete(e)
  <2>1. PICK e \in 2 .. MaxEntries + 1 : Audit!Delete(e)
    BY <1>4
  <2>2. e \in Nat
    BY <2>1 DEF AuditLimits
  <2> QED  BY <2>1, <2>2, DeleteStep
<1>5. CASE UNCHANGED Audit!vars
  <2>1. /\ buffer' = buffer /\ flushing' = flushing /\ logged' = logged /\ stored' = stored
        /\ removed' = removed /\ auditFailures' = auditFailures /\ ticking' = ticking
    BY <1>5 DEF Audit!vars
  <2>2. PlacesOK(buffer, flushing)' /\ ticking' \in BOOLEAN
    BY <2>1 DEF AuditInv, PlacesOK
  <2>3. HeldIn(buffer, flushing)' = HeldIn(buffer, flushing)
    BY <2>1 DEF HeldIn
  <2>4. CopiesOK(logged, HeldIn(buffer, flushing), stored, removed, auditFailures)
    BY DEF AuditInv
  <2> QED  BY <2>1, <2>2, <2>3, <2>4, AuditInvFrom
<1> QED  BY <1>1, <1>2, <1>3, <1>4, <1>5 DEF Audit!Next

LEMMA AuditSpec == ASSUME AuditLimits PROVE Audit!Spec => []AuditInv
<1>1. Audit!Init => AuditInv
  BY AuditInit
<1>2. AuditInv /\ [Audit!Next]_(Audit!vars) => AuditInv'
  BY AuditNext
<1> QED  BY <1>1, <1>2, PTL DEF Audit!Spec

\* An entry is counted once where it is held.
LEMMA CopiesAre ==
  ASSUME AuditLimits, NEW b, NEW fl, PlacesOK(b, fl), NEW e
  PROVE  Cardinality({j \in DOMAIN b : b[j] = e})
           + Cardinality({ij \in (DOMAIN fl) \X Audit!Entries :
                ij[2] <= Len(fl[ij[1]].logs) /\ fl[ij[1]].logs[ij[2]] = e})
         = IF e \in HeldIn(b, fl) THEN 1 ELSE 0
<1>1. PICK J, P : /\ J = {j \in DOMAIN b : b[j] = e}
                  /\ P = {ij \in (DOMAIN fl) \X Audit!Entries :
                        ij[2] <= Len(fl[ij[1]].logs) /\ fl[ij[1]].logs[ij[2]] = e}
  OBVIOUS
<1>2. /\ e \in HeldIn(b, fl)
           <=> (e \in Elements(b) \/ \E i \in DOMAIN fl : e \in Elements(fl[i].logs))
  BY HeldEntry
<1>3. ASSUME NEW i \in DOMAIN fl, NEW j \in Audit!Entries, j <= Len(fl[i].logs),
             fl[i].logs[j] = e
      PROVE  j \in DOMAIN fl[i].logs /\ e \in Elements(fl[i].logs)
  <2>1. PICK logs : logs = fl[i].logs
    OBVIOUS
  <2>2. fl[i] \in Flushes
    BY DEF PlacesOK
  <2>3. logs \in Seq(Audit!Entries)
    BY <2>1, <2>2 DEF Flushes
  <2>4. j \in Nat /\ 1 <= j
    BY DEF Audit!Entries, AuditLimits
  <2>5. j \in DOMAIN logs
    BY <1>3, <2>1, <2>3, <2>4
  <2> QED  BY <1>3, <2>1, <2>5 DEF Elements
<1>4. J # {} <=> e \in Elements(b)
  BY <1>1 DEF Elements
<1>5. J # {} => Cardinality(J) = 1
  <2>1. ASSUME NEW j \in J PROVE J = {j}
    BY <1>1 DEF PlacesOK, Distinct
  <2> QED  BY <2>1, FS_Singleton
<1>6. P # {} => \E i \in DOMAIN fl : e \in Elements(fl[i].logs)
  <2> SUFFICES ASSUME NEW p \in P PROVE \E i \in DOMAIN fl : e \in Elements(fl[i].logs)
    OBVIOUS
  <2>1. PICK i \in DOMAIN fl, j \in Audit!Entries : p = <<i, j>>
    BY <1>1
  <2>2. j <= Len(fl[i].logs) /\ fl[i].logs[j] = e
    BY <1>1, <2>1
  <2> QED  BY <1>3, <2>2
<1>7. (\E i \in DOMAIN fl : e \in Elements(fl[i].logs)) => Cardinality(P) = 1
  <2> SUFFICES ASSUME NEW i \in DOMAIN fl, e \in Elements(fl[i].logs) PROVE Cardinality(P) = 1
    OBVIOUS
  <2>1. PICK logs : logs = fl[i].logs
    OBVIOUS
  <2>2. logs \in Seq(Audit!Entries) /\ Distinct(logs)
    <3>1. fl[i] \in Flushes
      BY DEF PlacesOK
    <3> QED  BY <2>1, <3>1 DEF Flushes, PlacesOK
  <2>3. PICK j \in DOMAIN logs : logs[j] = e
    BY <2>1 DEF Elements
  <2>4. j \in Audit!Entries /\ j <= Len(logs)
    <3>1. Len(logs) <= MaxEntries /\ Len(logs) \in Nat
      <4>1. IsFiniteSet(Audit!Entries) /\ Cardinality(Audit!Entries) = MaxEntries
        BY FS_Interval DEF Audit!Entries, AuditLimits
      <4>2. Elements(logs) \subseteq Audit!Entries
        BY <2>2 DEF Elements
      <4>3. Cardinality(Elements(logs)) <= MaxEntries
        BY <4>1, <4>2, FS_Subset
      <4> QED  BY <2>2, <4>3, DistinctCount
    <3>2. j \in 1 .. Len(logs)
      BY <2>2, <2>3
    <3> QED  BY <3>1, <3>2 DEF Audit!Entries, AuditLimits
  <2>5. <<i, j>> \in P
    BY <1>1, <2>1, <2>3, <2>4
  <2>6. ASSUME NEW p \in P PROVE p = <<i, j>>
    <3>1. PICK k \in DOMAIN fl, l \in Audit!Entries : p = <<k, l>>
      BY <1>1
    <3>2. l <= Len(fl[k].logs) /\ fl[k].logs[l] = e
      BY <1>1, <3>1
    <3>3. l \in DOMAIN fl[k].logs /\ e \in Elements(fl[k].logs)
      BY <1>3, <3>2
    <3>4. k = i
      BY <3>3 DEF PlacesOK
    <3>5. l = j
      BY <2>1, <2>2, <2>3, <3>2, <3>3, <3>4 DEF Distinct
    <3> QED  BY <3>1, <3>4, <3>5
  <2>7. P = {<<i, j>>}
    BY <2>5, <2>6
  <2> QED  BY <2>7, FS_Singleton
<1>8. \A i \in DOMAIN fl : e \in Elements(fl[i].logs) => e \notin Elements(b)
  BY DEF PlacesOK
<1>9. Cardinality({}) = 0
  BY FS_EmptySet
<1>10. CASE e \in Elements(b)
  <2>1. P = {} /\ Cardinality(J) = 1
    BY <1>4, <1>5, <1>6, <1>8, <1>10
  <2>2. Cardinality(J) + Cardinality(P) = 1 /\ e \in HeldIn(b, fl)
    BY <1>2, <1>9, <1>10, <2>1
  <2> QED  BY <1>1, <2>2
<1>11. CASE e \notin Elements(b) /\ \E i \in DOMAIN fl : e \in Elements(fl[i].logs)
  <2>1. J = {} /\ Cardinality(P) = 1
    BY <1>4, <1>7, <1>11
  <2>2. Cardinality(J) + Cardinality(P) = 1 /\ e \in HeldIn(b, fl)
    BY <1>2, <1>9, <1>11, <2>1
  <2> QED  BY <1>1, <2>2
<1>12. CASE e \notin Elements(b) /\ ~ \E i \in DOMAIN fl : e \in Elements(fl[i].logs)
  <2>1. J = {} /\ P = {}
    BY <1>4, <1>6, <1>12
  <2>2. Cardinality(J) + Cardinality(P) = 0 /\ e \notin HeldIn(b, fl)
    BY <1>2, <1>9, <1>12, <2>1
  <2> QED  BY <1>1, <2>2
<1> QED  BY <1>10, <1>11, <1>12

LEMMA AuditPromise == ASSUME AuditLimits, AuditInv PROVE Audit!TypeOK /\ Audit!EveryEntryIsKept
<1>1. PICK b, fl, n, st, gone, fails :
        /\ b = buffer /\ fl = flushing /\ n = logged /\ st = stored /\ gone = removed
        /\ fails = auditFailures
  OBVIOUS
<1>2. PICK held : held = HeldIn(b, fl)
  OBVIOUS
<1>3. PlacesOK(b, fl) /\ CopiesOK(n, held, st, gone, fails)
  BY <1>1, <1>2 DEF AuditInv
<1>4. n \in Nat /\ n <= MaxEntries /\ fails \in Nat /\ 1 .. n \subseteq Audit!Entries
  BY <1>3 DEF CopiesOK, AuditLimits, Audit!Entries
<1>5. Audit!EveryEntryIsKept
  <2> DEFINE Copies(e) == Audit!Cardinality({j \in DOMAIN buffer : buffer[j] = e})
                     + Audit!Cardinality({ij \in (DOMAIN flushing) \X Audit!Entries :
                          ij[2] <= Len(flushing[ij[1]].logs) /\ flushing[ij[1]].logs[ij[2]] = e})
  <2>1. ASSUME NEW e \in 1 .. logged
        PROVE  /\ Copies(e) <= 1
               /\ Copies(e) = 1 \/ stored[e] > 0 \/ e \in removed
               /\ stored[e] + Copies(e) <= 1 + auditFailures
    <3>1. \A S : Audit!Cardinality(S) = Cardinality(S)
      BY DEF Audit!Cardinality, Cardinality
    <3>2. Copies(e) = IF e \in held THEN 1 ELSE 0
      <4>1. Cardinality({j \in DOMAIN b : b[j] = e})
              + Cardinality({ij \in (DOMAIN fl) \X Audit!Entries :
                   ij[2] <= Len(fl[ij[1]].logs) /\ fl[ij[1]].logs[ij[2]] = e})
            = IF e \in held THEN 1 ELSE 0
        BY <1>2, <1>3, CopiesAre
      <4> QED  BY <1>1, <3>1, <4>1
    <3>3. PICK c : c = Copies(e)
      OBVIOUS
    <3>4. /\ st[e] \in Nat /\ st[e] <= (IF e \in held THEN 0 ELSE 1) + fails
          /\ e \in held \/ st[e] > 0 \/ e \in gone
      BY <1>1, <1>3, <1>4 DEF CopiesOK
    <3>5. c <= 1 /\ (c = 1 \/ st[e] > 0 \/ e \in gone) /\ st[e] + c <= 1 + fails
      BY <1>4, <3>2, <3>3, <3>4
    <3> QED  BY <1>1, <3>3, <3>5
  <2> QED  BY <2>1 DEF Audit!EveryEntryIsKept
<1>6. stored \in [Audit!Entries -> 0 .. MaxAuditFailures + 1]
  <2>1. ASSUME NEW e \in Audit!Entries PROVE st[e] \in 0 .. MaxAuditFailures + 1
    <3>1. fails <= MaxAuditFailures /\ st[e] \in Nat
      BY <1>3 DEF CopiesOK, AuditLimits
    <3>2. st[e] <= 1 + fails
      <4>1. CASE e \in 1 .. n
        <5>1. st[e] <= (IF e \in held THEN 0 ELSE 1) + fails
          BY <1>3, <4>1 DEF CopiesOK
        <5> QED  BY <1>4, <3>1, <5>1
      <4>2. CASE e \notin 1 .. n
        <5>1. e > n
          BY <1>4, <4>2 DEF Audit!Entries, AuditLimits
        <5>2. st[e] = 0
          BY <1>3, <5>1 DEF CopiesOK
        <5> QED  BY <1>4, <5>2
      <4> QED  BY <4>1, <4>2
    <3> QED  BY <1>4, <3>1, <3>2 DEF AuditLimits
  <2> QED  BY <1>1, <1>3, <2>1 DEF CopiesOK
<1>7. Audit!TypeOK
  BY <1>1, <1>3, <1>6 DEF AuditInv, PlacesOK, CopiesOK, Flushes, Audit!TypeOK
<1> QED  BY <1>5, <1>7

-----------------------------------------------------------------------------
\* For any limits, jobs, mails and entries: a job that has not ended is queued or processed,
\* not both, and no more are processed than may be; every mail whose sender waits has one
\* place from which it can be settled; every audit entry is held once or stored, and has a
\* second copy only for a flush that failed.
THEOREM WorkIsNotLost ==
  ASSUME JobLimits, SmtpLimits, AuditLimits
  PROVE  Queue!Spec /\ Smtp!Spec /\ Audit!Spec => []NoWorkIsLost
<1>1. JobsInv => Queue!NoJobLost
  BY JobsPromise
<1>2. MailInv => Smtp!EveryMailHasAPlace
  BY MailPromise
<1>3. AuditInv => Audit!EveryEntryIsKept
  BY AuditPromise
<1>4. JobsInv /\ MailInv /\ AuditInv => NoWorkIsLost
  BY <1>1, <1>2, <1>3 DEF NoWorkIsLost
<1> QED  BY <1>4, JobsSpec, MailSpec, AuditSpec, PTL

\* The queue of jobs, the SMTP service and the audit log keep their types.
THEOREM WorkTypeCorrect ==
  ASSUME JobLimits, SmtpLimits, AuditLimits
  PROVE  Queue!Spec /\ Smtp!Spec /\ Audit!Spec => [](Queue!TypeOK /\ Smtp!TypeOK /\ Audit!TypeOK)
<1>1. JobsInv /\ MailInv /\ AuditInv => Queue!TypeOK /\ Smtp!TypeOK /\ Audit!TypeOK
  BY JobsPromise, MailPromise, AuditPromise
<1> QED  BY <1>1, JobsSpec, MailSpec, AuditSpec, PTL
=============================================================================
