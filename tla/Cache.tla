------------------------------- MODULE Cache -------------------------------
(***************************************************************************)
(* The in-memory cache, common/services/cache.service.ts.  Of an entry the *)
(* model keeps the two times; a value is a non-null one.  The empty key,   *)
(* which evictOldest takes for "no key", is not among the Keys.            *)
(***************************************************************************)
EXTENDS Integers, FiniteSets, Functions

CONSTANTS
    Keys, maxSize, defaultTTL,
    Ttls,                    \* what callers pass; 0 stands for the default too
    MaxFills, MaxTime        \* bounds

VARIABLES
    cache,      \* key -> [createdAt, expiresAt]
    filling,    \* key -> the getOrSet calls that wait for their factory
    imports,    \* history: entries that import added as new keys
    now

vars == <<cache, filling, imports, now>>

\* An entry may be given new time to live after it was created.
CacheEntry(t) ==
    [createdAt : 0 .. t, expiresAt : {at + ttl : at \in 0 .. t, ttl \in Ttls \cup {defaultTTL}}]

Init ==
    /\ cache = <<>> /\ filling = [k \in Keys |-> 0]
    /\ imports = 0 /\ now = 0

-----------------------------------------------------------------------------
Without(c, ks) == Restrict(c, DOMAIN c \ ks)
With(c, k, e) == [x \in DOMAIN c \cup {k} |-> IF x = k THEN e ELSE c[x]]
Expired(k) == now > cache[k].expiresAt

\* One of the entries that were created first; the Map's order would break a tie.
evictOldest(c) ==
    {Without(c, {k}) : k \in {o \in DOMAIN c : \A x \in DOMAIN c : c[o].createdAt <= c[x].createdAt}}

\* Mutant: room is made one entry too late.
SetOffByOne(c, k, ttl) ==
    {With(d, k, [createdAt |-> now, expiresAt |-> now + (IF ttl = 0 THEN defaultTTL ELSE ttl)]) :
        d \in IF Cardinality(DOMAIN c) > maxSize THEN evictOldest(c) ELSE {c}}
\* set makes room before it looks whether the key is there already.
Set(c, k, ttl) ==
    {With(d, k, [createdAt |-> now, expiresAt |-> now + (IF ttl = 0 THEN defaultTTL ELSE ttl)]) :
        d \in IF Cardinality(DOMAIN c) >= maxSize THEN evictOldest(c) ELSE {c}}

set(k, ttl) == cache' \in Set(cache, k, ttl) /\ UNCHANGED <<filling, imports, now>>

\* get and has: an expired entry is deleted.
get(k) ==
    /\ k \in DOMAIN cache /\ Expired(k)
    /\ cache' = Without(cache, {k})
    /\ UNCHANGED <<filling, imports, now>>

\* getOrSet and wrap call the factory on a miss ...
getOrSet(k) ==
    /\ k \in DOMAIN cache => Expired(k)
    /\ filling[k] < MaxFills
    /\ cache' = Without(cache, {k})
    /\ filling' = [filling EXCEPT ![k] = @ + 1]
    /\ UNCHANGED <<imports, now>>
\* ... and put what it made in the cache, whatever happened to the key since.
Fill(k, ttl) ==
    /\ filling[k] > 0
    /\ filling' = [filling EXCEPT ![k] = @ - 1]
    /\ cache' \in Set(cache, k, ttl)
    /\ UNCHANGED <<imports, now>>
FillFails(k) ==
    /\ filling[k] > 0
    /\ filling' = [filling EXCEPT ![k] = @ - 1]
    /\ UNCHANGED <<cache, imports, now>>

\* delete, deleteMany and deleteByPattern.
deleteMany(ks) == cache' = Without(cache, ks) /\ UNCHANGED <<filling, imports, now>>
clear == cache' = <<>> /\ UNCHANGED <<filling, imports, now>>
cleanup == deleteMany({k \in DOMAIN cache : Expired(k)})

\* Also of an entry that has expired and that nobody has read since.
updateTTL(k, ttl) ==
    /\ k \in DOMAIN cache
    /\ cache' = [cache EXCEPT ![k].expiresAt = now + ttl]
    /\ UNCHANGED <<filling, imports, now>>

\* What an earlier export returned, one key at a time, past any limit.
import(k, e) ==
    /\ cache' = With(cache, k, e)
    /\ imports' = IF k \in DOMAIN cache THEN imports ELSE imports + 1
    /\ imports < Cardinality(Keys)
    /\ UNCHANGED <<filling, now>>

Tick == now < MaxTime /\ now' = now + 1 /\ UNCHANGED <<cache, filling, imports>>

Next ==
    \/ \E k \in Keys :
          \/ \E ttl \in Ttls : set(k, ttl) \/ Fill(k, ttl) \/ updateTTL(k, ttl)
          \/ get(k) \/ getOrSet(k) \/ FillFails(k)
          \/ \E e \in CacheEntry(now) : import(k, e)
    \/ \E ks \in SUBSET Keys : deleteMany(ks)
    \/ clear \/ cleanup \/ Tick

Spec == Init /\ [][Next]_vars

-----------------------------------------------------------------------------
TypeOK ==
    /\ DOMAIN cache \subseteq Keys
    /\ \A k \in DOMAIN cache : cache[k] \in CacheEntry(now)
    /\ filling \in [Keys -> 0 .. MaxFills]
    /\ imports \in 0 .. Cardinality(Keys) /\ now \in 0 .. MaxTime

\* Entries set directly, filled by factories that end in any order, overwritten and
\* revived never outgrow maxSize: only what import adds without a look at the limit
\* can be above it.
OnlyImportsOverfill == Cardinality(DOMAIN cache) <= maxSize + imports
=============================================================================
