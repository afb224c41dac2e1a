---------------------------- MODULE RateLimiter ----------------------------
(***************************************************************************)
(* The limiters of common/services/rate-limiter.service.ts, the throttle   *)
(* guard and the rate limit middleware, for one identifier (they keep      *)
(* identifiers apart).  Each has one configuration, the guard excepted:    *)
(* it has that of the handler a request is for, and one list of times.     *)
(* Every check is synchronous; what can go wrong lies in when windows      *)
(* start, requests are counted twice and tokens come back.                 *)
(***************************************************************************)
EXTENDS Integers, Sequences, FiniteSets

CONSTANTS
    windowMs, maxRequests, blockDuration,    \* RateLimitConfig
    capacity, refillRate, refillInterval,    \* of the token bucket
    recordAge,                               \* the hour after which cleanup drops a record
    Throttles,                               \* [limit, ttl] of the handlers with @Throttle
    MaxGrants, MaxTime                       \* bounds

VARIABLES
    limiter,      \* the limiter the caller has
    record,       \* RateLimiterService: at most one [count, firstRequest, blockedUntil]
    timestamps,   \* SlidingWindowRateLimiter, ThrottleGuard: when requests were let through
    entry,        \* RateLimitMiddleware: at most one [count, resetTime]
    bucket,       \* TokenBucketRateLimiter: at most one [tokens, lastRefill]
    grants,       \* history: when requests were allowed, since the last reset
    through,      \* history of the guard: the throttle of the handler of each of them
    now

vars == <<limiter, record, timestamps, entry, bucket, grants, through, now>>

NoBlock == 0
RequestRecord ==
    [count : 1 .. maxRequests + 1, firstRequest : 0 .. MaxTime,
     blockedUntil : 0 .. MaxTime + blockDuration]

Init ==
    /\ limiter \in {"fixed", "sliding", "throttle", "middleware", "bucket"}
    /\ record = {} /\ timestamps = <<>> /\ entry = {} /\ bucket = {}
    /\ grants = <<>> /\ through = <<>> /\ now = 0

-----------------------------------------------------------------------------
Granted == Len(grants) < MaxGrants /\ grants' = Append(grants, now)
Refused == UNCHANGED grants

NewRecord == record' = {[count |-> 1, firstRequest |-> now, blockedUntil |-> NoBlock]}

\* Counts above maxRequests + 1 tell nothing more.
Counted(r) == IF r.count > maxRequests THEN r.count ELSE r.count + 1

\* Mutant: the window starts again at the request after the one that fills it.
LateWindow ==
    IF \A r \in record : now - r.firstRequest > windowMs
    THEN NewRecord /\ Granted
    ELSE \E r \in record :
           /\ record' = {[r EXCEPT !.count = Counted(r),
                            !.firstRequest = IF r.count = maxRequests THEN now - windowMs ELSE @]}
           /\ IF Counted(r) > maxRequests THEN Refused ELSE Granted
\* What checkLimit does when the identifier is not blocked.
CountRequest ==
    IF \A r \in record : now - r.firstRequest >= windowMs
    THEN NewRecord /\ Granted
    ELSE \E r \in record :
           IF Counted(r) > maxRequests
           THEN /\ Refused
                /\ record' = {[r EXCEPT !.count = Counted(r),
                                 !.blockedUntil = IF blockDuration = 0 THEN @
                                                  ELSE now + blockDuration]}
           ELSE Granted /\ record' = {[r EXCEPT !.count = Counted(r)]}

checkLimit ==
    /\ limiter = "fixed"
    /\ \A r \in record : now >= r.blockedUntil
    /\ CountRequest
    /\ UNCHANGED <<limiter, timestamps, entry, bucket, through, now>>

incrementCounter ==
    /\ limiter = "fixed"
    /\ IF record = {} THEN NewRecord
       ELSE record' = {[r EXCEPT !.count = Counted(r)] : r \in record}
    /\ UNCHANGED <<limiter, timestamps, entry, bucket, grants, through, now>>

\* Older than an hour, blocked or not.
cleanup ==
    /\ limiter = "fixed"
    /\ record' = {r \in record : now - r.firstRequest <= recordAge}
    /\ UNCHANGED <<limiter, timestamps, entry, bucket, grants, through, now>>

\* getInfo, which looks at the block and at the count, not at the window.
Blocked == \E r \in record : now < r.blockedUntil
Remaining ==
    IF record = {} THEN maxRequests
    ELSE CHOOSE n \in 0 .. maxRequests :
           \E r \in record : IF r.count > maxRequests THEN n = 0 ELSE n = maxRequests - r.count

\* What the filter leaves of the times, which are in order.
Later(t) ==
    LET old == CHOOSE n \in 0 .. Len(timestamps) :
                 \A i \in DOMAIN timestamps : timestamps[i] <= t <=> i <= n
    IN  SubSeq(timestamps, old + 1, Len(timestamps))

\* A request with fewer than limit in the last ttl.  One that is refused is not
\* remembered, and leaves what is remembered as it was.
Slide(limit, ttl) ==
    /\ Len(Later(now - ttl)) < limit
    /\ timestamps' = Append(Later(now - ttl), now) /\ Granted
    /\ UNCHANGED <<limiter, record, entry, bucket, now>>

\* SlidingWindowRateLimiter.check
SlidingCheck == limiter = "sliding" /\ Slide(maxRequests, windowMs) /\ UNCHANGED through

\* ThrottleGuard, for a request to a handler with the throttle h: what the window of h
\* leaves is kept for every handler.
canActivate(h) ==
    /\ limiter = "throttle"
    /\ Slide(h.limit, h.ttl)
    /\ through' = Append(through, h)

\* cleanup of both.
SlidingCleanup ==
    /\ limiter \in {"sliding", "throttle"}
    /\ timestamps' = Later(now - recordAge)
    /\ UNCHANGED <<limiter, record, entry, bucket, grants, through, now>>

\* RateLimitMiddleware.use: its window ends after resetTime, not at it.
use ==
    /\ limiter = "middleware"
    /\ IF \A e \in entry : now > e.resetTime
       THEN entry' = {[count |-> 1, resetTime |-> now + windowMs]} /\ Granted
       ELSE \E e \in entry :
              /\ entry' = {[e EXCEPT !.count = Counted(e)]}
              /\ IF Counted(e) > maxRequests THEN Refused ELSE Granted
    /\ UNCHANGED <<limiter, record, timestamps, bucket, through, now>>

\* RateLimitMiddleware.cleanup
MiddlewareCleanup ==
    /\ limiter = "middleware"
    /\ entry' = {e \in entry : now <= e.resetTime}
    /\ UNCHANGED <<limiter, record, timestamps, bucket, grants, through, now>>

Least(a, b) == IF a < b THEN a ELSE b

\* Mutant: the refill forgets the capacity.
Overflowing(b) ==
    LET add == ((now - b.lastRefill) \div refillInterval) * refillRate
    IN  IF add > 0 THEN [tokens |-> b.tokens + add, lastRefill |-> now] ELSE b
\* The part of an interval that has passed is lost when tokens are added.
Refilled(b) ==
    LET add == ((now - b.lastRefill) \div refillInterval) * refillRate
    IN  IF add > 0 THEN [tokens |-> Least(capacity, b.tokens + add), lastRefill |-> now] ELSE b

\* TokenBucketRateLimiter.check
BucketCheck ==
    /\ limiter = "bucket"
    /\ \/ /\ bucket = {} /\ Granted
          /\ bucket' = {[tokens |-> capacity - 1, lastRefill |-> now]}
       \/ \E b \in bucket :
            IF Refilled(b).tokens > 0
            THEN Granted /\ bucket' = {[Refilled(b) EXCEPT !.tokens = @ - 1]}
            ELSE Refused /\ bucket' = {Refilled(b)}
    /\ UNCHANGED <<limiter, record, timestamps, entry, through, now>>

\* reset, resetCounter and clearAll; the guard and the middleware have nothing of the kind.
reset ==
    /\ limiter \in {"fixed", "sliding", "bucket"}
    /\ record' = {} /\ timestamps' = <<>> /\ bucket' = {} /\ grants' = <<>>
    /\ UNCHANGED <<limiter, entry, through, now>>

Tick ==
    /\ now < MaxTime /\ now' = now + 1
    /\ UNCHANGED <<limiter, record, timestamps, entry, bucket, grants, through>>

Next ==
    \/ checkLimit \/ incrementCounter \/ cleanup \/ SlidingCheck
    \/ \E h \in Throttles : canActivate(h)
    \/ SlidingCleanup \/ use \/ MiddlewareCleanup \/ BucketCheck \/ reset \/ Tick

Spec == Init /\ [][Next]_vars

-----------------------------------------------------------------------------
TypeOK ==
    /\ record \subseteq RequestRecord
    /\ timestamps \in Seq(0 .. MaxTime)
    /\ entry \subseteq [count : 1 .. maxRequests + 1, resetTime : 0 .. MaxTime + windowMs]
    /\ \A b \in bucket : b.tokens \in 0 .. capacity - 1 /\ b.lastRefill \in 0 .. now
    /\ grants \in Seq(0 .. now) /\ through \in Seq(Throttles) /\ now \in 0 .. MaxTime

\* How many requests were allowed in the windowMs that start at t.
AllowedFrom(t) == Cardinality({i \in DOMAIN grants : t <= grants[i] /\ grants[i] < t + windowMs})

\* In whatever span of one window's length, the sliding window allows maxRequests; the
\* fixed window and the middleware, whose windows start at a first request, one less than
\* twice that: counters bumped by hand, blocks and clean-ups only make it fewer.
WindowRate ==
    \A t \in 0 .. now :
        AllowedFrom(t) <= CASE limiter \in {"fixed", "middleware"} -> 2 * maxRequests - 1
                            [] limiter = "sliding" -> maxRequests
                            [] OTHER -> MaxGrants

\* The guard lets a request to a handler through only when of all requests to whatever
\* handlers, the one that came limit before it, and every earlier one, is out of a window:
\* of the handler's own, or of that of a handler called between them, which forgot it for
\* both (or the clean-up did).  So with one ttl each handler keeps its limit; with several
\* one with a longer ttl does not.
GuardRate ==
    \A i \in DOMAIN through : \A k \in 1 .. i - through[i].limit :
        \E j \in k + 1 .. i : grants[j] - grants[k] >= Least(through[j].ttl, recordAge)

\* What getInfo promises is kept: to a caller it says is not blocked and has requests
\* left, the limiter grants the next one.
InfoIsKept ==
    limiter = "fixed" /\ ~Blocked /\ Remaining > 0 =>
        \A r \in record : now - r.firstRequest >= windowMs \/ Counted(r) <= maxRequests

\* Between any two requests the token bucket allows no more than its capacity and the
\* refills of the intervals begun between them.
BucketRate ==
    limiter = "bucket" =>
        \A i, j \in DOMAIN grants : i <= j =>
            j - i + 1 <= capacity + refillRate *
                            ((grants[j] - grants[i] + refillInterval - 1) \div refillInterval)
=============================================================================
