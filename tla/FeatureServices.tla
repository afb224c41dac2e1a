-------------------------- MODULE FeatureServices --------------------------
(***************************************************************************)
(* The feature services of src/services: twenty Python modules, each with  *)
(* its own copy of the same FeatureProcessor and FeatureManager.  A call   *)
(* of process is a coroutine: it runs to its next await.  The services do  *)
(* not share anything, so a behaviour is one of them, chosen at the start. *)
(***************************************************************************)
EXTENDS Integers, FiniteSets

CONSTANTS
    Keys,          \* "id:timestamp" of the data
    max_retries,   \* FeatureConfig
    MaxCalls       \* bound

VARIABLES
    service, cache_enabled,
    cache,       \* keys with a result
    metrics,
    calls,       \* process calls that await: [no, key, attempt]
    asked        \* calls of process with valid data so far

vars == <<service, cache_enabled, cache, metrics, calls, asked>>

Services ==
    {"analytics", "api-client", "audit-trail", "authentication", "authorization",
     "caching", "database", "email", "encryption", "error-handling",
     "file-upload", "logging", "monitoring", "notifications", "payment",
     "rate-limiting", "scheduling", "search", "validation", "webhooks"}

Init ==
    /\ service \in Services /\ cache_enabled \in BOOLEAN
    /\ cache = {} /\ calls = {} /\ asked = 0
    /\ metrics = [processed |-> 0, failed |-> 0, cache_hits |-> 0]

-----------------------------------------------------------------------------
Counted(what) == metrics' = [metrics EXCEPT ![what] = @ + 1]

\* process up to its first await; process_batch starts several without one between.
Process(k) ==
    /\ asked < MaxCalls /\ asked' = asked + 1
    /\ IF cache_enabled /\ k \in cache
       THEN Counted("cache_hits") /\ UNCHANGED calls
       ELSE /\ calls' = calls \cup {[no |-> asked', key |-> k, attempt |-> 0]}
            /\ UNCHANGED metrics
    /\ UNCHANGED cache

\* _execute_processing returns.
Processed(c) ==
    /\ cache' = IF cache_enabled THEN cache \cup {c.key} ELSE cache
    /\ Counted("processed") /\ calls' = calls \ {c} /\ UNCHANGED asked

\* Mutant: a call is counted as failed at every attempt.
CountsAttempts(c) ==
    /\ Counted("failed")
    /\ calls' = (calls \ {c}) \cup
         {[c EXCEPT !.attempt = @ + 1] : x \in 1 .. (max_retries - 1 - c.attempt)}
    /\ UNCHANGED <<cache, asked>>
\* It raises, as when the payload was taken out of the data meanwhile: the next attempt
\* after a pause, or the end.
AttemptFailed(c) ==
    /\ IF c.attempt = max_retries - 1
       THEN Counted("failed") /\ calls' = calls \ {c}
       ELSE /\ calls' = (calls \ {c}) \cup {[c EXCEPT !.attempt = @ + 1]}
            /\ UNCHANGED metrics
    /\ UNCHANGED <<cache, asked>>

ClearCache == cache # {} /\ cache' = {} /\ UNCHANGED <<metrics, calls, asked>>

Handle ==
    /\ \/ \E k \in Keys : Process(k)
       \/ \E c \in calls : Processed(c) \/ AttemptFailed(c)
       \/ ClearCache
    /\ UNCHANGED <<service, cache_enabled>>

Analytics == service = "analytics" /\ Handle
ApiClient == service = "api-client" /\ Handle
AuditTrail == service = "audit-trail" /\ Handle
Authentication == service = "authentication" /\ Handle
Authorization == service = "authorization" /\ Handle
Caching == service = "caching" /\ Handle
Database == service = "database" /\ Handle
Email == service = "email" /\ Handle
Encryption == service = "encryption" /\ Handle
ErrorHandling == service = "error-handling" /\ Handle
FileUpload == service = "file-upload" /\ Handle
Logging == service = "logging" /\ Handle
Monitoring == service = "monitoring" /\ Handle
Notifications == service = "notifications" /\ Handle
Payment == service = "payment" /\ Handle
RateLimiting == service = "rate-limiting" /\ Handle
Scheduling == service = "scheduling" /\ Handle
Search == service = "search" /\ Handle
Validation == service = "validation" /\ Handle
Webhooks == service = "webhooks" /\ Handle

Next ==
    \/ Analytics \/ ApiClient \/ AuditTrail \/ Authentication \/ Authorization
    \/ Caching \/ Database \/ Email \/ Encryption \/ ErrorHandling
    \/ FileUpload \/ Logging \/ Monitoring \/ Notifications \/ Payment
    \/ RateLimiting \/ Scheduling \/ Search \/ Validation \/ Webhooks

Spec == Init /\ [][Next]_vars

-----------------------------------------------------------------------------
TypeOK ==
    /\ service \in Services /\ cache_enabled \in BOOLEAN /\ cache \subseteq Keys
    /\ metrics \in [{"processed", "failed", "cache_hits"} -> 0 .. MaxCalls]
    /\ calls \subseteq [no : 1 .. MaxCalls, key : Keys, attempt : 0 .. max_retries - 1]
    /\ asked \in 0 .. MaxCalls

\* However calls overlap, retry, share keys and lose the cache, get_metrics counts every
\* call that has ended exactly once.
EveryCallIsCounted ==
    metrics.processed + metrics.failed + metrics.cache_hits + Cardinality(calls) = asked

=============================================================================
