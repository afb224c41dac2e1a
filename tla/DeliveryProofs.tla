--------------------------- MODULE DeliveryProofs ---------------------------
(***************************************************************************)
(* What TLAPS proves of the services that stand between a request and its  *)
(* effect: the retries and counters, the queues of mails and webhooks, the *)
(* rate limiters; and of what is computed of judges' scores and of the     *)
(* submissions of an event.  Each theorem is about the specifications it   *)
(* names, for any values of their constants that satisfy the limits named. *)
(***************************************************************************)
EXTENDS ServicesProofs

-----------------------------------------------------------------------------
(* Retry loops: attempts and pauses.                                         *)

RetryLimits ==
    /\ maxAttempts \in Nat \ {0} /\ initialDelay \in Nat /\ maxDelay \in Nat
    /\ backoffMultiplier \in Nat \ {0} /\ initialDelay <= maxDelay

\* While the loop sleeps, the callback has been told of this attempt, before of the last one.
RetryInv ==
    /\ method \in Retries!Methods /\ retryStep \in {"fn", "sleep", "returned", "thrown"}
    /\ attempt \in 1 .. Retries!Limit /\ retryable \in BOOLEAN
    /\ delay \in Nat /\ delay >= initialDelay /\ slept \in Nat
    /\ onRetry = IF retryStep = "sleep" THEN attempt ELSE attempt - 1
    /\ slept >= onRetry * initialDelay
    /\ retryStep = "sleep" => attempt < Retries!Limit
    /\ retryStep = "thrown" /\ retryable => attempt = Retries!Limit

LEMMA RetryBound == ASSUME RetryLimits PROVE Retries!Limit \in Nat \ {0}
BY DEF RetryLimits, Retries!Limit

DelaySteps(n, f) == f = [i \in 0 .. n |-> IF i = 0 THEN initialDelay ELSE 2 * f[i - 1]]

LEMMA DelayStepsExist ==
  ASSUME NEW n \in Nat PROVE \E f : DelaySteps(n, f)
<1> DEFINE T == {k \in Nat : ~ \E f : DelaySteps(k, f)}
<1>1. SUFFICES ASSUME T # {} PROVE FALSE
  OBVIOUS
<1>2. PICK k \in T : \A m \in T : k <= m
  BY <1>1, LeastNumber
<1>3. CASE k = 0
  <2>1. PICK f : f = [i \in 0 .. 0 |-> initialDelay]
    OBVIOUS
  <2>2. f = [i \in 0 .. k |-> IF i = 0 THEN initialDelay ELSE 2 * f[i - 1]]
    BY <1>3, <2>1
  <2> QED  BY <2>2 DEF DelaySteps
<1>4. CASE k # 0
  <2>1. k \in Nat /\ k - 1 \in Nat /\ k - 1 \notin T
    BY <1>2, <1>4
  <2>2. PICK f : DelaySteps(k - 1, f)
    BY <2>1
  <2>3. PICK l : l = 2 * f[k - 1]
    OBVIOUS
  <2>4. PICK g : g = [i \in 0 .. k |-> IF i = k THEN l ELSE f[i]]
    OBVIOUS
  <2>5. ASSUME NEW i \in 0 .. k
        PROVE  g[i] = IF i = 0 THEN initialDelay ELSE 2 * g[i - 1]
    <3>1. CASE i = k
      <4>1. g[i] = l /\ i - 1 \in 0 .. k /\ g[i - 1] = f[k - 1]
        BY <1>4, <2>1, <2>4, <3>1
      <4> QED  BY <1>4, <2>3, <3>1, <4>1
    <3>2. CASE i # k
      <4>1. i \in 0 .. k - 1 /\ g[i] = f[i]
        BY <2>1, <2>4, <3>2
      <4>2. f[i] = IF i = 0 THEN initialDelay ELSE 2 * f[i - 1]
        BY <2>2, <4>1 DEF DelaySteps
      <4>3. i # 0 => g[i - 1] = f[i - 1]
        BY <2>1, <2>4, <4>1
      <4> QED  BY <4>1, <4>2, <4>3
    <3> QED  BY <3>1, <3>2
  <2>6. g = [i \in 0 .. k |-> g[i]]
    BY <2>4
  <2>7. g = [i \in 0 .. k |-> IF i = 0 THEN initialDelay ELSE 2 * g[i - 1]]
    BY <2>5, <2>6
  <2> QED  BY <2>7 DEF DelaySteps
<1> QED  BY <1>3, <1>4

\* A delay that is doubled does not become shorter.
LEMMA DoubledIs ==
  ASSUME RetryLimits, NEW n \in Nat
  PROVE  Retries!Doubled(n) \in Nat /\ Retries!Doubled(n) >= initialDelay
<1> DEFINE f == CHOOSE g : g = [i \in 0 .. n |-> IF i = 0 THEN initialDelay ELSE 2 * g[i - 1]]
<1>1. Retries!Doubled(n) = f[n]
  BY DEF Retries!Doubled
<1>2. DelaySteps(n, f)
  <2>1. \E g : DelaySteps(n, g)
    BY DelayStepsExist
  <2> QED  BY <2>1 DEF DelaySteps
<1> HIDE DEF f
<1> DEFINE T == {i \in 0 .. n : ~(f[i] \in Nat /\ f[i] >= initialDelay)}
<1>3. T = {}
  <2>1. SUFFICES ASSUME T # {} PROVE FALSE
    OBVIOUS
  <2>0. T \subseteq Nat
    OBVIOUS
  <2>2. PICK k \in T : \A m \in T : k <= m
    BY <2>0, <2>1, LeastNumber
  <2>3. f[k] = IF k = 0 THEN initialDelay ELSE 2 * f[k - 1]
    BY <1>2 DEF DelaySteps
  <2>4. CASE k = 0
    BY <2>3, <2>4 DEF RetryLimits
  <2>5. CASE k # 0
    <3>1. k - 1 \in 0 .. n /\ k - 1 \notin T
      <4> HIDE DEF T
      <4>1. k \in 0 .. n
        BY DEF T
      <4>2. k - 1 \in 0 .. n /\ ~ (k <= k - 1)
        BY <2>5, <4>1
      <4> QED  BY <2>2, <4>2
    <3>2. PICK x : x = f[k - 1]
      OBVIOUS
    <3>3. x \in Nat /\ x >= initialDelay /\ initialDelay \in Nat
      BY <3>1, <3>2 DEF RetryLimits
    <3>4. 2 * x \in Nat /\ 2 * x >= initialDelay
      BY <3>3
    <3> QED  BY <2>3, <2>5, <3>2, <3>4
  <2> QED  BY <2>4, <2>5
<1> QED  BY <1>1, <1>3

\* No pause is shorter than the first one.
LEMMA PauseIs ==
  ASSUME RetryLimits, RetryInv
  PROVE  Retries!Pause \in Nat /\ Retries!Pause >= initialDelay
<1>1. attempt \in Nat \ {0} /\ initialDelay \in Nat /\ delay \in Nat /\ delay >= initialDelay
  BY RetryBound DEF RetryInv, RetryLimits
<1>2. initialDelay * attempt \in Nat /\ initialDelay * attempt >= initialDelay
  BY <1>1
<1>3. Retries!Doubled(attempt - 1) \in Nat /\ Retries!Doubled(attempt - 1) >= initialDelay
  <2>1. PICK n : n = attempt - 1
    OBVIOUS
  <2>2. n \in Nat
    BY <1>1, <2>1
  <2> QED  BY <2>1, <2>2, DoubledIs
<1> QED  BY <1>1, <1>2, <1>3 DEF Retries!Pause

LEMMA RetryInit == ASSUME RetryLimits, Retries!Init PROVE RetryInv
<1>1. Retries!Limit \in Nat \ {0}
  BY RetryBound
<1> QED  BY <1>1 DEF Retries!Init, RetryInv, RetryLimits

LEMMA ThrowStep ==
  ASSUME RetryLimits, RetryInv, NEW again \in BOOLEAN, Retries!fnThrows(again)
  PROVE  RetryInv'
<1>1. /\ Retries!Limit \in Nat \ {0} /\ Retries!Limit' = Retries!Limit
      /\ attempt \in 1 .. Retries!Limit /\ initialDelay \in Nat
  BY RetryBound DEF Retries!fnThrows, Retries!Limit, RetryInv, RetryLimits
<1>2. retryable' \in BOOLEAN /\ UNCHANGED <<method, attempt, delay>> /\ retryStep = "fn"
  BY DEF Retries!fnThrows
<1>3. CASE retryStep' = "thrown" /\ UNCHANGED <<onRetry, slept>> /\ (~retryable' \/ attempt >= Retries!Limit)
  BY <1>1, <1>2, <1>3 DEF RetryInv
<1>4. CASE attempt < Retries!Limit /\ \E j \in Retries!Jitter : Retries!Sleeps(j)
  <2>1. PICK j \in Retries!Jitter : Retries!Sleeps(j)
    BY <1>4
  <2>2. j \in Nat
    BY DEF Retries!Jitter, RetryInv
  <2>3. PICK p, x, r : p = Retries!Pause /\ x = slept /\ r = onRetry
    OBVIOUS
  <2>4. p \in Nat /\ p >= initialDelay /\ x \in Nat /\ r = attempt - 1 /\ x >= r * initialDelay
    BY <1>2, <2>3, PauseIs DEF RetryInv
  <2>5. onRetry' = attempt /\ slept' = x + p + j /\ retryStep' = "sleep"
    BY <2>1, <2>3 DEF Retries!Sleeps
  <2>6. slept' \in Nat /\ slept' >= r * initialDelay + initialDelay
    <3>1. r * initialDelay \in Nat
      BY <1>1, <2>4
    <3> QED  BY <1>1, <2>2, <2>4, <2>5, <3>1
  <2>7. r * initialDelay + initialDelay = attempt * initialDelay
    BY <1>1, <2>4
  <2>8. attempt' = attempt /\ delay' = delay /\ method' = method
    BY <1>2
  <2> QED  BY <1>1, <1>2, <1>4, <2>5, <2>6, <2>7, <2>8 DEF RetryInv
<1> QED  BY <1>2, <1>3, <1>4 DEF Retries!fnThrows

LEMMA WakeStep ==
  ASSUME RetryLimits, RetryInv, Retries!Wake
  PROVE  RetryInv'
<1>1. /\ Retries!Limit \in Nat \ {0} /\ Retries!Limit' = Retries!Limit
      /\ attempt \in 1 .. Retries!Limit /\ attempt < Retries!Limit /\ attempt' = attempt + 1
  BY RetryBound DEF Retries!Wake, Retries!Limit, RetryInv, RetryLimits
<1>2. delay' \in Nat /\ delay' >= initialDelay
  <2>1. PICK d, m : d = delay /\ m = backoffMultiplier
    OBVIOUS
  <2>2. d \in Nat /\ d >= initialDelay /\ m \in Nat \ {0} /\ initialDelay \in Nat
    BY <2>1 DEF RetryInv, RetryLimits
  <2>3. d * m \in Nat /\ d * m >= d
    BY <2>2
  <2>4. delay' = Retries!Least(d * m, maxDelay)
    BY <2>1 DEF Retries!Wake
  <2> QED  BY <2>2, <2>3, <2>4 DEF Retries!Least, RetryLimits
<1>3. UNCHANGED <<method, onRetry, retryable, slept>> /\ retryStep' = "fn" /\ retryStep = "sleep"
  BY DEF Retries!Wake
<1> QED  BY <1>1, <1>2, <1>3 DEF RetryInv

LEMMA RetryNext == ASSUME RetryLimits, RetryInv, [Retries!Next]_(Retries!vars) PROVE RetryInv'
<1>1. CASE UNCHANGED Retries!vars
  BY <1>1 DEF RetryInv, Retries!vars, Retries!Limit
<1>2. CASE Retries!fnReturns
  BY <1>2 DEF RetryInv, Retries!fnReturns, Retries!Limit
<1> QED  BY <1>1, <1>2, ThrowStep, WakeStep DEF Retries!Next

LEMMA RetrySpec == ASSUME RetryLimits PROVE Retries!Spec => []RetryInv
<1>1. Retries!Init => RetryInv
  BY RetryInit
<1>2. RetryInv /\ [Retries!Next]_(Retries!vars) => RetryInv'
  BY RetryNext
<1> QED  BY <1>1, <1>2, PTL DEF Retries!Spec

LEMMA RetryPromise ==
  ASSUME RetryLimits, RetryInv PROVE Retries!TypeOK /\ Retries!AttemptsAddUp
<1>1. Retries!Limit \in Nat \ {0} /\ attempt \in 1 .. Retries!Limit
  BY RetryBound DEF RetryInv
<1> QED  BY <1>1 DEF RetryInv, Retries!TypeOK, Retries!AttemptsAddUp, Retries!attempts

-----------------------------------------------------------------------------
(* The Python services: every call is counted once.                          *)

FeatureLimits == max_retries \in Nat \ {0} /\ MaxFeatureCalls \in Nat

Coroutines == [no : 1 .. MaxFeatureCalls, key : FeatureKeys, attempt : 0 .. max_retries - 1]

\* The counts are m, the calls under way cs, and n calls came so far.
CallsCounted(m, cs, n) ==
    /\ m \in [{"processed", "failed", "cache_hits"} -> Nat] /\ n \in 0 .. MaxFeatureCalls
    /\ cs \subseteq Coroutines /\ IsFiniteSet(cs)
    /\ \A c \in cs : c.no <= n
    /\ \A c, d \in cs : c.no = d.no => c = d
    /\ m["processed"] + m["failed"] + m["cache_hits"] + Cardinality(cs) = n

FeatureInv ==
    /\ service \in Features!Services /\ cache_enabled \in BOOLEAN /\ featureCache \subseteq FeatureKeys
    /\ CallsCounted(metrics, featureCalls, featuresAsked)

LEMMA CallsOneMore ==
  ASSUME NEW m, NEW cs, NEW n, CallsCounted(m, cs, n), NEW k \in FeatureKeys,
         FeatureLimits, n < MaxFeatureCalls
  PROVE  CallsCounted(m, cs \cup {[no |-> n + 1, key |-> k, attempt |-> 0]}, n + 1)
<1> DEFINE c == [no |-> n + 1, key |-> k, attempt |-> 0]
<1>1. n + 1 \in 0 .. MaxFeatureCalls /\ c \in Coroutines /\ c.no = n + 1 /\ n \in Nat
  BY DEF CallsCounted, FeatureLimits, Coroutines
<1> HIDE DEF c
<1>2. \A d \in cs : d.no <= n /\ d.no \in Nat /\ d.no # n + 1 /\ d.no <= n + 1
  BY <1>1 DEF CallsCounted, Coroutines
<1>3. c \notin cs
  BY <1>1, <1>2
<1>4. /\ IsFiniteSet(cs \cup {c}) /\ Cardinality(cs \cup {c}) = Cardinality(cs) + 1
      /\ Cardinality(cs) \in Nat
  BY <1>3, FS_AddElement, FS_CardinalityType DEF CallsCounted
<1>5. m["processed"] \in Nat /\ m["failed"] \in Nat /\ m["cache_hits"] \in Nat
  BY DEF CallsCounted
<1>6. m["processed"] + m["failed"] + m["cache_hits"] + Cardinality(cs \cup {c}) = n + 1
  BY <1>1, <1>4, <1>5 DEF CallsCounted
<1>7. \A x, y \in cs \cup {c} : x.no = y.no => x = y
  BY <1>1, <1>2 DEF CallsCounted
<1>8. \A x \in cs \cup {c} : x.no <= n + 1
  BY <1>1, <1>2
<1>9. CallsCounted(m, cs \cup {c}, n + 1)
  BY <1>1, <1>4, <1>6, <1>7, <1>8 DEF CallsCounted
<1> QED  BY <1>9 DEF c

LEMMA CallsHit ==
  ASSUME NEW m, NEW cs, NEW n, CallsCounted(m, cs, n), FeatureLimits, n < MaxFeatureCalls
  PROVE  CallsCounted([m EXCEPT !["cache_hits"] = @ + 1], cs, n + 1)
<1> DEFINE w == [m EXCEPT !["cache_hits"] = @ + 1]
<1>1. /\ w \in [{"processed", "failed", "cache_hits"} -> Nat]
      /\ w["processed"] = m["processed"] /\ w["failed"] = m["failed"]
      /\ w["cache_hits"] = m["cache_hits"] + 1
  BY DEF CallsCounted
<1> HIDE DEF w
<1>2. m["processed"] \in Nat /\ m["failed"] \in Nat /\ m["cache_hits"] \in Nat /\ n \in Nat
  BY DEF CallsCounted, FeatureLimits
<1>3. Cardinality(cs) \in Nat /\ n + 1 \in 0 .. MaxFeatureCalls
  BY <1>2, FS_CardinalityType DEF CallsCounted, FeatureLimits
<1>4. w["processed"] + w["failed"] + w["cache_hits"] + Cardinality(cs) = n + 1
  BY <1>1, <1>2, <1>3 DEF CallsCounted
<1>5. \A c \in cs : c.no <= n + 1
  BY <1>2 DEF CallsCounted, Coroutines
<1>6. CallsCounted(w, cs, n + 1)
  BY <1>1, <1>3, <1>4, <1>5 DEF CallsCounted
<1> QED  BY <1>6 DEF w

LEMMA CallsEnded ==
  ASSUME NEW m, NEW cs, NEW n, CallsCounted(m, cs, n), FeatureLimits, NEW c \in cs,
         NEW what \in {"processed", "failed"}
  PROVE  CallsCounted([m EXCEPT ![what] = @ + 1], cs \ {c}, n)
<1> DEFINE w == [m EXCEPT ![what] = @ + 1]
<1>1. /\ w \in [{"processed", "failed", "cache_hits"} -> Nat]
      /\ w["processed"] + w["failed"] + w["cache_hits"]
           = m["processed"] + m["failed"] + m["cache_hits"] + 1
  BY DEF CallsCounted
<1> HIDE DEF w
<1>2. /\ w["processed"] \in Nat /\ w["failed"] \in Nat /\ w["cache_hits"] \in Nat
      /\ m["processed"] \in Nat /\ m["failed"] \in Nat /\ m["cache_hits"] \in Nat
  BY <1>1 DEF CallsCounted
<1>3. /\ IsFiniteSet(cs \ {c}) /\ Cardinality(cs \ {c}) = Cardinality(cs) - 1
      /\ Cardinality(cs) \in Nat
  BY FS_RemoveElement, FS_CardinalityType DEF CallsCounted
<1>4. w["processed"] + w["failed"] + w["cache_hits"] + Cardinality(cs \ {c}) = n
  BY <1>1, <1>2, <1>3 DEF CallsCounted
<1>5. CallsCounted(w, cs \ {c}, n)
  BY <1>1, <1>3, <1>4 DEF CallsCounted
<1> QED  BY <1>5 DEF w

LEMMA CallsAgain ==
  ASSUME NEW m, NEW cs, NEW n, CallsCounted(m, cs, n), FeatureLimits, NEW c \in cs,
         c.attempt # max_retries - 1
  PROVE  CallsCounted(m, (cs \ {c}) \cup {[c EXCEPT !.attempt = @ + 1]}, n)
<1> DEFINE d == [c EXCEPT !.attempt = @ + 1]
           ds == (cs \ {c}) \cup {d}
<1>1. d \in Coroutines /\ d.no = c.no /\ d.no <= n
  BY DEF CallsCounted, Coroutines, FeatureLimits
<1> HIDE DEF d
<1>2. d \notin cs \ {c} /\ \A x \in cs \ {c} : x.no # d.no
  BY <1>1 DEF CallsCounted
<1>3. /\ IsFiniteSet(cs \ {c}) /\ Cardinality(cs \ {c}) = Cardinality(cs) - 1
      /\ Cardinality(cs) \in Nat
  BY FS_RemoveElement, FS_CardinalityType DEF CallsCounted
<1>4. IsFiniteSet(ds) /\ Cardinality(ds) = Cardinality(cs)
  <2>1. IsFiniteSet(ds) /\ Cardinality(ds) = Cardinality(cs \ {c}) + 1
    BY <1>2, <1>3, FS_AddElement
  <2> QED  BY <1>3, <2>1
<1>5. /\ ds \subseteq Coroutines /\ (\A x \in ds : x.no <= n)
      /\ (\A x, y \in ds : x.no = y.no => x = y)
  BY <1>1, <1>2 DEF CallsCounted
<1>6. CallsCounted(m, ds, n)
  BY <1>4, <1>5 DEF CallsCounted
<1> QED  BY <1>6 DEF d

LEMMA FeatureInit == ASSUME FeatureLimits, Features!Init PROVE FeatureInv
<1>1. IsFiniteSet({}) /\ Cardinality({}) = 0
  BY FS_EmptySet
<1>2. CallsCounted([processed |-> 0, failed |-> 0, cache_hits |-> 0], {}, 0)
  BY <1>1 DEF CallsCounted, FeatureLimits
<1> QED  BY <1>2 DEF Features!Init, FeatureInv

LEMMA FeatureHandle == ASSUME FeatureLimits, FeatureInv, Features!Handle PROVE FeatureInv'
<1>1. PICK m, cs, n : m = metrics /\ cs = featureCalls /\ n = featuresAsked
  OBVIOUS
<1>2. CallsCounted(m, cs, n) /\ UNCHANGED <<service, cache_enabled>>
  BY <1>1 DEF FeatureInv, Features!Handle
<1>3. SUFFICES featureCache' \subseteq FeatureKeys /\ CallsCounted(metrics', featureCalls', featuresAsked')
  BY <1>2 DEF FeatureInv
<1>4. CASE \E k \in FeatureKeys : Features!Process(k)
  <2>1. PICK k \in FeatureKeys : Features!Process(k)
    BY <1>4
  <2>2. n < MaxFeatureCalls /\ featuresAsked' = n + 1 /\ featureCache' = featureCache
    BY <1>1, <2>1 DEF Features!Process
  <2>3. \/ metrics' = [m EXCEPT !["cache_hits"] = @ + 1] /\ featureCalls' = cs
        \/ metrics' = m /\ featureCalls' = cs \cup {[no |-> n + 1, key |-> k, attempt |-> 0]}
    BY <1>1, <2>1, <2>2 DEF Features!Process, Features!Counted
  <2>4. CallsCounted([m EXCEPT !["cache_hits"] = @ + 1], cs, n + 1)
    BY <1>2, <2>2, CallsHit
  <2>5. CallsCounted(m, cs \cup {[no |-> n + 1, key |-> k, attempt |-> 0]}, n + 1)
    BY <1>2, <2>2, CallsOneMore
  <2> QED  BY <2>2, <2>3, <2>4, <2>5 DEF FeatureInv
<1>5. CASE \E c \in cs : Features!Processed(c)
  <2>1. PICK c \in cs : Features!Processed(c)
    BY <1>5
  <2>2. CallsCounted([m EXCEPT !["processed"] = @ + 1], cs \ {c}, n)
    BY <1>2, CallsEnded
  <2>3. c.key \in FeatureKeys
    BY <1>2 DEF CallsCounted, Coroutines
  <2> QED  BY <1>1, <2>1, <2>2, <2>3 DEF Features!Processed, Features!Counted, FeatureInv
<1>6. CASE \E c \in cs : Features!AttemptFailed(c)
  <2>1. PICK c \in cs : Features!AttemptFailed(c)
    BY <1>6
  <2>2. CallsCounted([m EXCEPT !["failed"] = @ + 1], cs \ {c}, n)
    BY <1>2, CallsEnded
  <2>3. c.attempt # max_retries - 1
          => CallsCounted(m, (cs \ {c}) \cup {[c EXCEPT !.attempt = @ + 1]}, n)
    BY <1>2, CallsAgain
  <2> QED  BY <1>1, <2>1, <2>2, <2>3 DEF Features!AttemptFailed, Features!Counted, FeatureInv
<1>7. CASE Features!ClearCache
  BY <1>1, <1>2, <1>7 DEF Features!ClearCache
<1> QED  BY <1>1, <1>4, <1>5, <1>6, <1>7 DEF Features!Handle

LEMMA FeatureNext ==
  ASSUME FeatureLimits, FeatureInv, [Features!Next]_(Features!vars) PROVE FeatureInv'
<1>1. CASE UNCHANGED Features!vars
  BY <1>1 DEF FeatureInv, Features!vars
<1>2. CASE Features!Next
  <2>1. Features!Handle
    BY <1>2 DEF Features!Next, Features!Analytics, Features!ApiClient, Features!AuditTrail,
       Features!Authentication, Features!Authorization, Features!Caching, Features!Database,
       Features!Email, Features!Encryption, Features!ErrorHandling, Features!FileUpload,
       Features!Logging, Features!Monitoring, Features!Notifications, Features!Payment,
       Features!RateLimiting, Features!Scheduling, Features!Search, Features!Validation,
       Features!Webhooks
  <2> QED  BY <2>1, FeatureHandle
<1> QED  BY <1>1, <1>2

LEMMA FeatureSpec == ASSUME FeatureLimits PROVE Features!Spec => []FeatureInv
<1>1. Features!Init => FeatureInv
  BY FeatureInit
<1>2. FeatureInv /\ [Features!Next]_(Features!vars) => FeatureInv'
  BY FeatureNext
<1> QED  BY <1>1, <1>2, PTL DEF Features!Spec

LEMMA FeatureCount == ASSUME NEW S PROVE Features!Cardinality(S) = Cardinality(S)
BY DEF Features!Cardinality, Cardinality

LEMMA FeaturePromise ==
  ASSUME FeatureLimits, FeatureInv PROVE Features!TypeOK /\ Features!EveryCallIsCounted
<1>1. PICK m, cs, n : m = metrics /\ cs = featureCalls /\ n = featuresAsked
  OBVIOUS
<1>2. CallsCounted(m, cs, n)
  BY <1>1 DEF FeatureInv
<1>3. /\ m["processed"] \in Nat /\ m["failed"] \in Nat /\ m["cache_hits"] \in Nat /\ n \in Nat
      /\ Cardinality(cs) \in Nat /\ n <= MaxFeatureCalls /\ MaxFeatureCalls \in Nat
      /\ m["processed"] + m["failed"] + m["cache_hits"] + Cardinality(cs) = n
  BY <1>2, FS_CardinalityType DEF CallsCounted, FeatureLimits
<1>4. /\ m["processed"] <= MaxFeatureCalls /\ m["failed"] <= MaxFeatureCalls
      /\ m["cache_hits"] <= MaxFeatureCalls
  BY <1>3
<1>5. m \in [{"processed", "failed", "cache_hits"} -> 0 .. MaxFeatureCalls]
  BY <1>2, <1>3, <1>4 DEF CallsCounted
<1>6. m["processed"] + m["failed"] + m["cache_hits"] + Features!Cardinality(cs) = n
  BY <1>3, FeatureCount
<1>7. Features!EveryCallIsCounted
  BY <1>1, <1>6 DEF Features!EveryCallIsCounted
<1>8. cs \subseteq Coroutines /\ n \in 0 .. MaxFeatureCalls
  BY <1>2 DEF CallsCounted
<1>9. Features!TypeOK
  BY <1>1, <1>5, <1>8 DEF Features!TypeOK, FeatureInv, Coroutines
<1> QED  BY <1>7, <1>9

-----------------------------------------------------------------------------
(* Metrics: the last values, and their order.                                *)

MetricLimits == keep \in Nat \ {0} /\ MaxValues \in Nat /\ MaxMetricTime \in Nat \ {0}

LEMMA SameSequence ==
  ASSUME NEW S, NEW a \in Seq(S), NEW b \in Seq(S), Len(a) = Len(b),
         \A i \in 1 .. Len(a) : a[i] = b[i]
  PROVE  a = b
OBVIOUS

LEMMA LargerSeq ==
  ASSUME NEW S, NEW T, S \subseteq T, NEW s \in Seq(S)
  PROVE  s \in Seq(T)
<1>1. Len(s) \in Nat /\ s \in [1 .. Len(s) -> S]
  OBVIOUS
<1>2. s \in [1 .. Len(s) -> T]
  BY <1>1
<1> QED  BY <1>1, <1>2, IsSeq

LastOnes(s) == SubSeq(s, (IF Len(s) > keep THEN Len(s) - keep ELSE 0) + 1, Len(s))

LEMMA LastOnesAre ==
  ASSUME MetricLimits, NEW S, NEW s \in Seq(S), NEW n, n = Len(s),
         NEW d, d = IF n > keep THEN n - keep ELSE 0
  PROVE  /\ d \in 0 .. n /\ LastOnes(s) \in Seq(S) /\ Len(LastOnes(s)) = n - d
         /\ \A i \in 1 .. n - d : LastOnes(s)[i] = s[d + i]
<1>1. n \in Nat /\ d \in 0 .. n
  BY DEF MetricLimits
<1>2. LastOnes(s) = SubSeq(s, d + 1, n)
  BY DEF LastOnes
<1> QED  BY <1>1, <1>2

\* The last ones after a push: the first is dropped when there are too many.
LEMMA LastOnesAppend ==
  ASSUME MetricLimits, NEW S, NEW s \in Seq(S), NEW v \in S
  PROVE  /\ LastOnes(s) \in Seq(S) /\ Len(LastOnes(s)) <= keep
         /\ LastOnes(Append(s, v)) = IF Len(LastOnes(s)) < keep THEN Append(LastOnes(s), v)
                                     ELSE Append(Tail(LastOnes(s)), v)
<1> DEFINE n == Len(s)
           d == IF n > keep THEN n - keep ELSE 0
           l == LastOnes(s)
           t == Append(s, v)
           e == IF n + 1 > keep THEN n + 1 - keep ELSE 0
           m == LastOnes(t)
<1>1. n \in Nat /\ keep \in Nat \ {0} /\ d \in 0 .. n /\ e \in 0 .. n
  BY DEF MetricLimits
<1>2. /\ t \in Seq(S) /\ Len(t) = n + 1 /\ t[n + 1] = v
      /\ \A i \in 1 .. n : t[i] = s[i]
  OBVIOUS
<1>3. n = Len(s) /\ d = IF n > keep THEN n - keep ELSE 0
  OBVIOUS
<1>9. e = IF n + 1 > keep THEN n + 1 - keep ELSE 0
  OBVIOUS
<1> HIDE DEF n, d, t, e
<1>4. /\ l \in Seq(S) /\ Len(l) = n - d
      /\ \A i \in 1 .. n - d : l[i] = s[d + i]
  BY <1>3, LastOnesAre
<1>5. /\ m \in Seq(S) /\ Len(m) = n + 1 - e
      /\ \A i \in 1 .. n + 1 - e : m[i] = t[e + i]
  <2>1. PICK p : p = n + 1
    OBVIOUS
  <2>2. e = IF p > keep THEN p - keep ELSE 0
    BY <1>1, <2>1 DEF e
  <2>3. t \in Seq(S) /\ p = Len(t)
    BY <1>2, <2>1
  <2>4. PICK q : q = e
    OBVIOUS
  <2>5. q = IF p > keep THEN p - keep ELSE 0
    BY <2>2, <2>4
  <2>6. /\ m \in Seq(S) /\ Len(m) = p - q
        /\ \A i \in 1 .. p - q : m[i] = t[q + i]
    BY <2>3, <2>5, LastOnesAre DEF m
  <2> QED  BY <1>1, <2>1, <2>4, <2>6
<1> HIDE DEF l, m
<1>6. CASE n < keep
  <2>1. d = 0 /\ e = 0
    BY <1>1, <1>6 DEF d, e
  <2> DEFINE a == Append(l, v)
  <2>2. /\ a \in Seq(S) /\ Len(a) = n + 1 /\ a[n + 1] = v
        /\ \A i \in 1 .. n : a[i] = l[i]
    BY <1>1, <1>4, <2>1
  <2> HIDE DEF a
  <2>3. \A i \in 1 .. n + 1 : m[i] = a[i]
    <3>1. m[n + 1] = v
      BY <1>1, <1>2, <1>5, <2>1
    <3>2. ASSUME NEW i \in 1 .. n PROVE m[i] = l[i]
      BY <1>1, <1>2, <1>4, <1>5, <2>1
    <3> QED  BY <1>1, <2>2, <3>1, <3>2
  <2>4. m = a
    BY <1>1, <1>5, <2>1, <2>2, <2>3, SameSequence
  <2> QED  BY <1>1, <1>4, <1>6, <2>1, <2>4 DEF a, l, m, t
<1>7. CASE n >= keep
  <2>1. d = n - keep /\ e = n + 1 - keep /\ n - d = keep /\ n + 1 - e = keep
    BY <1>1, <1>7 DEF d, e
  <2> DEFINE b == Tail(l)
             a == Append(b, v)
  <2>2. /\ b \in Seq(S) /\ Len(b) = keep - 1
        /\ \A i \in 1 .. keep - 1 : b[i] = l[i + 1]
    <3>1. l # <<>> /\ Len(l) = keep
      BY <1>1, <1>4, <2>1
    <3> QED  BY <1>1, <1>4, <3>1
  <2> HIDE DEF b
  <2>3. /\ a \in Seq(S) /\ Len(a) = keep /\ a[keep] = v
        /\ \A i \in 1 .. keep - 1 : a[i] = b[i]
    BY <1>1, <2>2
  <2> HIDE DEF a
  <2>4. \A i \in 1 .. keep : m[i] = a[i]
    <3>1. m[keep] = v
      <4>1. e + keep = n + 1
        BY <1>1, <2>1
      <4> QED  BY <1>1, <1>2, <1>5, <2>1, <4>1
    <3>2. ASSUME NEW i \in 1 .. keep - 1 PROVE m[i] = b[i]
      <4>1. i + 1 \in 1 .. keep /\ e + i = d + (i + 1) /\ e + i \in 1 .. n
        BY <1>1, <2>1
      <4>2. m[i] = t[e + i] /\ l[i + 1] = s[d + (i + 1)]
        BY <1>1, <1>4, <1>5, <2>1, <4>1
      <4> QED  BY <1>2, <2>2, <4>1, <4>2
    <3> QED  BY <1>1, <2>3, <3>1, <3>2
  <2>5. m = a
    BY <1>5, <2>1, <2>3, <2>4, SameSequence
  <2>6. Len(l) = keep
    BY <1>4, <2>1
  <2> QED  BY <1>1, <1>4, <2>5, <2>6 DEF a, b, l, m, t
<1> QED  BY <1>1, <1>6, <1>7

\* A finite set of numbers has a greatest one.
LEMMA GreatestOf ==
  ASSUME NEW S, IsFiniteSet(S), S \subseteq Nat, S # {}
  PROVE  \E m \in S : \A x \in S : ~(x > m)
<1> DEFINE Bad(X) == /\ IsFiniteSet(X) /\ X # {}
                     /\ \A m \in X : \E x \in X : x > m
           T == {k \in Nat : \E X \in SUBSET Nat : Bad(X) /\ Cardinality(X) = k}
<1>1. SUFFICES ASSUME Bad(S) PROVE FALSE
  OBVIOUS
<1>2. Cardinality(S) \in T
  <2>1. Cardinality(S) \in Nat
    BY FS_CardinalityType
  <2> QED  BY <1>1, <2>1
<1>3. PICK k \in T : \A n \in T : k <= n
  <2>1. T \subseteq Nat /\ T # {}
    BY <1>2
  <2> HIDE DEF T
  <2> QED  BY <2>1, LeastNumber
<1>4. PICK X \in SUBSET Nat : Bad(X) /\ Cardinality(X) = k
  OBVIOUS
<1>5. PICK e : e \in X
  BY <1>4
<1>6. /\ IsFiniteSet(X \ {e}) /\ Cardinality(X \ {e}) = k - 1 /\ k \in Nat
      /\ Cardinality(X \ {e}) \in Nat
  BY <1>4, <1>5, FS_RemoveElement, FS_CardinalityType
<1>7. X \ {e} # {}
  <2> SUFFICES ASSUME X \ {e} = {} PROVE FALSE
    OBVIOUS
  <2>1. \A x \in X : x = e
    OBVIOUS
  <2>2. PICK x \in X : x > e
    BY <1>4, <1>5
  <2> QED  BY <1>5, <2>1, <2>2
<1>8. ~Bad(X \ {e})
  <2> SUFFICES ASSUME Bad(X \ {e}) PROVE FALSE
    OBVIOUS
  <2>1. k - 1 \in T
    BY <1>6
  <2>2. k <= k - 1
    BY <1>3, <2>1
  <2> QED  BY <1>6, <2>2
<1>9. PICK m \in X \ {e} : \A x \in X \ {e} : ~(x > m)
  BY <1>6, <1>7, <1>8
<1>10. PICK x \in X : x > m
  BY <1>4
<1>11. x = e /\ e \in Nat /\ m \in Nat
  BY <1>5, <1>9, <1>10
<1>12. PICK y \in X : y > e
  BY <1>4, <1>5
<1>13. y # e /\ y \in Nat
  BY <1>11, <1>12
<1>14. ~(y > m)
  BY <1>9, <1>13
<1> QED  BY <1>10, <1>11, <1>12, <1>13, <1>14

InOrder(s, n) ==
    \A i, k \in 1 .. n : s[i] \in Nat /\ s[k] \in Nat /\ (i <= k => s[i] <= s[k])

Below(vs, v) == {j \in DOMAIN vs : vs[j] < v}
UpTo(vs, v) == {j \in DOMAIN vs : vs[j] <= v}

LEMMA BelowAndUpTo ==
  ASSUME NEW vs \in Seq(Nat), NEW v
  PROVE  /\ IsFiniteSet(Below(vs, v)) /\ IsFiniteSet(UpTo(vs, v))
         /\ Cardinality(Below(vs, v)) \in Nat /\ Cardinality(UpTo(vs, v)) \in Nat
         /\ UpTo(vs, v) = 1 .. Len(vs) => Cardinality(UpTo(vs, v)) = Len(vs)
<1>1. PICK n : n = Len(vs)
  OBVIOUS
<1>2. n \in Nat /\ DOMAIN vs = 1 .. n
  BY <1>1
<1>3. IsFiniteSet(1 .. n) /\ Cardinality(1 .. n) = n
  BY <1>2, FS_Interval
<1>4. Below(vs, v) \subseteq 1 .. n /\ UpTo(vs, v) \subseteq 1 .. n
  BY <1>2 DEF Below, UpTo
<1>5. IsFiniteSet(Below(vs, v)) /\ IsFiniteSet(UpTo(vs, v))
  BY <1>3, <1>4, FS_Subset
<1> QED  BY <1>1, <1>3, <1>5, FS_CardinalityType

LEMMA UpToBelow ==
  ASSUME NEW vs \in Seq(Nat), NEW v \in Nat, NEW w \in Nat, v < w
  PROVE  Cardinality(UpTo(vs, v)) <= Cardinality(Below(vs, w))
<1>1. UpTo(vs, v) \subseteq Below(vs, w)
  BY DEF UpTo, Below
<1> QED  BY <1>1, BelowAndUpTo, FS_Subset

LEMMA RankedIs ==
  ASSUME NEW vs, NEW v, NEW i
  PROVE  Measured!Ranked(vs, v, i)
           <=> Cardinality(Below(vs, v)) < i /\ Cardinality(UpTo(vs, v)) >= i
<1>1. \A S : Measured!Cardinality(S) = Cardinality(S)
  BY DEF Measured!Cardinality, Cardinality
<1> QED  BY <1>1 DEF Measured!Ranked, Below, UpTo

LEMMA ValuesAreFinite ==
  ASSUME NEW f, NEW J, IsFiniteSet(J)
  PROVE  IsFiniteSet({f[j] : j \in J})
<1> DEFINE V == {f[j] : j \in J}
           g == [j \in J |-> f[j]]
<1>1. g \in Surjection(J, V)
  BY DEF Surjection
<1> QED  BY <1>1, FS_Surjection

\* Every place of the order has its value: the least with so many up to it.
LEMMA SomeRanked ==
  ASSUME NEW vs \in Seq(Nat), NEW i \in 1 .. Len(vs)
  PROVE  \E v \in {vs[j] : j \in DOMAIN vs} : Measured!Ranked(vs, v, i)
<1> DEFINE R == {vs[j] : j \in DOMAIN vs}
           T == {v \in R : Cardinality(UpTo(vs, v)) >= i}
<1>1. PICK n : n = Len(vs)
  OBVIOUS
<1>2. /\ n \in Nat /\ DOMAIN vs = 1 .. n /\ i \in 1 .. n /\ vs[i] \in R /\ R \subseteq Nat
      /\ \A j \in 1 .. n : vs[j] \in R
  BY <1>1
<1>3. IsFiniteSet(1 .. n)
  BY <1>2, FS_Interval
<1>4. IsFiniteSet(R)
  <2>1. R = {vs[j] : j \in 1 .. n}
    BY <1>2
  <2> QED  BY <1>2, <1>3, <2>1, ValuesAreFinite
<1> HIDE DEF R
<1>5. PICK g \in R : \A w \in R : ~(w > g)
  BY <1>2, <1>4, GreatestOf
<1>6. g \in T
  <2>1. \A j \in 1 .. n : vs[j] <= g
    BY <1>2, <1>5
  <2>2. UpTo(vs, g) = 1 .. Len(vs)
    BY <1>1, <1>2, <2>1 DEF UpTo
  <2>3. Cardinality(UpTo(vs, g)) = n
    BY <1>1, <2>2, BelowAndUpTo
  <2> QED  BY <1>2, <2>3
<1>7. T \subseteq R
  OBVIOUS
<1>8. \A v \in T : Cardinality(UpTo(vs, v)) >= i
  OBVIOUS
<1>9. \A v \in R : Cardinality(UpTo(vs, v)) >= i => v \in T
  OBVIOUS
<1> HIDE DEF T
<1>10. PICK v \in T : \A w \in T : v <= w
  BY <1>2, <1>6, <1>7, LeastNumber
<1>11. v \in R /\ v \in Nat
  BY <1>2, <1>7
<1>12. Cardinality(Below(vs, v)) < i
  <2>1. Cardinality(Below(vs, v)) \in Nat
    BY BelowAndUpTo
  <2>2. SUFFICES ASSUME Cardinality(Below(vs, v)) >= i PROVE FALSE
    BY <1>2, <2>1
  <2>3. Below(vs, v) # {}
    <3>1. Cardinality({}) = 0
      BY FS_EmptySet
    <3>2. Cardinality(Below(vs, v)) # 0
      BY <1>2, <2>1, <2>2
    <3> QED  BY <3>1, <3>2
  <2> DEFINE B == {vs[j] : j \in Below(vs, v)}
  <2>4. IsFiniteSet(B)
    <3>1. IsFiniteSet(Below(vs, v)) /\ Below(vs, v) \subseteq DOMAIN vs
      BY BelowAndUpTo DEF Below
    <3> QED  BY <3>1, ValuesAreFinite
  <2>5. B \subseteq R /\ B # {} /\ (\A w \in B : w < v) /\ \A j \in Below(vs, v) : vs[j] \in B
    BY <1>2, <2>3 DEF Below
  <2> HIDE DEF B
  <2>6. PICK w \in B : \A x \in B : ~(x > w)
    BY <1>2, <2>4, <2>5, GreatestOf
  <2>7. w \in R /\ w \in Nat /\ w < v
    BY <1>2, <2>5
  <2>8. Below(vs, v) \subseteq UpTo(vs, w)
    <3> SUFFICES ASSUME NEW j \in Below(vs, v) PROVE j \in UpTo(vs, w)
      OBVIOUS
    <3>1. j \in DOMAIN vs /\ vs[j] \in Nat /\ ~(vs[j] > w)
      BY <2>5, <2>6 DEF Below
    <3> QED  BY <2>7, <3>1 DEF UpTo
  <2>9. /\ Cardinality(Below(vs, v)) <= Cardinality(UpTo(vs, w))
        /\ Cardinality(UpTo(vs, w)) \in Nat
    BY <2>8, BelowAndUpTo, FS_Subset
  <2>10. w \in T
    BY <1>2, <1>9, <2>1, <2>2, <2>7, <2>9
  <2> QED  BY <1>10, <1>11, <2>7, <2>10
<1>13. Measured!Ranked(vs, v, i)
  BY <1>8, <1>10, <1>12, RankedIs
<1> QED  BY <1>11, <1>13 DEF R

\* Of numbers, the sequence with each in its place exists and does not decrease.
LEMMA ValuesInOrder ==
  ASSUME NEW vs \in Seq(Nat)
  PROVE  InOrder(Measured!Sorted(vs), Len(vs))
<1> DEFINE s == Measured!Sorted(vs)
<1>1. Len(vs) \in Nat /\ DOMAIN vs = 1 .. Len(vs)
  OBVIOUS
<1>2. ASSUME NEW i \in 1 .. Len(vs) PROVE s[i] \in Nat /\ Measured!Ranked(vs, s[i], i)
  <2>1. s[i] = CHOOSE v \in {vs[j] : j \in DOMAIN vs} : Measured!Ranked(vs, v, i)
    BY <1>1 DEF Measured!Sorted
  <2>2. s[i] \in {vs[j] : j \in DOMAIN vs} /\ Measured!Ranked(vs, s[i], i)
    BY <2>1, SomeRanked
  <2> QED  BY <2>2
<1> HIDE DEF s
<1>3. ASSUME NEW i \in 1 .. Len(vs), NEW k \in 1 .. Len(vs), i <= k PROVE s[i] <= s[k]
  <2>1. PICK v, w : v = s[i] /\ w = s[k]
    OBVIOUS
  <2>2. v \in Nat /\ w \in Nat /\ Measured!Ranked(vs, v, i) /\ Measured!Ranked(vs, w, k)
    BY <1>2, <2>1
  <2>3. SUFFICES ASSUME w < v PROVE FALSE
    BY <2>1, <2>2
  <2>4. PICK b, u : b = Cardinality(Below(vs, v)) /\ u = Cardinality(UpTo(vs, w))
    OBVIOUS
  <2>5. b \in Nat /\ u \in Nat /\ u <= b
    BY <2>2, <2>3, <2>4, BelowAndUpTo, UpToBelow
  <2>6. b < i /\ u >= k
    BY <2>2, <2>4, RankedIs
  <2> QED  BY <1>1, <1>3, <2>5, <2>6
<1>4. InOrder(s, Len(vs))
  BY <1>2, <1>3 DEF InOrder
<1> QED  BY <1>4 DEF s

MetricInv ==
    /\ metricTime \in 0 .. MaxMetricTime /\ counter \subseteq 0 .. 1 /\ gauge \subseteq {1}
    /\ timed \in [TimedCalls -> SUBSET (0 .. metricTime)]
    /\ recorded \in [Measured!Keys -> Seq(0 .. MaxMetricTime)]
    /\ metricValues = [k \in Measured!Keys |-> LastOnes(recorded[k])]

LEMMA MetricInit == ASSUME MetricLimits, Measured!Init PROVE MetricInv
<1>1. \A k \in Measured!Keys : recorded[k] = <<>> /\ metricValues[k] = <<>>
  BY DEF Measured!Init
<1>2. LastOnes(<<>>) = <<>>
  BY DEF LastOnes, MetricLimits
<1>3. recorded \in [Measured!Keys -> Seq(0 .. MaxMetricTime)]
  BY DEF Measured!Init
<1>4. metricValues = [k \in Measured!Keys |-> LastOnes(recorded[k])]
  BY <1>2 DEF Measured!Init
<1>5. timed \in [TimedCalls -> SUBSET (0 .. metricTime)]
  BY DEF Measured!Init
<1> QED  BY <1>3, <1>4, <1>5 DEF Measured!Init, MetricInv, MetricLimits

LEMMA RecordStep ==
  ASSUME MetricLimits, MetricInv, NEW k \in Measured!Keys, NEW v \in 0 .. MaxMetricTime,
         Measured!Record(k, v)
  PROVE  /\ recorded' \in [Measured!Keys -> Seq(0 .. MaxMetricTime)]
         /\ metricValues' = [x \in Measured!Keys |-> LastOnes(recorded'[x])]
<1>1. PICK r, s : r = recorded /\ s = metricValues
  OBVIOUS
<1>2. /\ r \in [Measured!Keys -> Seq(0 .. MaxMetricTime)]
      /\ s = [x \in Measured!Keys |-> LastOnes(r[x])]
  BY <1>1 DEF MetricInv
<1>3. PICK a, l : a = r[k] /\ l = s[k]
  OBVIOUS
<1>4. a \in Seq(0 .. MaxMetricTime) /\ l = LastOnes(a)
  BY <1>2, <1>3
<1>5. recorded' = [r EXCEPT ![k] = Append(a, v)] /\ Append(a, v) \in Seq(0 .. MaxMetricTime)
  BY <1>1, <1>3, <1>4 DEF Measured!Record
<1>6. metricValues' = [s EXCEPT ![k] = IF Len(l) < keep THEN Append(l, v) ELSE Append(Tail(l), v)]
  BY <1>1, <1>3 DEF Measured!Record
<1>7. LastOnes(Append(a, v)) = IF Len(l) < keep THEN Append(l, v) ELSE Append(Tail(l), v)
  BY <1>4, LastOnesAppend
<1>8. PICK b, m : b = Append(a, v) /\ m = LastOnes(b)
  OBVIOUS
<1>9. recorded' = [r EXCEPT ![k] = b] /\ metricValues' = [s EXCEPT ![k] = m]
  BY <1>5, <1>6, <1>7, <1>8
<1> QED  BY <1>2, <1>5, <1>8, <1>9

LEMMA MetricStep ==
  ASSUME MetricLimits, MetricInv, [Measured!Next]_(Measured!vars) PROVE MetricInv'
<1>0. /\ MaxMetricTime \in Nat \ {0} /\ metricTime \in 0 .. MaxMetricTime
      /\ Measured!Timings \subseteq Measured!Keys /\ "histogram" \in Measured!Keys
  BY DEF MetricLimits, MetricInv, Measured!Keys, Measured!Timings
<1>1. CASE UNCHANGED Measured!vars
  BY <1>1 DEF MetricInv, Measured!vars
<1>2. CASE \E n \in {-1, 1} : Measured!incrementCounter(n)
  <2>1. counter' \subseteq 0 .. 1
    BY <1>2 DEF Measured!incrementCounter
  <2> QED  BY <1>2, <2>1 DEF Measured!incrementCounter, MetricInv
<1>3. CASE Measured!setGauge(1)
  BY <1>3 DEF Measured!setGauge, MetricInv
<1>4. CASE \E v \in 0 .. 1 : Measured!recordHistogram(v) \/ Measured!recordTiming(v)
  <2>1. PICK v \in 0 .. 1, k \in Measured!Keys :
           Measured!Record(k, v) /\ UNCHANGED <<counter, gauge, timed, metricTime>>
    BY <1>0, <1>4 DEF Measured!recordHistogram, Measured!recordTiming, Measured!Timings
  <2>2. v \in 0 .. MaxMetricTime
    BY <1>0
  <2> QED  BY <2>1, <2>2, RecordStep DEF MetricInv
<1>5. CASE \E k \in Measured!Timings : Measured!timeSync(k)
  <2>1. PICK k \in Measured!Keys :
           Measured!Record(k, 0) /\ UNCHANGED <<counter, gauge, timed, metricTime>>
    BY <1>0, <1>5 DEF Measured!timeSync
  <2>2. 0 \in 0 .. MaxMetricTime
    BY <1>0
  <2> QED  BY <2>1, <2>2, RecordStep DEF MetricInv
<1>6. CASE \E k \in Measured!Timings, c \in TimedCalls : Measured!Timed(c, k)
  <2>1. PICK k \in Measured!Keys, c \in TimedCalls : Measured!Timed(c, k)
    BY <1>0, <1>6
  <2>2. PICK start \in timed[c] : Measured!Record(k, metricTime - start)
    BY <2>1 DEF Measured!Timed
  <2>3. PICK v : v = metricTime - start
    OBVIOUS
  <2>4. v \in 0 .. MaxMetricTime /\ Measured!Record(k, v)
    <3>1. start \in 0 .. metricTime
      BY DEF MetricInv
    <3> QED  BY <1>0, <2>2, <2>3, <3>1
  <2>5. timed' \in [TimedCalls -> SUBSET (0 .. metricTime)] /\ UNCHANGED <<counter, gauge, metricTime>>
    BY <2>1 DEF Measured!Timed, MetricInv
  <2> QED  BY <2>4, <2>5, RecordStep DEF MetricInv
<1>7. CASE \E c \in TimedCalls : Measured!time(c)
  <2>1. PICK c \in TimedCalls : Measured!time(c)
    BY <1>7
  <2>2. timed' \in [TimedCalls -> SUBSET (0 .. metricTime)]
    BY <1>0, <2>1 DEF Measured!time, MetricInv
  <2> QED  BY <2>1, <2>2 DEF Measured!time, MetricInv
<1>8. CASE \E ks \in {Measured!Keys, Measured!Keys \ {"timing error"}} : Measured!Reset(ks)
  <2>1. PICK ks : Measured!Reset(ks)
    BY <1>8
  <2>2. PICK r, s : r = recorded /\ s = metricValues
    OBVIOUS
  <2>3. /\ r \in [Measured!Keys -> Seq(0 .. MaxMetricTime)]
        /\ s = [x \in Measured!Keys |-> LastOnes(r[x])]
    BY <2>2 DEF MetricInv
  <2>4. /\ recorded' = [k \in Measured!Keys |-> IF k \in ks THEN <<>> ELSE r[k]]
        /\ metricValues' = [k \in Measured!Keys |-> IF k \in ks THEN <<>> ELSE s[k]]
        /\ counter' = {} /\ gauge' = {} /\ UNCHANGED <<timed, metricTime>>
    BY <2>1, <2>2 DEF Measured!Reset
  <2>5. LastOnes(<<>>) = <<>> /\ <<>> \in Seq(0 .. MaxMetricTime)
    BY DEF LastOnes, MetricLimits
  <2>6. recorded' \in [Measured!Keys -> Seq(0 .. MaxMetricTime)]
    BY <2>3, <2>4, <2>5
  <2>7. metricValues' = [k \in Measured!Keys |-> LastOnes(recorded'[k])]
    BY <2>3, <2>4, <2>5
  <2> QED  BY <2>4, <2>6, <2>7 DEF MetricInv
<1>9. CASE Measured!Tick
  <2>1. timed' \in [TimedCalls -> SUBSET (0 .. metricTime')] /\ metricTime' \in 0 .. MaxMetricTime
    <3>1. metricTime' = metricTime + 1 /\ timed' = timed /\ metricTime < MaxMetricTime
      BY <1>9 DEF Measured!Tick
    <3>2. 0 .. metricTime \subseteq 0 .. metricTime' /\ metricTime' \in 0 .. MaxMetricTime
      BY <1>0, <3>1
    <3> QED  BY <3>1, <3>2 DEF MetricInv
  <2> QED  BY <1>9, <2>1 DEF Measured!Tick, MetricInv
<1> QED  BY <1>1, <1>2, <1>3, <1>4, <1>5, <1>6, <1>7, <1>8, <1>9 DEF Measured!Next

LEMMA MetricSpec == ASSUME MetricLimits PROVE Measured!Spec => []MetricInv
<1>1. Measured!Init => MetricInv
  BY MetricInit
<1>2. MetricInv /\ [Measured!Next]_(Measured!vars) => MetricInv'
  BY MetricStep
<1> QED  BY <1>1, <1>2, PTL DEF Measured!Spec

LEMMA MetricPromise ==
  ASSUME MetricLimits, MetricInv PROVE Measured!TypeOK /\ Measured!StatsAreOfTheLast
<1>1. ASSUME NEW k \in Measured!Keys
      PROVE  /\ metricValues[k] \in Seq(0 .. MaxMetricTime) /\ Len(metricValues[k]) <= keep
             /\ metricValues[k] = LastOnes(recorded[k])
  <2>1. PICK r : r = recorded[k]
    OBVIOUS
  <2>2. r \in Seq(0 .. MaxMetricTime) /\ metricValues[k] = LastOnes(r) /\ 0 \in 0 .. MaxMetricTime
    BY <2>1 DEF MetricInv, MetricLimits
  <2>3. LastOnes(r) \in Seq(0 .. MaxMetricTime) /\ Len(LastOnes(r)) <= keep
    BY <2>2, LastOnesAppend
  <2> QED  BY <2>1, <2>2, <2>3
<1>2. Measured!TypeOK
  BY <1>1 DEF MetricInv, Measured!TypeOK
<1>3. ASSUME NEW vs \in Seq(Nat), vs # <<>>
      PROVE  /\ Measured!Sorted(vs)[1] <= Measured!Percentile(vs, 50)
             /\ Measured!Percentile(vs, 50) <= Measured!Percentile(vs, 95)
             /\ Measured!Percentile(vs, 95) <= Measured!Percentile(vs, 99)
             /\ Measured!Percentile(vs, 99) <= Measured!Sorted(vs)[Len(vs)]
  <2> DEFINE Place(p) == (Len(vs) * p) \div 100 + 1
  <2>1. Len(vs) \in Nat \ {0}
    BY <1>3
  <2>2. PICK n : n = Len(vs)
    OBVIOUS
  <2>3. n \in Nat \ {0}
    BY <2>1, <2>2
  <2>4. /\ (n * 50) \div 100 + 1 \in 1 .. n /\ (n * 95) \div 100 + 1 \in 1 .. n
        /\ (n * 99) \div 100 + 1 \in 1 .. n
        /\ (n * 50) \div 100 + 1 <= (n * 95) \div 100 + 1
        /\ (n * 95) \div 100 + 1 <= (n * 99) \div 100 + 1
        /\ 1 \in 1 .. n /\ n \in 1 .. n
    BY <2>3
  <2>5. /\ Place(50) \in 1 .. n /\ Place(95) \in 1 .. n /\ Place(99) \in 1 .. n
        /\ 1 <= Place(50) /\ Place(50) <= Place(95) /\ Place(95) <= Place(99) /\ Place(99) <= n
    BY <2>2, <2>3, <2>4
  <2>6. /\ Measured!Percentile(vs, 50) = Measured!Sorted(vs)[Place(50)]
        /\ Measured!Percentile(vs, 95) = Measured!Sorted(vs)[Place(95)]
        /\ Measured!Percentile(vs, 99) = Measured!Sorted(vs)[Place(99)]
    BY DEF Measured!Percentile
  <2>7. PICK s : s = Measured!Sorted(vs)
    OBVIOUS
  <2>8. InOrder(s, n)
    BY <2>2, <2>7, ValuesInOrder
  <2>9. PICK a, b, c : a = Place(50) /\ b = Place(95) /\ c = Place(99)
    OBVIOUS
  <2>10. /\ a \in 1 .. n /\ b \in 1 .. n /\ c \in 1 .. n
         /\ 1 <= a /\ a <= b /\ b <= c /\ c <= n /\ 1 \in 1 .. n /\ n \in 1 .. n
    BY <2>4, <2>5, <2>9
  <2> HIDE DEF At
  <2>11. s[1] <= s[a] /\ s[a] <= s[b] /\ s[b] <= s[c] /\ s[c] <= s[n]
    BY <2>8, <2>10 DEF InOrder
  <2> QED  BY <2>2, <2>6, <2>7, <2>9, <2>11

<1>4. ASSUME NEW k \in Measured!Keys
      PROVE  LET vs == metricValues[k]
                 n == Len(recorded[k])
             IN  /\ vs = SubSeq(recorded[k], (IF n > keep THEN n - keep ELSE 0) + 1, n)
                 /\ vs # <<>> =>
                      /\ Measured!Sorted(vs)[1] <= Measured!Percentile(vs, 50)
                      /\ Measured!Percentile(vs, 50) <= Measured!Percentile(vs, 95)
                      /\ Measured!Percentile(vs, 95) <= Measured!Percentile(vs, 99)
                      /\ Measured!Percentile(vs, 99) <= Measured!Sorted(vs)[Len(vs)]
  <2>1. PICK vs : vs = metricValues[k]
    OBVIOUS
  <2>2. vs \in Seq(Nat) /\ vs = LastOnes(recorded[k])
    <3>1. vs \in Seq(0 .. MaxMetricTime) /\ 0 .. MaxMetricTime \subseteq Nat
      BY <1>1, <2>1 DEF MetricLimits
    <3>2. vs \in Seq(Nat)
      BY <3>1, LargerSeq
    <3> QED  BY <1>1, <2>1, <3>2
  <2> QED  BY <1>3, <2>1, <2>2 DEF LastOnes
<1>5. Measured!StatsAreOfTheLast
  BY <1>4 DEF Measured!StatsAreOfTheLast
<1> QED  BY <1>2, <1>5

-----------------------------------------------------------------------------
\* For any configuration of the retries, any services and any values: what a caller is told of
\* the attempts is what was made, no retryable error ends a loop early, every call of a service
\* that ended is counted once, and the statistics are of the last values in their order.
THEOREM CountsStayRight ==
  ASSUME RetryLimits, FeatureLimits, MetricLimits
  PROVE  Retries!Spec /\ Features!Spec /\ Measured!Spec => []CountsAddUp
<1>1. RetryInv /\ FeatureInv /\ MetricInv => CountsAddUp
  BY RetryPromise, FeaturePromise, MetricPromise DEF CountsAddUp
<1> QED  BY <1>1, RetrySpec, FeatureSpec, MetricSpec, PTL

\* The retry loops, the Python services and the metrics keep their types.
THEOREM CountersTypeCorrect ==
  ASSUME RetryLimits, FeatureLimits, MetricLimits
  PROVE  Retries!Spec /\ Features!Spec /\ Measured!Spec
           => [](Retries!TypeOK /\ Features!TypeOK /\ Measured!TypeOK)
<1>1. RetryInv /\ FeatureInv /\ MetricInv
        => Retries!TypeOK /\ Features!TypeOK /\ Measured!TypeOK
  BY RetryPromise, FeaturePromise, MetricPromise
<1> QED  BY <1>1, RetrySpec, FeatureSpec, MetricSpec, PTL

-----------------------------------------------------------------------------
(* The mail queue of the notifications.                                      *)

MailQueueLimits == MailSchedules \subseteq Nat /\ MaxMails \in Nat /\ MaxMailTime \in Nat

QueuedMails ==
    [priority : MailPriorities, scheduledFor : MailSchedules, recipients : {0, 1},
     retries : Nat, end : {"queued", "sent", "failed", "cleared"}]

HeadWaits(q, ms) == q # <<>> => q[1] # 0 /\ ms[q[1]].scheduledFor > 0

\* The queue q of the mails ms, of which one is being sent (0: none) while the loop is on.
EmailsOK(q, ms, on, sent) ==
    /\ ms \in Seq(QueuedMails) /\ Len(ms) <= MaxMails
    /\ q \in Seq(0 .. Len(ms)) /\ sent \in 0 .. Len(ms)
    /\ on \in BOOLEAN /\ (sent # 0 => on)
    /\ ~on => HeadWaits(q, ms)

EmailInv ==
    /\ EmailsOK(emailQueue, emails, isProcessing, emailSent)
    /\ crashed \in BOOLEAN /\ emailTime \in 0 .. MaxMailTime

\* The places of the sequence f of what is kept of s, place by place.
KeptSteps(A, s, S, n, f) ==
    \A i \in 0 .. n :
        /\ f[i] \in Seq(A)
        /\ i = 0 => f[i] = <<>>
        /\ i # 0 => f[i] = IF s[i] \in S THEN Append(f[i - 1], s[i]) ELSE f[i - 1]

LEMMA MailPlaces ==
  ASSUME NEW A, NEW s \in Seq(A), NEW S
  PROVE  \E f : KeptSteps(A, s, S, Len(s), f) /\ Emails!Kept(s, S) = f[Len(s)]
<1> DEFINE f == CHOOSE g : g = [i \in 0 .. Len(s) |-> IF i = 0 THEN <<>>
                          ELSE IF s[i] \in S THEN Append(g[i - 1], s[i]) ELSE g[i - 1]]
<1>1. Emails!Kept(s, S) = f[Len(s)]
  BY DEF Emails!Kept
<1>2. PICK n : n = Len(s)
  OBVIOUS
<1>3. n \in Nat /\ \A i \in 1 .. n : s[i] \in A
  BY <1>2
<1>4. JobSteps(s, S, n, f)
  <2>1. \E g : JobSteps(s, S, n, g)
    BY <1>3, JobStepsExist
  <2> QED  BY <1>2, <2>1 DEF JobSteps
<1> HIDE DEF f
<1> DEFINE T == {i \in 0 .. n : ~(f[i] \in Seq(A))}
<1>5. T = {}
  <2>1. SUFFICES ASSUME T # {} PROVE FALSE
    OBVIOUS
  <2>2. T \subseteq Nat
    BY <1>3
  <2>3. \A m \in 0 .. n : m \notin T => f[m] \in Seq(A)
    OBVIOUS
  <2>4. PICK k \in T : \A m \in T : k <= m
    BY <2>1, <2>2, LeastNumber
  <2>5. k \in 0 .. n /\ ~(f[k] \in Seq(A))
    OBVIOUS
  <2> HIDE DEF T
  <2>6. f[k] = IF k = 0 THEN <<>> ELSE IF s[k] \in S THEN Append(f[k - 1], s[k]) ELSE f[k - 1]
    BY <1>4, <2>5 DEF JobSteps
  <2>7. k # 0
    BY <2>5, <2>6
  <2>8. k - 1 \in 0 .. n /\ k - 1 \notin T
    <3>1. k - 1 \in 0 .. n /\ ~(k <= k - 1)
      BY <1>3, <2>5, <2>7
    <3> QED  BY <2>4, <3>1
  <2>9. PICK l : l = f[k - 1]
    OBVIOUS
  <2>10. l \in Seq(A) /\ s[k] \in A
    BY <1>3, <2>3, <2>5, <2>7, <2>8, <2>9
  <2>11. Append(l, s[k]) \in Seq(A)
    BY <2>10
  <2> QED  BY <2>5, <2>6, <2>7, <2>9, <2>10, <2>11
<1>6. KeptSteps(A, s, S, n, f)
  <2>1. ASSUME NEW i \in 0 .. n
        PROVE  f[i] = IF i = 0 THEN <<>> ELSE IF s[i] \in S THEN Append(f[i - 1], s[i]) ELSE f[i - 1]
    BY <1>4, <2>1 DEF JobSteps
  <2>2. \A i \in 0 .. n : f[i] \in Seq(A)
    BY <1>5
  <2> HIDE DEF T
  <2>3. ASSUME NEW i \in 0 .. n
        PROVE  /\ i = 0 => f[i] = <<>>
               /\ i # 0 => f[i] = IF s[i] \in S THEN Append(f[i - 1], s[i]) ELSE f[i - 1]
    BY <2>1
  <2> QED  BY <2>2, <2>3, Zenon DEF KeptSteps
<1> HIDE DEF T
<1> QED  BY <1>1, <1>2, <1>6, Zenon

LEMMA MailsKept ==
  ASSUME NEW A, NEW s \in Seq(A), NEW S
  PROVE  Emails!Kept(s, S) \in Seq(A)
<1>1. PICK f : KeptSteps(A, s, S, Len(s), f) /\ Emails!Kept(s, S) = f[Len(s)]
  BY MailPlaces
<1>2. Len(s) \in 0 .. Len(s)
  OBVIOUS
<1> QED  BY <1>1, <1>2 DEF KeptSteps

LEMMA MailsSorted ==
  ASSUME NEW A, NEW s \in Seq(A), NEW ms PROVE Emails!Sorted(s, ms) \in Seq(A)
<1> DEFINE K(p) == Emails!Kept(s, {id \in DOMAIN ms : ms[id].priority = p})
           z == Emails!Kept(s, {0})
<1>1. K(0) \in Seq(A) /\ K(1) \in Seq(A) /\ K(2) \in Seq(A) /\ z \in Seq(A)
  BY MailsKept
<1>2. Emails!Sorted(s, ms) = K(0) \o K(1) \o K(2) \o z
  BY DEF Emails!Sorted
<1> HIDE DEF K, z
<1> QED  BY <1>1, <1>2

LEMMA Resting ==
  ASSUME NEW q, NEW ms, ms \in Seq(QueuedMails), Len(ms) <= MaxMails, q \in Seq(0 .. Len(ms)),
         HeadWaits(q, ms)
  PROVE  EmailsOK(q, ms, FALSE, 0)
<1>1. Len(ms) \in Nat
  OBVIOUS
<1>2. 0 \in 0 .. Len(ms)
  BY <1>1
<1> QED  BY <1>2 DEF EmailsOK

\* Where the loop goes on, or rests.
LEMMA LoopStep ==
  ASSUME MailQueueLimits, NEW q, NEW ms, Emails!Loop(q, ms), emailTime \in 0 .. MaxMailTime,
         ms \in Seq(QueuedMails), Len(ms) <= MaxMails, q \in Seq(0 .. Len(ms))
  PROVE  EmailsOK(q, ms, isProcessing', emailSent') /\ crashed' \in BOOLEAN
<1>1. PICK n : n = Len(ms)
  OBVIOUS
<1>2. n \in Nat /\ DOMAIN ms = 1 .. n /\ \A id \in 1 .. n : ms[id] \in QueuedMails
  BY <1>1
<1>3. CASE q = <<>>
  <2>1. isProcessing' = FALSE /\ emailSent' = 0 /\ crashed' = FALSE
    BY <1>3 DEF Emails!Loop
  <2>2. HeadWaits(q, ms)
    BY <1>3 DEF HeadWaits
  <2> QED  BY <1>2, <2>1, <2>2, Resting
<1>4. CASE q # <<>>
  <2>1. PICK h : h = q[1]
    OBVIOUS
  <2>2. h \in 0 .. n
    <3>1. q[1] \in 0 .. Len(ms)
      BY <1>4
    <3> QED  BY <1>1, <2>1, <3>1
  <2>3. CASE h # 0 /\ ms[h].scheduledFor > emailTime
    <3>1. isProcessing' = FALSE /\ emailSent' = 0 /\ crashed' = FALSE
      BY <2>1, <2>3 DEF Emails!Loop
    <3>2. ms[h] \in QueuedMails
      BY <1>2, <2>2, <2>3
    <3>3. ms[h].scheduledFor \in Nat /\ emailTime \in Nat
      <4>1. ms[h].scheduledFor \in MailSchedules
        BY <3>2 DEF QueuedMails
      <4>2. emailTime \in Nat
        BY DEF MailQueueLimits
      <4> QED  BY <4>1, <4>2 DEF MailQueueLimits
    <3>4. ms[h].scheduledFor > 0
      BY <2>3, <3>3
    <3>5. HeadWaits(q, ms)
      BY <2>1, <2>3, <3>4 DEF HeadWaits
    <3> QED  BY <1>2, <3>1, <3>5, Resting
  <2>4. CASE ~(h # 0 /\ ms[h].scheduledFor > emailTime)
    <3>1. isProcessing' = TRUE /\ emailSent' = h /\ crashed' = (h = 0)
      BY <1>4, <2>1, <2>4 DEF Emails!Loop
    <3> QED  BY <1>1, <1>2, <2>2, <3>1 DEF EmailsOK
  <2> QED  BY <2>3, <2>4
<1> QED  BY <1>3, <1>4

LEMMA QueueEmailStep ==
  ASSUME MailQueueLimits, EmailInv, NEW p \in MailPriorities, NEW at \in MailSchedules,
         NEW to \in {0, 1}, Emails!QueueEmail(p, at, to)
  PROVE  EmailInv'
<1>1. PICK q, ms, on, sent : q = emailQueue /\ ms = emails /\ on = isProcessing /\ sent = emailSent
  OBVIOUS
<1>2. EmailsOK(q, ms, on, sent) /\ emailTime \in 0 .. MaxMailTime /\ crashed \in BOOLEAN
  BY <1>1 DEF EmailInv
<1>3. PICK m : m = [priority |-> p, scheduledFor |-> at, recipients |-> to, retries |-> 0,
                    end |-> "queued"]
  OBVIOUS
<1>4. m \in QueuedMails
  BY <1>3 DEF QueuedMails
<1>5. PICK n : n = Len(ms)
  OBVIOUS
<1>6. /\ n \in Nat /\ ms \in Seq(QueuedMails) /\ q \in Seq(0 .. n) /\ sent \in 0 .. n
      /\ n < MaxMails /\ MaxMails \in Nat
  BY <1>1, <1>2, <1>5 DEF EmailsOK, Emails!QueueEmail, MailQueueLimits
<1>7. PICK ns : ns = Append(ms, m)
  OBVIOUS
<1>8. ns \in Seq(QueuedMails) /\ Len(ns) = n + 1 /\ Len(ns) <= MaxMails
  BY <1>4, <1>5, <1>6, <1>7
<1>9. PICK s : s = Append(q, n + 1)
  OBVIOUS
<1>10. s \in Seq(0 .. n + 1)
  <2>1. 0 .. n \subseteq 0 .. n + 1 /\ n + 1 \in 0 .. n + 1
    BY <1>6
  <2>2. q \in Seq(0 .. n + 1)
    BY <1>6, <2>1, LargerSeq
  <2> QED  BY <1>9, <2>1, <2>2
<1>11. PICK t : t = Emails!Sorted(s, ns)
  OBVIOUS
<1>12. t \in Seq(0 .. Len(ns))
  BY <1>8, <1>10, <1>11, MailsSorted
<1>13. emails' = ns /\ emailQueue' = t /\ UNCHANGED emailTime
  BY <1>1, <1>3, <1>7, <1>8, <1>9, <1>11 DEF Emails!QueueEmail, Emails!Queued
<1>14. CASE isProcessing
  <2>1. UNCHANGED <<isProcessing, emailSent, crashed>>
    BY <1>14 DEF Emails!QueueEmail, Emails!Queued
  <2>2. sent \in 0 .. Len(ns)
    BY <1>6, <1>8
  <2>3. EmailsOK(t, ns, on, sent)
    BY <1>1, <1>8, <1>12, <1>14, <2>2 DEF EmailsOK
  <2> QED  BY <1>1, <1>2, <1>13, <2>1, <2>3 DEF EmailInv
<1>15. CASE ~isProcessing
  <2>1. Emails!Loop(t, ns)
    BY <1>1, <1>3, <1>7, <1>8, <1>9, <1>11, <1>15 DEF Emails!QueueEmail, Emails!Queued
  <2>2. EmailsOK(t, ns, isProcessing', emailSent') /\ crashed' \in BOOLEAN
    BY <1>2, <1>8, <1>12, <2>1, LoopStep
  <2> QED  BY <1>2, <1>13, <2>2 DEF EmailInv
<1> QED  BY <1>14, <1>15

\* While the loop is on, the queue may change under it in any way.
LEMMA LoopIsOn ==
  ASSUME NEW q, NEW ms, NEW sent, EmailsOK(q, ms, TRUE, sent),
         NEW ns \in Seq(QueuedMails), Len(ns) = Len(ms), NEW r \in Seq(0 .. Len(ms))
  PROVE  EmailsOK(r, ns, TRUE, 0)
<1>1. Len(ms) \in Nat
  BY DEF EmailsOK
<1> QED  BY <1>1 DEF EmailsOK

LEMMA RestIs ==
  ASSUME NEW S, NEW q \in Seq(S)
  PROVE  Emails!Rest(q) \in Seq(S) /\ (q # <<>> => q[1] \in S)
BY DEF Emails!Rest

LEMMA LeavesIs ==
  ASSUME NEW ms \in Seq(QueuedMails), NEW q \in Seq(0 .. Len(ms)), NEW how \in {"sent", "failed"}
  PROVE  /\ Emails!Leaves(q, ms, how) \in Seq(QueuedMails)
         /\ Len(Emails!Leaves(q, ms, how)) = Len(ms)
<1>1. PICK n : n = Len(ms)
  OBVIOUS
<1>2. n \in Nat /\ ms \in [1 .. n -> QueuedMails]
  BY <1>1
<1>3. CASE q = <<>> \/ q[1] = 0
  BY <1>3 DEF Emails!Leaves
<1>4. CASE q # <<>> /\ q[1] # 0
  <2>1. PICK h : h = q[1]
    OBVIOUS
  <2>2. h \in 1 .. n
    <3>1. q[1] \in 0 .. Len(ms)
      BY <1>4
    <3> QED  BY <1>1, <1>2, <1>4, <2>1, <3>1
  <2>3. Emails!Leaves(q, ms, how) = [ms EXCEPT ![h].end = how]
    BY <1>4, <2>1 DEF Emails!Leaves
  <2>4. [ms EXCEPT ![h].end = how] \in [1 .. n -> QueuedMails]
    BY <1>2, <2>2 DEF QueuedMails
  <2> QED  BY <1>1, <1>2, <2>3, <2>4, IsSeq
<1> QED  BY <1>3, <1>4

LEMMA SentStep ==
  ASSUME MailQueueLimits, EmailInv, Emails!Sent \/ Emails!SendFailed PROVE EmailInv'
<1>1. PICK q, ms, x : q = emailQueue /\ ms = emails /\ x = emailSent
  OBVIOUS
<1>2. /\ x # 0 /\ emailSent' = 0 /\ isProcessing = TRUE /\ isProcessing' = TRUE
      /\ UNCHANGED <<crashed, emailTime>>
  BY <1>1 DEF Emails!Sent, Emails!SendFailed, EmailInv, EmailsOK
<1>3. EmailsOK(q, ms, TRUE, x) /\ crashed \in BOOLEAN /\ emailTime \in 0 .. MaxMailTime
  BY <1>1, <1>2 DEF EmailInv
<1>4. ms \in Seq(QueuedMails) /\ q \in Seq(0 .. Len(ms)) /\ x \in 1 .. Len(ms) /\ Len(ms) \in Nat
  BY <1>2, <1>3 DEF EmailsOK
<1>5. SUFFICES emails' \in Seq(QueuedMails) /\ Len(emails') = Len(ms) /\ emailQueue' \in Seq(0 .. Len(ms))
  <2> PICK r, ns : r = emailQueue' /\ ns = emails'
    OBVIOUS
  <2>1. EmailsOK(r, ns, TRUE, 0)
    BY <1>3, <1>5, LoopIsOn
  <2> QED  BY <1>2, <1>3, <2>1 DEF EmailInv
<1>6. CASE Emails!Sent
  <2>1. emailQueue' = Emails!Rest(q) /\ emails' = Emails!Leaves(q, ms, "sent")
    BY <1>1, <1>6 DEF Emails!Sent
  <2> QED  BY <1>4, <2>1, RestIs, LeavesIs
<1>7. CASE Emails!SendFailed
  <2>1. PICK ns : ns = [ms EXCEPT ![x].retries = @ + 1]
    OBVIOUS
  <2>2. PICK n : n = Len(ms)
    OBVIOUS
  <2>3. ns \in Seq(QueuedMails) /\ Len(ns) = Len(ms)
    <3>1. n \in Nat /\ ms \in [1 .. n -> QueuedMails] /\ x \in 1 .. n
      BY <1>4, <2>2
    <3>2. ns \in [1 .. n -> QueuedMails]
      BY <2>1, <3>1 DEF QueuedMails
    <3> QED  BY <2>2, <3>1, <3>2, IsSeq
  <2>4. CASE ns[x].retries >= mailRetries
    <3>1. emailQueue' = Emails!Rest(q) /\ emails' = Emails!Leaves(q, ns, "failed")
      BY <1>1, <1>7, <2>1, <2>4 DEF Emails!SendFailed
    <3>2. q \in Seq(0 .. Len(ns))
      BY <1>4, <2>3
    <3>3. Emails!Leaves(q, ns, "failed") \in Seq(QueuedMails) /\ Len(Emails!Leaves(q, ns, "failed")) = Len(ns)
      BY <2>3, <3>2, LeavesIs
    <3> QED  BY <1>4, <2>3, <3>1, <3>3, RestIs
  <2>5. CASE ~(ns[x].retries >= mailRetries)
    <3>1. PICK l, e : l = Emails!Rest(q) /\ e = IF q = <<>> THEN 0 ELSE q[1]
      OBVIOUS
    <3>2. emailQueue' = Append(l, e) /\ emails' = ns
      BY <1>1, <1>7, <2>1, <2>5, <3>1 DEF Emails!SendFailed
    <3>3. l \in Seq(0 .. Len(ms)) /\ e \in 0 .. Len(ms)
      <4>1. q \in Seq(0 .. Len(ms)) /\ Len(ms) \in Nat
        BY <1>4
      <4>2. l \in Seq(0 .. Len(ms)) /\ (q # <<>> => q[1] \in 0 .. Len(ms))
        BY <3>1, <4>1, RestIs
      <4> QED  BY <3>1, <4>1, <4>2
    <3>4. Append(l, e) \in Seq(0 .. Len(ms))
      BY <3>3
    <3> QED  BY <2>3, <3>2, <3>4
  <2> QED  BY <2>4, <2>5
<1> QED  BY <1>6, <1>7

LEMMA EmailInit == ASSUME MailQueueLimits, Emails!Init PROVE EmailInv
<1>1. <<>> \in Seq(QueuedMails) /\ <<>> \in Seq(0 .. Len(<<>>)) /\ Len(<<>>) = 0
  OBVIOUS
<1>2. PICK e : e = <<>>
  OBVIOUS
<1>3. e \in Seq(QueuedMails) /\ Len(e) <= MaxMails /\ e \in Seq(0 .. Len(e)) /\ HeadWaits(e, e)
  BY <1>1, <1>2 DEF HeadWaits, MailQueueLimits
<1>4. EmailsOK(e, e, FALSE, 0)
  BY <1>3, Resting
<1>5. EmailsOK(emailQueue, emails, isProcessing, emailSent)
  <2>1. emailQueue = e /\ emails = e /\ isProcessing = FALSE /\ emailSent = 0
    BY <1>2 DEF Emails!Init
  <2> QED  BY <1>4, <2>1
<1>6. crashed \in BOOLEAN /\ emailTime \in 0 .. MaxMailTime
  <2>1. crashed = FALSE /\ emailTime = 0
    BY DEF Emails!Init
  <2>2. crashed \in BOOLEAN
    BY <2>1
  <2>3. emailTime \in 0 .. MaxMailTime
    BY <2>1 DEF MailQueueLimits
  <2> QED  BY <2>2, <2>3
<1> QED  BY <1>5, <1>6 DEF EmailInv

LEMMA EmailNext ==
  ASSUME MailQueueLimits, EmailInv, [Emails!Next]_(Emails!vars) PROVE EmailInv'
<1>1. CASE UNCHANGED Emails!vars
  BY <1>1 DEF EmailInv, Emails!vars
<1>2. CASE Emails!NextMail
  <2>1. PICK q, ms : q = emailQueue /\ ms = emails
    OBVIOUS
  <2>2. /\ Emails!Loop(q, ms) /\ emailTime \in 0 .. MaxMailTime /\ ms \in Seq(QueuedMails)
        /\ Len(ms) <= MaxMails /\ q \in Seq(0 .. Len(ms))
        /\ emailQueue' = q /\ emails' = ms /\ emailTime' = emailTime
    BY <1>2, <2>1 DEF EmailInv, EmailsOK, Emails!NextMail
  <2> QED  BY <2>2, LoopStep DEF EmailInv
<1>3. CASE Emails!ClearQueue
  <2>1. PICK ms, ns, on, x : ms = emails /\ ns = emails' /\ on = isProcessing /\ x = emailSent
    OBVIOUS
  <2>2. PICK n : n = Len(ms)
    OBVIOUS
  <2>3. /\ n \in Nat /\ ms \in [1 .. n -> QueuedMails] /\ n <= MaxMails
        /\ x \in 0 .. n /\ on \in BOOLEAN /\ (x # 0 => on)
    BY <2>1, <2>2 DEF EmailInv, EmailsOK
  <2>4. ns = [id \in DOMAIN ms |-> IF ms[id].end = "queued" THEN [ms[id] EXCEPT !.end = "cleared"]
                                   ELSE ms[id]]
    BY <1>3, <2>1 DEF Emails!ClearQueue
  <2>5. ns \in [1 .. n -> QueuedMails]
    BY <2>3, <2>4 DEF QueuedMails
  <2>6. ns \in Seq(QueuedMails) /\ Len(ns) = n
    BY <2>3, <2>5, IsSeq
  <2>7. EmailsOK(<<>>, ns, on, x)
    BY <2>3, <2>6 DEF EmailsOK, HeadWaits
  <2> QED  BY <1>3, <2>1, <2>7 DEF Emails!ClearQueue, EmailInv
<1>4. CASE Emails!Tick
  <2>1. emailTime' \in 0 .. MaxMailTime
    BY <1>4 DEF Emails!Tick, EmailInv, MailQueueLimits
  <2> QED  BY <1>4, <2>1 DEF Emails!Tick, EmailInv
<1> QED  BY <1>1, <1>2, <1>3, <1>4, QueueEmailStep, SentStep DEF Emails!Next

LEMMA EmailSpec == ASSUME MailQueueLimits PROVE Emails!Spec => []EmailInv
<1>1. Emails!Init => EmailInv
  BY EmailInit
<1>2. EmailInv /\ [Emails!Next]_(Emails!vars) => EmailInv'
  BY EmailNext
<1> QED  BY <1>1, <1>2, PTL DEF Emails!Spec

LEMMA EmailPromise == ASSUME EmailInv PROVE Emails!RestsBeforeScheduled
BY DEF EmailInv, EmailsOK, HeadWaits, Emails!RestsBeforeScheduled

\* Sets that have nothing in common keep no more together than there is.
LEMMA KeptFit ==
  ASSUME NEW A, NEW s \in Seq(A), NEW S, NEW T, NEW U, NEW V,
         \A x : /\ ~(x \in S /\ x \in T) /\ ~(x \in S /\ x \in U) /\ ~(x \in S /\ x \in V)
                /\ ~(x \in T /\ x \in U) /\ ~(x \in T /\ x \in V) /\ ~(x \in U /\ x \in V)
  PROVE  Len(Emails!Kept(s, S)) + Len(Emails!Kept(s, T)) + Len(Emails!Kept(s, U))
           + Len(Emails!Kept(s, V)) <= Len(s)
<1>1. PICK n : n = Len(s)
  OBVIOUS
<1>2. n \in Nat /\ \A i \in 1 .. n : s[i] \in A
  BY <1>1
<1>3. PICK f : KeptSteps(A, s, S, n, f) /\ Emails!Kept(s, S) = f[n]
  BY <1>1, MailPlaces
<1>4. PICK g : KeptSteps(A, s, T, n, g) /\ Emails!Kept(s, T) = g[n]
  BY <1>1, MailPlaces
<1>5. PICK h : KeptSteps(A, s, U, n, h) /\ Emails!Kept(s, U) = h[n]
  BY <1>1, MailPlaces
<1>6. PICK k : KeptSteps(A, s, V, n, k) /\ Emails!Kept(s, V) = k[n]
  BY <1>1, MailPlaces
<1> DEFINE All(i) == Len(f[i]) + Len(g[i]) + Len(h[i]) + Len(k[i])
           W == {i \in 0 .. n : ~(All(i) <= i)}
<1>7. ASSUME NEW i \in 0 .. n
      PROVE  Len(f[i]) \in Nat /\ Len(g[i]) \in Nat /\ Len(h[i]) \in Nat /\ Len(k[i]) \in Nat
  <2>1. f[i] \in Seq(A) /\ g[i] \in Seq(A) /\ h[i] \in Seq(A) /\ k[i] \in Seq(A)
    BY <1>3, <1>4, <1>5, <1>6 DEF KeptSteps
  <2> QED  BY <2>1
<1>8. W = {}
  <2>1. SUFFICES ASSUME W # {} PROVE FALSE
    OBVIOUS
  <2>2. W \subseteq Nat
    <3>1. W \subseteq 0 .. n
      <4> HIDE DEF All
      <4> QED  OBVIOUS
    <3>2. 0 .. n \subseteq Nat
      BY <1>2
    <3> HIDE DEF W
    <3> QED  BY <3>1, <3>2
  <2>3. \A i \in 0 .. n : i \notin W => All(i) <= i
    OBVIOUS
  <2>4. PICK i \in W : \A m \in W : i <= m
    BY <2>1, <2>2, LeastNumber
  <2>5. i \in 0 .. n /\ ~(All(i) <= i)
    OBVIOUS
  <2> HIDE DEF W
  <2>6. i # 0
    <3>1. ASSUME i = 0 PROVE All(i) = 0
      <4>1. f[0] = <<>> /\ g[0] = <<>> /\ h[0] = <<>> /\ k[0] = <<>>
        BY <1>3, <1>4, <1>5, <1>6, <2>5, <3>1 DEF KeptSteps
      <4> QED  BY <3>1, <4>1
    <3> HIDE DEF All
    <3> QED  BY <2>5, <3>1
  <2>7. PICK j : j = i - 1
    OBVIOUS
  <2>8. j \in 0 .. n /\ j + 1 = i /\ ~(i <= j)
    BY <1>2, <2>5, <2>6, <2>7
  <2>9. All(j) <= j
    BY <2>3, <2>4, <2>8
  <2>10. PICK x : x = s[i]
    OBVIOUS
  <2>11. x \in A
    BY <1>2, <2>5, <2>6, <2>10
  <2>12. ASSUME NEW B, NEW t, KeptSteps(A, s, B, n, t)
         PROVE  Len(t[i]) = Len(t[j]) + (IF x \in B THEN 1 ELSE 0)
    <3>1. t[i] = (IF x \in B THEN Append(t[j], x) ELSE t[j]) /\ t[j] \in Seq(A)
      BY <2>5, <2>6, <2>7, <2>8, <2>10, <2>12 DEF KeptSteps
    <3>2. PICK l : l = t[j]
      OBVIOUS
    <3>3. l \in Seq(A) /\ Len(Append(l, x)) = Len(l) + 1 /\ Len(l) \in Nat
      BY <2>11, <3>1, <3>2
    <3> HIDE DEF All, W
    <3>4. CASE x \in B
      BY <3>1, <3>2, <3>3, <3>4
    <3>5. CASE x \notin B
      BY <3>1, <3>2, <3>3, <3>5
    <3> QED  BY <3>4, <3>5
  <2>13. /\ Len(f[i]) = Len(f[j]) + (IF x \in S THEN 1 ELSE 0)
         /\ Len(g[i]) = Len(g[j]) + (IF x \in T THEN 1 ELSE 0)
         /\ Len(h[i]) = Len(h[j]) + (IF x \in U THEN 1 ELSE 0)
         /\ Len(k[i]) = Len(k[j]) + (IF x \in V THEN 1 ELSE 0)
    BY <1>3, <1>4, <1>5, <1>6, <2>12
  <2>14. PICK p, q, r, t : p = Len(f[j]) /\ q = Len(g[j]) /\ r = Len(h[j]) /\ t = Len(k[j])
    OBVIOUS
  <2>15. p \in Nat /\ q \in Nat /\ r \in Nat /\ t \in Nat /\ p + q + r + t <= j
    BY <1>7, <2>8, <2>9, <2>14
  <2>16. All(i) <= p + q + r + t + 1
    <3>1. PICK ps, pt, pu, pv : /\ ps = (IF x \in S THEN 1 ELSE 0) /\ pt = (IF x \in T THEN 1 ELSE 0)
                                /\ pu = (IF x \in U THEN 1 ELSE 0) /\ pv = (IF x \in V THEN 1 ELSE 0)
      OBVIOUS
    <3>2. /\ ~(x \in S /\ x \in T) /\ ~(x \in S /\ x \in U) /\ ~(x \in S /\ x \in V)
          /\ ~(x \in T /\ x \in U) /\ ~(x \in T /\ x \in V) /\ ~(x \in U /\ x \in V)
      OBVIOUS
    <3>3. /\ ps \in {0, 1} /\ pt \in {0, 1} /\ pu \in {0, 1} /\ pv \in {0, 1}
          /\ ~(ps = 1 /\ pt = 1) /\ ~(ps = 1 /\ pu = 1) /\ ~(ps = 1 /\ pv = 1)
          /\ ~(pt = 1 /\ pu = 1) /\ ~(pt = 1 /\ pv = 1) /\ ~(pu = 1 /\ pv = 1)
      BY <3>1, <3>2
    <3>4. ps + pt + pu + pv <= 1
      BY <3>3
    <3>5. All(i) = (p + ps) + (q + pt) + (r + pu) + (t + pv)
      BY <2>13, <2>14, <3>1
    <3> HIDE DEF All
    <3> QED  BY <2>15, <3>3, <3>4, <3>5
  <2>17. All(i) \in Nat
    <3>1. Len(f[i]) \in Nat /\ Len(g[i]) \in Nat /\ Len(h[i]) \in Nat /\ Len(k[i]) \in Nat
      BY <1>7, <2>5
    <3>2. PICK u, v, w, z : u = Len(f[i]) /\ v = Len(g[i]) /\ w = Len(h[i]) /\ z = Len(k[i])
      OBVIOUS
    <3>3. u + v + w + z \in Nat
      <4>1. u \in Nat /\ v \in Nat /\ w \in Nat /\ z \in Nat
        BY <3>1, <3>2
      <4> HIDE DEF All
      <4> QED  BY <4>1
    <3>4. All(i) = u + v + w + z
      BY <3>2
    <3> HIDE DEF All
    <3> QED  BY <3>3, <3>4
  <2> HIDE DEF All
  <2> QED  BY <2>5, <2>8, <2>15, <2>16, <2>17
<1>9. All(n) <= n
  <2>1. n \in 0 .. n
    BY <1>2
  <2>2. n \notin W
    BY <1>8
  <2> QED  BY <2>1, <2>2
<1> QED  BY <1>1, <1>3, <1>4, <1>5, <1>6, <1>9

LEMMA Concatenated ==
  ASSUME NEW A, NEW a \in Seq(A), NEW b \in Seq(A)
  PROVE  a \o b \in Seq(A) /\ Len(a \o b) = Len(a) + Len(b)
OBVIOUS

LEMMA SortedFits ==
  ASSUME NEW A, NEW s \in Seq(A), NEW ms, 0 \notin DOMAIN ms
  PROVE  Len(Emails!Sorted(s, ms)) <= Len(s)
<1> DEFINE P(p) == {id \in DOMAIN ms : ms[id].priority = p}
<1>1. PICK S, T, U, V : S = P(0) /\ T = P(1) /\ U = P(2) /\ V = {0}
  OBVIOUS
<1>2. \A x : /\ ~(x \in S /\ x \in T) /\ ~(x \in S /\ x \in U) /\ ~(x \in S /\ x \in V)
             /\ ~(x \in T /\ x \in U) /\ ~(x \in T /\ x \in V) /\ ~(x \in U /\ x \in V)
  BY <1>1
<1>3. PICK a, b, c, d : a = Emails!Kept(s, S) /\ b = Emails!Kept(s, T) /\ c = Emails!Kept(s, U)
                        /\ d = Emails!Kept(s, V)
  OBVIOUS
<1>4. Emails!Sorted(s, ms) = a \o b \o c \o d
  BY <1>1, <1>3 DEF Emails!Sorted
<1>5. a \in Seq(A) /\ b \in Seq(A) /\ c \in Seq(A) /\ d \in Seq(A)
  BY <1>3, MailsKept
<1>6. Len(a) + Len(b) + Len(c) + Len(d) <= Len(s)
  BY <1>2, <1>3, KeptFit
<1>7. Len(a \o b \o c \o d) = Len(a) + Len(b) + Len(c) + Len(d)
  <2>1. PICK e : e = a \o b
    OBVIOUS
  <2>2. e \in Seq(A) /\ Len(e) = Len(a) + Len(b)
    BY <1>5, <2>1, Concatenated
  <2>3. PICK h : h = e \o c
    OBVIOUS
  <2>4. h \in Seq(A) /\ Len(h) = Len(e) + Len(c)
    BY <1>5, <2>2, <2>3, Concatenated
  <2>5. Len(h \o d) = Len(h) + Len(d)
    BY <1>5, <2>4, Concatenated
  <2> QED  BY <2>1, <2>2, <2>3, <2>4, <2>5
<1> QED  BY <1>4, <1>6, <1>7

\* The mails that used up no more than k retries beyond their own, and 0.
Untired(ms, k) == {0} \cup {id \in DOMAIN ms : ms[id].retries <= mailRetries + k}
AtLeastOne(q) == IF q = <<>> THEN 1 ELSE Len(q)

\* A mail is tried again beyond its own retries only when another mail was dropped in its stead.
Retried(q, ms, sent) ==
    /\ Len(q) <= Len(ms) /\ q \in Seq(Untired(ms, Len(ms) - Len(q)))
    /\ sent \in Untired(ms, Len(ms) - AtLeastOne(q))
    /\ \A id \in DOMAIN ms : ms[id].retries <= mailRetries + Len(ms)

SameRetries(ms, ns) ==
    /\ DOMAIN ns = DOMAIN ms /\ \A id \in DOMAIN ms : ns[id].retries = ms[id].retries

LEMMA UntiredGrow ==
  ASSUME mailRetries \in Nat, NEW ms \in Seq(QueuedMails), NEW j \in Int, NEW k \in Int, j <= k
  PROVE  Untired(ms, j) \subseteq Untired(ms, k)
<1>1. ASSUME NEW id \in DOMAIN ms PROVE ms[id].retries \in Nat
  <2>1. ms[id] \in QueuedMails
    OBVIOUS
  <2> QED  BY <2>1 DEF QueuedMails
<1> QED  BY <1>1 DEF Untired

LEMMA UntiredSame ==
  ASSUME NEW ms, NEW ns, SameRetries(ms, ns), NEW k PROVE Untired(ns, k) = Untired(ms, k)
BY DEF Untired, SameRetries

LEMMA LeavesRetries ==
  ASSUME NEW ms \in Seq(QueuedMails), NEW q \in Seq(0 .. Len(ms)), NEW how
  PROVE  SameRetries(ms, Emails!Leaves(q, ms, how))
<1>1. CASE q = <<>> \/ q[1] = 0
  BY <1>1 DEF Emails!Leaves, SameRetries
<1>2. CASE q # <<>> /\ q[1] # 0
  <2>1. PICK h : h = q[1]
    OBVIOUS
  <2>2. Emails!Leaves(q, ms, how) = [ms EXCEPT ![h].end = how]
    BY <1>2, <2>1 DEF Emails!Leaves
  <2>3. ASSUME NEW id \in DOMAIN ms PROVE [ms EXCEPT ![h].end = how][id].retries = ms[id].retries
    <3>1. ms[id] \in QueuedMails
      OBVIOUS
    <3> QED  BY <3>1 DEF QueuedMails
  <2>4. DOMAIN [ms EXCEPT ![h].end = how] = DOMAIN ms
    OBVIOUS
  <2> QED  BY <2>2, <2>3, <2>4 DEF SameRetries
<1> QED  BY <1>1, <1>2

LEMMA LoopRetried ==
  ASSUME mailRetries \in Nat, NEW q, NEW ms, Emails!Loop(q, ms), ms \in Seq(QueuedMails),
         Len(q) <= Len(ms), q \in Seq(Untired(ms, Len(ms) - Len(q))),
         \A id \in DOMAIN ms : ms[id].retries <= mailRetries + Len(ms)
  PROVE  Retried(q, ms, emailSent')
<1>1. 0 \in Untired(ms, Len(ms) - AtLeastOne(q))
  BY DEF Untired
<1>2. CASE emailSent' = 0
  BY <1>1, <1>2 DEF Retried
<1>3. CASE emailSent' # 0
  <2>1. q # <<>> /\ emailSent' = q[1]
    BY <1>3 DEF Emails!Loop
  <2>2. q[1] \in Untired(ms, Len(ms) - Len(q))
    BY <2>1
  <2>3. AtLeastOne(q) = Len(q)
    BY <2>1 DEF AtLeastOne
  <2> QED  BY <2>1, <2>2, <2>3 DEF Retried
<1> QED  BY <1>2, <1>3

\* What EmailInv says of the lists.
LEMMA MailLists ==
  ASSUME EmailInv, NEW q, NEW ms, NEW x, q = emailQueue, ms = emails, x = emailSent
  PROVE  /\ ms \in Seq(QueuedMails) /\ Len(ms) \in Nat /\ Len(ms) <= MaxMails
         /\ q \in Seq(0 .. Len(ms)) /\ Len(q) \in Nat /\ x \in 0 .. Len(ms)
BY DEF EmailInv, EmailsOK

LEMMA QueueRetried ==
  ASSUME MailQueueLimits, mailRetries \in Nat, EmailInv, Retried(emailQueue, emails, emailSent),
         NEW p \in MailPriorities, NEW at \in MailSchedules, NEW to \in {0, 1},
         Emails!QueueEmail(p, at, to)
  PROVE  Retried(emailQueue', emails', emailSent')
<1>1. PICK q, ms, x : q = emailQueue /\ ms = emails /\ x = emailSent
  OBVIOUS
<1>2. PICK n, l : n = Len(ms) /\ l = Len(q)
  OBVIOUS
<1>3. /\ ms \in Seq(QueuedMails) /\ n \in Nat /\ q \in Seq(0 .. n) /\ l \in Nat
      /\ x \in 0 .. n
  BY <1>1, <1>2, MailLists
<1>4. PICK m : m = [priority |-> p, scheduledFor |-> at, recipients |-> to, retries |-> 0,
                    end |-> "queued"]
  OBVIOUS
<1>5. m \in QueuedMails /\ m.retries = 0
  BY <1>4 DEF QueuedMails
<1>6. PICK ns : ns = Append(ms, m)
  OBVIOUS
<1>7. /\ ns \in Seq(QueuedMails) /\ Len(ns) = n + 1 /\ DOMAIN ns = 1 .. n + 1
      /\ DOMAIN ms = 1 .. n /\ ns[n + 1] = m /\ \A id \in 1 .. n : ns[id] = ms[id]
  BY <1>2, <1>3, <1>5, <1>6
<1>8. PICK k : k = n - l
  OBVIOUS
<1>9. /\ l <= n /\ k \in Nat /\ q \in Seq(Untired(ms, k)) /\ x \in Untired(ms, n - AtLeastOne(q))
      /\ \A id \in 1 .. n : ms[id].retries <= mailRetries + n
  BY <1>1, <1>2, <1>3, <1>7, <1>8 DEF Retried
<1>10. ASSUME NEW j \in Int PROVE Untired(ms, j) \subseteq Untired(ns, j)
  <2>1. ASSUME NEW id \in 1 .. n PROVE id \in DOMAIN ns /\ ns[id] = ms[id]
    <3>1. id \in 1 .. n + 1
      BY <1>3
    <3> QED  BY <1>7, <3>1
  <2> QED  BY <1>7, <2>1 DEF Untired
<1>11. PICK s : s = Append(q, n + 1)
  OBVIOUS
<1>12. s \in Seq(Untired(ns, k)) /\ Len(s) = l + 1
  <2>1. q \in Seq(Untired(ns, k))
    <3>1. Untired(ms, k) \subseteq Untired(ns, k)
      BY <1>9, <1>10
    <3> QED  BY <1>9, <3>1, LargerSeq
  <2>2. n + 1 \in Untired(ns, k)
    <3>1. ns[n + 1].retries <= mailRetries + k /\ n + 1 \in DOMAIN ns
      BY <1>3, <1>5, <1>7, <1>9
    <3> QED  BY <3>1 DEF Untired
  <2> QED  BY <1>2, <1>11, <2>1, <2>2
<1>13. PICK t, tl : t = Emails!Sorted(s, ns) /\ tl = Len(t)
  OBVIOUS
<1>14. t \in Seq(Untired(ns, k)) /\ tl \in Nat /\ tl <= l + 1
  <2>1. t \in Seq(Untired(ns, k))
    BY <1>12, <1>13, MailsSorted
  <2>2. 0 \notin DOMAIN ns
    BY <1>7
  <2>3. Len(Emails!Sorted(s, ns)) <= Len(s)
    BY <1>12, <2>2, SortedFits
  <2>4. Len(t) \in Nat
    BY <2>1
  <2> QED  BY <1>12, <1>13, <2>1, <2>3, <2>4
<1>15. emails' = ns /\ emailQueue' = t
  BY <1>1, <1>2, <1>4, <1>6, <1>7, <1>11, <1>13 DEF Emails!QueueEmail, Emails!Queued
<1>16. Len(t) <= Len(ns) /\ t \in Seq(Untired(ns, Len(ns) - Len(t)))
  <2>1. PICK j : j = n + 1 - tl
    OBVIOUS
  <2>2. j \in Int /\ k \in Int /\ k <= j /\ tl <= n + 1
    BY <1>3, <1>8, <1>9, <1>14, <2>1
  <2>3. Untired(ns, k) \subseteq Untired(ns, j)
    BY <1>7, <2>2, UntiredGrow
  <2>4. t \in Seq(Untired(ns, j))
    BY <1>14, <2>3, LargerSeq
  <2>5. Len(ns) - Len(t) = j /\ Len(t) <= Len(ns)
    BY <1>3, <1>7, <1>13, <1>14, <2>1, <2>2
  <2> QED  BY <2>4, <2>5
<1>17. \A id \in DOMAIN ns : ns[id].retries <= mailRetries + Len(ns)
  <2> SUFFICES ASSUME NEW id \in 1 .. n + 1 PROVE ns[id].retries <= mailRetries + (n + 1)
    BY <1>7
  <2>1. CASE id = n + 1
    BY <1>3, <1>5, <1>7, <2>1
  <2>2. CASE id # n + 1
    <3>1. id \in 1 .. n
      BY <1>3, <2>2
    <3>2. ms[id] \in QueuedMails
      BY <1>3, <1>7, <3>1
    <3>3. ms[id].retries \in Nat
      BY <3>2 DEF QueuedMails
    <3>4. ns[id] = ms[id] /\ ms[id].retries <= mailRetries + n
      BY <1>7, <1>9, <3>1
    <3> QED  BY <1>3, <3>3, <3>4
  <2> QED  BY <2>1, <2>2
<1>18. CASE isProcessing
  <2>1. emailSent' = x
    BY <1>1, <1>18 DEF Emails!QueueEmail, Emails!Queued
  <2>2. PICK a, b : a = AtLeastOne(q) /\ b = AtLeastOne(t)
    OBVIOUS
  <2>3. a \in Nat /\ b \in Nat /\ b <= a + 1
    <3>1. a \in Nat /\ l <= a
      BY <1>2, <1>3, <2>2 DEF AtLeastOne
    <3>2. b \in Nat /\ b <= l + 1
      BY <1>3, <1>13, <1>14, <2>2 DEF AtLeastOne
    <3> QED  BY <1>3, <3>1, <3>2
  <2>4. n - a \in Int /\ n + 1 - b \in Int /\ n - a <= n + 1 - b
    BY <1>3, <2>3
  <2>5. x \in Untired(ns, n - a)
    BY <1>9, <1>10, <2>2, <2>4
  <2>6. x \in Untired(ns, n + 1 - b)
    BY <1>7, <2>4, <2>5, UntiredGrow
  <2>7. x \in Untired(ns, Len(ns) - AtLeastOne(t))
    <3>1. Len(ns) - AtLeastOne(t) = n + 1 - b
      BY <1>3, <1>7, <2>2, <2>3
    <3> QED  BY <2>6, <3>1
  <2>8. Retried(t, ns, x)
    BY <1>16, <1>17, <2>7 DEF Retried
  <2> QED  BY <1>15, <2>1, <2>8
<1>19. CASE ~isProcessing
  <2>1. Emails!Loop(t, ns)
    BY <1>1, <1>2, <1>4, <1>6, <1>7, <1>11, <1>13, <1>19 DEF Emails!QueueEmail, Emails!Queued
  <2> QED  BY <1>7, <1>15, <1>16, <1>17, <2>1, LoopRetried
<1> QED  BY <1>18, <1>19

\* What leaves the queue when a send has ended.
LEMMA SentRetried ==
  ASSUME MailQueueLimits, mailRetries \in Nat, EmailInv, Retried(emailQueue, emails, emailSent),
         Emails!Sent \/ Emails!SendFailed
  PROVE  Retried(emailQueue', emails', emailSent')
<1>1. PICK q, ms, x : q = emailQueue /\ ms = emails /\ x = emailSent
  OBVIOUS
<1>2. PICK n, l : n = Len(ms) /\ l = Len(q)
  OBVIOUS
<1>3. /\ ms \in Seq(QueuedMails) /\ n \in Nat /\ q \in Seq(0 .. n) /\ l \in Nat
      /\ x \in 0 .. n
  BY <1>1, <1>2, MailLists
<1>4. x \in 1 .. n /\ emailSent' = 0
  BY <1>1, <1>3 DEF Emails!Sent, Emails!SendFailed
<1>5. DOMAIN ms = 1 .. n /\ \A id \in 1 .. n : ms[id] \in QueuedMails
  BY <1>2, <1>3
<1>6. \A id \in 1 .. n : ms[id].retries \in Nat
  BY <1>5 DEF QueuedMails
<1>7. PICK k : k = n - l
  OBVIOUS
<1>8. /\ l <= n /\ k \in Nat /\ q \in Seq(Untired(ms, k)) /\ x \in Untired(ms, n - AtLeastOne(q))
      /\ \A id \in 1 .. n : ms[id].retries <= mailRetries + n
  BY <1>1, <1>2, <1>3, <1>5, <1>7 DEF Retried
<1>9. ms[x].retries <= mailRetries + (n - AtLeastOne(q))
  BY <1>4, <1>8 DEF Untired
<1>10. PICK r, rl : r = Emails!Rest(q) /\ rl = Len(r)
  OBVIOUS
<1>11. r \in Seq(Untired(ms, k)) /\ rl \in Nat /\ IF q = <<>> THEN rl = 0 /\ l = 0 ELSE rl + 1 = l
  BY <1>2, <1>8, <1>10 DEF Emails!Rest
<1>12. ASSUME NEW ns, DOMAIN ns = 1 .. n, Len(ns) = n, NEW t, NEW tl \in Nat, tl = Len(t), tl <= n,
              t \in Seq(Untired(ns, n - tl)), \A id \in 1 .. n : ns[id].retries <= mailRetries + n
       PROVE  Retried(t, ns, 0)
  <2>1. 0 \in Untired(ns, n - AtLeastOne(t))
    BY DEF Untired
  <2> QED  BY <1>12, <2>1 DEF Retried
<1>13. CASE Emails!Sent
  <2>1. emailQueue' = r /\ emails' = Emails!Leaves(q, ms, "sent")
    BY <1>1, <1>10, <1>13 DEF Emails!Sent
  <2>2. PICK ns : ns = Emails!Leaves(q, ms, "sent")
    OBVIOUS
  <2>3. q \in Seq(0 .. Len(ms))
    BY <1>2, <1>3
  <2>4. SameRetries(ms, ns) /\ ns \in Seq(QueuedMails) /\ Len(ns) = n /\ DOMAIN ns = 1 .. n
    BY <1>2, <1>3, <1>5, <2>2, <2>3, LeavesRetries, LeavesIs DEF SameRetries
  <2>5. \A id \in 1 .. n : ns[id].retries <= mailRetries + n
    BY <1>5, <1>8, <2>4 DEF SameRetries
  <2>6. n - rl \in Int /\ k <= n - rl /\ rl <= n
    BY <1>3, <1>7, <1>8, <1>11
  <2>7. r \in Seq(Untired(ms, n - rl))
    <3>1. Untired(ms, k) \subseteq Untired(ms, n - rl)
      BY <1>3, <1>8, <2>6, UntiredGrow
    <3> QED  BY <1>11, <3>1, LargerSeq
  <2>8. Untired(ns, n - rl) = Untired(ms, n - rl)
    BY <2>4, UntiredSame
  <2>9. Retried(r, ns, 0)
    BY <1>10, <1>11, <1>12, <2>4, <2>5, <2>6, <2>7, <2>8
  <2> QED  BY <1>4, <2>1, <2>2, <2>9
<1>14. CASE Emails!SendFailed
  <2>1. PICK ns : ns = [ms EXCEPT ![x].retries = @ + 1]
    OBVIOUS
  <2>2. /\ DOMAIN ns = 1 .. n /\ ns[x].retries = ms[x].retries + 1
        /\ \A id \in 1 .. n : id # x => ns[id] = ms[id]
    BY <1>4, <1>5, <2>1 DEF QueuedMails
  <2>3. ns \in Seq(QueuedMails) /\ Len(ns) = n
    <3>1. ms \in [1 .. n -> QueuedMails]
      BY <1>2, <1>3
    <3>2. ns \in [1 .. n -> QueuedMails]
      BY <1>4, <2>1, <3>1 DEF QueuedMails
    <3> QED  BY <1>3, <3>2, IsSeq
  <2>4. PICK a : a = AtLeastOne(q)
    OBVIOUS
  <2>5. a \in Nat /\ 1 <= a /\ (q # <<>> => a = l)
    <3>1. q # <<>> => l >= 1
      BY <1>2, <1>3
    <3> QED  BY <1>2, <1>3, <2>4, <3>1 DEF AtLeastOne
  <2>6. \A id \in 1 .. n : ns[id].retries <= mailRetries + n
    <3> TAKE id \in 1 .. n
    <3>1. CASE id = x
      <4>1. PICK y : y = ms[x].retries
        OBVIOUS
      <4>2. y \in Nat /\ y <= mailRetries + (n - a)
        BY <1>4, <1>6, <1>9, <2>4, <4>1
      <4>3. y + 1 <= mailRetries + n
        BY <1>3, <2>5, <4>2
      <4> QED  BY <2>2, <3>1, <4>1, <4>3
    <3>2. CASE id # x
      BY <1>8, <2>2, <3>2
    <3> QED  BY <3>1, <3>2
  <2>7. CASE ns[x].retries >= mailRetries
    <3>1. emailQueue' = r /\ emails' = Emails!Leaves(q, ns, "failed")
      BY <1>1, <1>10, <1>14, <2>1, <2>7 DEF Emails!SendFailed
    <3>2. PICK os : os = Emails!Leaves(q, ns, "failed")
      OBVIOUS
    <3>3. q \in Seq(0 .. Len(ns))
      BY <1>3, <2>3
    <3>4. SameRetries(ns, os) /\ os \in Seq(QueuedMails) /\ Len(os) = n /\ DOMAIN os = 1 .. n
      BY <2>2, <2>3, <3>2, <3>3, LeavesRetries, LeavesIs DEF SameRetries
    <3>5. \A id \in 1 .. n : os[id].retries <= mailRetries + n
      BY <2>2, <2>6, <3>4 DEF SameRetries
    <3>6. rl <= n
      BY <1>3, <1>8, <1>11
    <3>7. r \in Seq(Untired(ns, n - rl))
      <4>1. CASE q = <<>>
        <5>1. r = <<>>
          BY <1>10, <4>1 DEF Emails!Rest
        <5> QED  BY <5>1
      <4>2. CASE q # <<>>
        <5>1. n - rl = k + 1
          BY <1>3, <1>7, <1>11, <4>2
        <5>2. ASSUME NEW id \in 1 .. n, ms[id].retries <= mailRetries + k
              PROVE  ns[id].retries <= mailRetries + (k + 1)
          <6>1. PICK y : y = ms[id].retries
            OBVIOUS
          <6>2. y \in Nat /\ y <= mailRetries + k
            BY <1>6, <5>2, <6>1
          <6>3. y <= mailRetries + (k + 1) /\ y + 1 <= mailRetries + (k + 1)
            BY <1>8, <6>2
          <6>4. CASE id = x
            BY <2>2, <6>1, <6>3, <6>4
          <6>5. CASE id # x
            BY <2>2, <6>1, <6>3, <6>5
          <6> QED  BY <6>4, <6>5
        <5>3. Untired(ms, k) \subseteq Untired(ns, k + 1)
          BY <1>5, <2>2, <5>2 DEF Untired
        <5>4. r \in Seq(Untired(ns, k + 1))
          BY <1>11, <5>3, LargerSeq
        <5> QED  BY <5>1, <5>4
      <4> QED  BY <4>1, <4>2
    <3>8. Untired(os, n - rl) = Untired(ns, n - rl)
      BY <3>4, UntiredSame
    <3>9. Retried(r, os, 0)
      BY <1>10, <1>11, <1>12, <3>4, <3>5, <3>6, <3>7, <3>8
    <3> QED  BY <1>4, <3>1, <3>2, <3>9
  <2>8. CASE ~(ns[x].retries >= mailRetries)
    <3>1. PICK e, t : e = (IF q = <<>> THEN 0 ELSE q[1]) /\ t = Append(r, e)
      OBVIOUS
    <3>2. emailQueue' = t /\ emails' = ns
      BY <1>1, <1>10, <1>14, <2>1, <2>8, <3>1 DEF Emails!SendFailed
    <3>3. Untired(ms, k) \subseteq Untired(ns, k)
      <4>1. ns[x].retries \in Nat
        BY <1>4, <1>6, <2>2
      <4>2. ns[x].retries <= mailRetries + k
        BY <1>8, <2>8, <4>1
      <4> QED  BY <1>5, <2>2, <4>2 DEF Untired
    <3>4. e \in Untired(ms, k)
      <4>1. 0 \in Untired(ms, k)
        BY DEF Untired
      <4>2. q # <<>> => q[1] \in Untired(ms, k)
        BY <1>8
      <4> QED  BY <3>1, <4>1, <4>2
    <3>5. t \in Seq(Untired(ns, k)) /\ Len(t) = rl + 1
      <4>1. r \in Seq(Untired(ns, k)) /\ e \in Untired(ns, k)
        BY <1>11, <3>3, <3>4, LargerSeq
      <4> QED  BY <1>10, <3>1, <4>1
    <3>6. CASE q # <<>>
      <4>1. rl + 1 = l /\ n - l = k
        BY <1>7, <1>11, <3>6
      <4> QED  BY <1>3, <1>4, <1>8, <1>12, <2>2, <2>3, <2>6, <3>2, <3>5, <4>1
    <3>7. CASE q = <<>>
      <4>1. rl + 1 = 1 /\ 1 <= n /\ n - 1 \in Nat
        BY <1>3, <1>4, <1>11, <3>7
      <4>2. t = <<0>>
        <5>1. r = <<>> /\ e = 0
          BY <1>10, <3>1, <3>7 DEF Emails!Rest
        <5> QED  BY <3>1, <5>1
      <4>3. t \in Seq(Untired(ns, n - 1)) /\ Len(t) = 1
        <5>1. 0 \in Untired(ns, n - 1)
          BY DEF Untired
        <5> QED  BY <4>2, <5>1
      <4> QED  BY <1>4, <1>12, <2>2, <2>3, <2>6, <3>2, <4>1, <4>3
    <3> QED  BY <3>6, <3>7
  <2> QED  BY <2>7, <2>8
<1> QED  BY <1>13, <1>14

LEMMA ClearRetried ==
  ASSUME MailQueueLimits, mailRetries \in Nat, EmailInv, Retried(emailQueue, emails, emailSent),
         Emails!ClearQueue
  PROVE  Retried(emailQueue', emails', emailSent')
<1>1. PICK q, ms, x, ns : q = emailQueue /\ ms = emails /\ x = emailSent /\ ns = emails'
  OBVIOUS
<1>2. PICK n, a : n = Len(ms) /\ a = AtLeastOne(q)
  OBVIOUS
<1>3. ms \in Seq(QueuedMails) /\ n \in Nat /\ DOMAIN ms = 1 .. n /\ Len(q) \in Nat
  BY <1>1, <1>2, MailLists
<1>4. emailQueue' = <<>> /\ emailSent' = x /\ q # <<>>
  BY <1>1 DEF Emails!ClearQueue
<1>5. ns = [id \in DOMAIN ms |-> IF ms[id].end = "queued" THEN [ms[id] EXCEPT !.end = "cleared"]
                                 ELSE ms[id]]
  BY <1>1 DEF Emails!ClearQueue
<1>6. SameRetries(ms, ns)
  <2>1. ASSUME NEW id \in DOMAIN ms PROVE ns[id].retries = ms[id].retries
    <3>1. ms[id] \in QueuedMails
      BY <1>3
    <3> QED  BY <1>5, <3>1 DEF QueuedMails
  <2> QED  BY <1>5, <2>1 DEF SameRetries
<1>7. ns \in Seq(QueuedMails) /\ Len(ns) = n
  <2>1. ms \in [1 .. n -> QueuedMails]
    BY <1>2, <1>3
  <2>2. ns \in [1 .. n -> QueuedMails]
    BY <1>3, <1>5, <2>1 DEF QueuedMails
  <2> QED  BY <1>3, <2>2, IsSeq
<1>8. a \in Nat /\ 1 <= a /\ x \in Untired(ms, n - a)
      /\ \A id \in 1 .. n : ms[id].retries <= mailRetries + n
  <2>1. Len(q) \in Nat /\ Len(q) >= 1
    <3>1. q \in Seq(0 .. n)
      BY <1>1, <1>2, MailLists
    <3> QED  BY <1>4, <3>1
  <2> QED  BY <1>1, <1>2, <1>3, <2>1 DEF Retried, AtLeastOne
<1>9. x \in Untired(ns, n - 1)
  <2>1. n - a \in Int /\ n - 1 \in Int /\ n - a <= n - 1
    BY <1>3, <1>8
  <2>2. x \in Untired(ms, n - 1)
    BY <1>3, <1>8, <2>1, UntiredGrow
  <2> QED  BY <1>6, <2>2, UntiredSame
<1>10. \A id \in DOMAIN ns : ns[id].retries <= mailRetries + n
  BY <1>3, <1>6, <1>8 DEF SameRetries
<1>11. PICK e : e = <<>>
  OBVIOUS
<1>12. Len(e) = 0 /\ e \in Seq(Untired(ns, n - Len(e))) /\ AtLeastOne(e) = 1
  BY <1>11 DEF AtLeastOne
<1>13. Retried(e, ns, x)
  BY <1>3, <1>7, <1>9, <1>10, <1>12 DEF Retried
<1> QED  BY <1>1, <1>4, <1>11, <1>13

LEMMA RetriedInit ==
  ASSUME mailRetries \in Nat, Emails!Init PROVE Retried(emailQueue, emails, emailSent)
<1>1. PICK e : e = <<>>
  OBVIOUS
<1>2. emailQueue = e /\ emails = e /\ emailSent = 0
  BY <1>1 DEF Emails!Init
<1>3. Len(e) = 0 /\ DOMAIN e = {} /\ e \in Seq(Untired(e, Len(e) - Len(e)))
  BY <1>1
<1>4. 0 \in Untired(e, Len(e) - AtLeastOne(e))
  BY DEF Untired
<1>5. Retried(e, e, 0)
  BY <1>3, <1>4 DEF Retried
<1> QED  BY <1>2, <1>5

LEMMA RetriedNext ==
  ASSUME MailQueueLimits, mailRetries \in Nat, EmailInv, Retried(emailQueue, emails, emailSent),
         [Emails!Next]_(Emails!vars)
  PROVE  Retried(emailQueue', emails', emailSent')
<1>1. CASE UNCHANGED Emails!vars
  BY <1>1 DEF Emails!vars
<1>2. CASE Emails!NextMail
  <2>1. PICK q, ms : q = emailQueue /\ ms = emails
    OBVIOUS
  <2>2. /\ Emails!Loop(q, ms) /\ ms \in Seq(QueuedMails) /\ Len(q) <= Len(ms)
        /\ q \in Seq(Untired(ms, Len(ms) - Len(q)))
        /\ \A id \in DOMAIN ms : ms[id].retries <= mailRetries + Len(ms)
    BY <1>2, <2>1, MailLists DEF Retried, Emails!NextMail
  <2>3. Retried(q, ms, emailSent')
    BY <2>2, LoopRetried
  <2> QED  BY <1>2, <2>1, <2>3 DEF Emails!NextMail
<1>3. CASE Emails!Tick
  BY <1>3 DEF Emails!Tick
<1> QED  BY <1>1, <1>2, <1>3, QueueRetried, SentRetried, ClearRetried DEF Emails!Next

\* The types of the mail queue, the bound of the retries among them: a failed send counts a
\* retry to the mail that was sent and drops the head, which may be another mail.
THEOREM MailQueueTypeCorrect ==
  ASSUME MailQueueLimits, mailRetries \in Nat PROVE Emails!Spec => []Emails!TypeOK
<1>1. Emails!Init => Retried(emailQueue, emails, emailSent)
  BY RetriedInit
<1>2. EmailInv /\ Retried(emailQueue, emails, emailSent) /\ [Emails!Next]_(Emails!vars)
        => Retried(emailQueue', emails', emailSent')
  BY RetriedNext
<1>3. ASSUME EmailInv, Retried(emailQueue, emails, emailSent) PROVE Emails!TypeOK
  <2>1. PICK ms, n : ms = emails /\ n = Len(ms)
    OBVIOUS
  <2>2. /\ ms \in [1 .. n -> QueuedMails] /\ n \in Nat /\ n <= MaxMails
        /\ emailQueue \in Seq(0 .. n) /\ emailSent \in 0 .. n
    BY <1>3, <2>1, MailLists
  <2>3. \A id \in 1 .. n : ms[id].retries <= mailRetries + n
    BY <1>3, <2>1, <2>2 DEF Retried
  <2>4. ASSUME NEW id \in 1 .. n PROVE ms[id] \in Emails!EmailQueueItem
    <3>1. PICK m : m = ms[id]
      OBVIOUS
    <3>2. m \in QueuedMails /\ m.retries \in Nat /\ m.retries <= mailRetries + n
      BY <2>2, <2>3, <3>1 DEF QueuedMails
    <3>3. m.retries \in 0 .. mailRetries + MaxMails
      <4>1. MaxMails \in Nat
        BY DEF MailQueueLimits
      <4> QED  BY <2>2, <3>2, <4>1
    <3> QED  BY <3>1, <3>2, <3>3 DEF QueuedMails, Emails!EmailQueueItem
  <2>5. ms \in Seq(Emails!EmailQueueItem)
    <3>1. ms \in [1 .. n -> Emails!EmailQueueItem]
      BY <2>2, <2>4
    <3> QED  BY <2>2, <3>1, IsSeq
  <2>6. emailQueue \in Seq(0 .. MaxMails) /\ emailSent \in 0 .. MaxMails
    <3>1. 0 .. n \subseteq 0 .. MaxMails
      BY <2>2 DEF MailQueueLimits
    <3> QED  BY <2>2, <3>1, LargerSeq
  <2>7. isProcessing \in BOOLEAN /\ crashed \in BOOLEAN /\ emailTime \in 0 .. MaxMailTime
    BY <1>3 DEF EmailInv, EmailsOK
  <2> QED  BY <2>1, <2>5, <2>6, <2>7 DEF Emails!TypeOK
<1> DEFINE R == Retried(emailQueue, emails, emailSent)
<1>4. Emails!Init => R
  BY <1>1
<1>5. EmailInv /\ R /\ [Emails!Next]_(Emails!vars) => R'
  BY <1>2
<1>6. EmailInv /\ R => Emails!TypeOK
  BY <1>3
<1> HIDE DEF R
<1> QED  BY <1>4, <1>5, <1>6, EmailSpec, PTL DEF Emails!Spec

-----------------------------------------------------------------------------
(* The queue of the webhooks.                                                *)

HookLimits ==
    /\ IsFiniteSet(HookIds) /\ hookRetries \in Nat \ {0} /\ hookDelay \in Nat
    /\ MaxDeliveries \in Nat /\ MaxHookTime \in Nat

\* The queue q of the deliveries ds, of which x is being sent.
HooksQueued(q, ds, x) ==
    /\ ds \in Seq(Hooks!WebhookDelivery) /\ Len(ds) <= MaxDeliveries
    /\ q \in Seq(DOMAIN ds) /\ Distinct(q)
    /\ \A d \in Elements(q) : /\ ds[d].status \in {"pending", "retrying"}
                              /\ d # x => ds[d].attempts < hookRetries

HooksOK(q, ds, step) ==
    /\ step \in {"idle", "fetch", "wait", "spin"}
    /\ q # <<>> => step # "idle"
    /\ step # "fetch" => HooksQueued(q, ds, 0)
    /\ step = "fetch" => /\ q # <<>> /\ HooksQueued(q, ds, q[1])
                         /\ ds[q[1]].status = "retrying" /\ ds[q[1]].attempts >= 1

HooksInv ==
    /\ HooksOK(deliveryQueue, deliveries, hookStep)
    /\ DOMAIN endpoints \subseteq HookIds /\ hookTime \in 0 .. MaxHookTime

\* What was not due goes to the back.
LEMMA TurnedElements ==
  ASSUME NEW S, NEW q \in Seq(S), Distinct(q), NEW i \in 1 .. Len(q)
  PROVE  LET r == SubSeq(q, i, Len(q)) \o SubSeq(q, 1, i - 1)
         IN  /\ r \in Seq(S) /\ Elements(r) = Elements(q) /\ Distinct(r)
             /\ r # <<>> /\ r[1] = q[i]
<1>1. PICK n : n = Len(q)
  OBVIOUS
<1>2. n \in Nat /\ i \in 1 .. n /\ q \in [1 .. n -> S] /\ DOMAIN q = 1 .. n
  BY <1>1
<1>3. PICK a, b, k : a = SubSeq(q, i, n) /\ b = SubSeq(q, 1, i - 1) /\ k = i - 1
  OBVIOUS
<1>4. k \in Nat /\ k + 1 = i
  BY <1>2, <1>3
<1>5. /\ b \in Seq(S) /\ DOMAIN b = 1 .. k
      /\ \A j \in 1 .. k : b[j] = q[j]
  BY <1>1, <1>2, <1>3, <1>4
<1>6. /\ a \in Seq(S) /\ DOMAIN a = 1 .. n - k /\ Len(a) = n - k
      /\ \A j \in 1 .. n - k : a[j] = q[k + j]
  BY <1>1, <1>2, <1>3, <1>4
<1>7. Distinct(a) /\ Distinct(b) /\ Elements(a) \cap Elements(b) = {}
  <2>1. \A j \in DOMAIN a : k + j \in DOMAIN q /\ k + j > k /\ j \in Int
    BY <1>2, <1>4, <1>6
  <2>2. \A j \in DOMAIN b : j \in DOMAIN q /\ j <= k /\ j \in Int
    BY <1>2, <1>4, <1>5
  <2>3. ASSUME NEW j \in DOMAIN a, NEW l \in DOMAIN a, a[j] = a[l] PROVE j = l
    <3>1. k + j = k + l
      BY <1>6, <2>1, <2>3 DEF Distinct
    <3> QED  BY <1>4, <2>1, <3>1
  <2>4. ASSUME NEW j \in DOMAIN b, NEW l \in DOMAIN b, b[j] = b[l] PROVE j = l
    BY <1>5, <2>2, <2>4 DEF Distinct
  <2>5. ASSUME NEW j \in DOMAIN a, NEW l \in DOMAIN b, a[j] = b[l] PROVE FALSE
    <3>1. k + j = l
      BY <1>5, <1>6, <2>1, <2>2, <2>5 DEF Distinct
    <3> QED  BY <1>4, <2>1, <2>2, <3>1
  <2> QED  BY <2>3, <2>4, <2>5 DEF Distinct, Elements
<1>8. Elements(a) \cup Elements(b) = Elements(q)
  <2>1. ASSUME NEW e \in Elements(a) \cup Elements(b) PROVE e \in Elements(q)
    <3>1. CASE e \in Elements(a)
      <4>1. PICK j \in 1 .. n - k : e = q[k + j]
        BY <1>6, <3>1 DEF Elements
      <4>2. k + j \in DOMAIN q
        BY <1>2, <1>4
      <4> QED  BY <4>1, <4>2 DEF Elements
    <3>2. CASE e \in Elements(b)
      <4>1. PICK j \in 1 .. k : e = q[j]
        BY <1>5, <3>2 DEF Elements
      <4>2. j \in DOMAIN q
        BY <1>2, <1>4
      <4> QED  BY <4>1, <4>2 DEF Elements
    <3> QED  BY <3>1, <3>2
  <2>2. ASSUME NEW j \in 1 .. n PROVE q[j] \in Elements(a) \cup Elements(b)
    <3>1. CASE j <= k
      <4>1. j \in DOMAIN b /\ b[j] = q[j]
        BY <1>4, <1>5, <3>1
      <4> QED  BY <4>1 DEF Elements
    <3>2. CASE ~(j <= k)
      <4>1. PICK l : l = j - k
        OBVIOUS
      <4>2. l \in 1 .. n - k /\ k + l = j
        BY <1>2, <1>4, <3>2, <4>1
      <4> QED  BY <1>6, <4>2 DEF Elements
    <3> QED  BY <3>1, <3>2
  <2>3. \A e \in Elements(q) : e \in Elements(a) \cup Elements(b)
    BY <1>2, <2>2 DEF Elements
  <2> QED  BY <2>1, <2>3
<1>9. a \o b \in Seq(S) /\ Elements(a \o b) = Elements(q) /\ Distinct(a \o b)
  <2>1. a \in Seq(S) /\ b \in Seq(S)
    BY <1>5, <1>6
  <2>2. /\ a \o b \in Seq(S) /\ Elements(a \o b) = Elements(a) \cup Elements(b)
        /\ (Distinct(a) /\ Distinct(b) /\ Elements(a) \cap Elements(b) = {} => Distinct(a \o b))
    BY <2>1, JoinedElements
  <2> QED  BY <1>7, <1>8, <2>2
<1>10. a \o b # <<>> /\ (a \o b)[1] = q[i]
  <2>1. a[1] = q[i] /\ Len(a) >= 1
    BY <1>2, <1>4, <1>6
  <2> QED  BY <1>5, <1>6, <2>1
<1> QED  BY <1>1, <1>3, <1>9, <1>10

LEMMA HookChanged ==
  ASSUME NEW q, NEW ds, NEW x, HooksQueued(q, ds, x),
         NEW r \in Seq(DOMAIN ds), Distinct(r), NEW y,
         NEW d \in DOMAIN ds, NEW w \in Hooks!WebhookDelivery,
         \A e \in Elements(r) : e # d => e \in Elements(q) /\ (e = x => e = y),
         d \in Elements(r) => /\ w.status \in {"pending", "retrying"}
                              /\ d # y => w.attempts < hookRetries
  PROVE  HooksQueued(r, [ds EXCEPT ![d] = w], y)
<1>1. PICK n, ns : n = Len(ds) /\ ns = [ds EXCEPT ![d] = w]
  OBVIOUS
<1>2. n \in Nat /\ ds \in [1 .. n -> Hooks!WebhookDelivery] /\ n <= MaxDeliveries
  BY <1>1 DEF HooksQueued
<1>3. ns \in [1 .. n -> Hooks!WebhookDelivery] /\ DOMAIN ns = DOMAIN ds
  BY <1>1, <1>2
<1>4. ns \in Seq(Hooks!WebhookDelivery) /\ Len(ns) = n
  BY <1>2, <1>3, IsSeq
<1>5. \A e \in Elements(r) : e \in DOMAIN ds
  BY DEF Elements
<1>6. ASSUME NEW e \in Elements(r)
      PROVE  ns[e].status \in {"pending", "retrying"} /\ (e # y => ns[e].attempts < hookRetries)
  <2>1. CASE e = d
    <3>1. ns[e] = w
      BY <1>1, <1>5, <2>1
    <3> QED  BY <2>1, <3>1
  <2>2. CASE e # d
    <3>1. ns[e] = ds[e]
      BY <1>1, <1>5, <2>2
    <3> QED  BY <2>2, <3>1 DEF HooksQueued
  <2> QED  BY <2>1, <2>2
<1>7. HooksQueued(r, ns, y)
  BY <1>2, <1>3, <1>4, <1>6 DEF HooksQueued
<1> QED  BY <1>1, <1>7

\* Fewer are queued.
LEMMA HooksLeft ==
  ASSUME NEW q, NEW ds, NEW x, HooksQueued(q, ds, x), NEW y,
         NEW r \in Seq(DOMAIN ds), Distinct(r),
         \A e \in Elements(r) : e \in Elements(q) /\ (e = x => e = y)
  PROVE  HooksQueued(r, ds, y)
BY DEF HooksQueued

LEMMA RunStep ==
  ASSUME HookLimits, NEW q, NEW ds, HooksQueued(q, ds, 0), Hooks!Run(q, ds)
  PROVE  HooksOK(deliveryQueue', deliveries', hookStep')
<1> DEFINE due == {i \in DOMAIN q : ds[q[i]].nextRetryAt <= hookTime}
           m == CHOOSE j \in due : \A k \in due : j <= k
<1>1. CASE q = <<>> \/ due = {}
  <2>1. /\ deliveryQueue' = q /\ deliveries' = ds
        /\ (hookStep' = "idle" /\ q = <<>>) \/ hookStep' = "spin"
    BY <1>1 DEF Hooks!Run
  <2> QED  BY <2>1 DEF HooksOK
<1>2. CASE q # <<>> /\ due # {}
  <2>1. q \in Seq(DOMAIN ds) /\ Distinct(q) /\ ds \in Seq(Hooks!WebhookDelivery)
    BY DEF HooksQueued
  <2>2. DOMAIN q = 1 .. Len(q) /\ Len(q) \in Nat
    BY <2>1
  <2>3. due \subseteq Nat
    BY <2>2
  <2>4. m \in due
    <3>1. \E j \in due : \A k \in due : j <= k
      BY <1>2, <2>3, LeastNumber
    <3> QED  BY <3>1
  <2>5. PICK i : i = m
    OBVIOUS
  <2>6. i \in 1 .. Len(q)
    BY <2>2, <2>4, <2>5
  <2>7. PICK r, d : r = SubSeq(q, i, Len(q)) \o SubSeq(q, 1, i - 1) /\ d = q[i]
    OBVIOUS
  <2>8. /\ r \in Seq(DOMAIN ds) /\ Elements(r) = Elements(q) /\ Distinct(r)
        /\ r # <<>> /\ r[1] = d
    BY <2>1, <2>6, <2>7, TurnedElements
  <2>9. d \in Elements(q) /\ d \in DOMAIN ds
    <3>1. i \in DOMAIN q
      BY <2>2, <2>6
    <3>2. q[i] \in DOMAIN ds
      BY <2>1, <3>1
    <3> QED  BY <2>7, <3>1, <3>2 DEF Elements
  <2>10. CASE ds[d].endpointId \in DOMAIN endpoints
    <3>1. PICK w : w = [ds[d] EXCEPT !.attempts = @ + 1, !.status = "retrying"]
      OBVIOUS
    <3>2. ds[d] \in Hooks!WebhookDelivery /\ ds[d].attempts < hookRetries
      <4>1. 0 \notin DOMAIN ds
        BY <2>1
      <4> QED  BY <2>1, <2>9, <4>1 DEF HooksQueued
    <3>3. w \in Hooks!WebhookDelivery /\ w.status = "retrying" /\ w.attempts >= 1
      <4>1. PICK v : v = ds[d]
        OBVIOUS
      <4>2. v \in Hooks!WebhookDelivery /\ v.attempts < hookRetries
        BY <3>2, <4>1
      <4>3. v.attempts + 1 \in 0 .. hookRetries /\ v.attempts + 1 >= 1
        BY <4>2 DEF Hooks!WebhookDelivery, HookLimits
      <4>4. PICK k : k = v.attempts + 1
        OBVIOUS
      <4>5. w = [v EXCEPT !.attempts = k, !.status = "retrying"]
        BY <3>1, <4>1, <4>2, <4>4 DEF Hooks!WebhookDelivery
      <4>6. w \in Hooks!WebhookDelivery /\ w.status = "retrying" /\ w.attempts = k
        BY <4>2, <4>3, <4>4, <4>5 DEF Hooks!WebhookDelivery
      <4> QED  BY <4>3, <4>4, <4>6
    <3>4. [ds EXCEPT ![d].attempts = @ + 1, ![d].status = "retrying"] = [ds EXCEPT ![d] = w]
      BY <2>9, <3>1, <3>2 DEF Hooks!WebhookDelivery
    <3>5. PICK ns : ns = [ds EXCEPT ![d] = w]
      OBVIOUS
    <3>6. /\ hookStep' = "fetch" /\ deliveryQueue' = r /\ deliveries' = ns
      BY <1>2, <2>5, <2>7, <2>10, <3>4, <3>5 DEF Hooks!Run
    <3>7. 0 \notin Elements(r)
      BY <2>1, <2>8 DEF Elements
    <3>8. HooksQueued(r, ns, d)
      <4>1. \A e \in Elements(r) : e # d => e \in Elements(q) /\ (e = 0 => e = d)
        BY <2>8, <3>7
      <4>2. w.status \in {"pending", "retrying"}
        BY <3>3
      <4>3. HooksQueued(r, [ds EXCEPT ![d] = w], d)
        BY <2>8, <2>9, <3>3, <4>1, <4>2, HookChanged
      <4> QED  BY <3>5, <4>3
    <3>9. ns[d] = w
      BY <2>9, <3>5
    <3> QED  BY <2>8, <3>3, <3>6, <3>8, <3>9 DEF HooksOK
  <2>11. CASE ~(ds[d].endpointId \in DOMAIN endpoints)
    <3>1. hookStep' = "wait" /\ deliveryQueue' = Tail(r) /\ deliveries' = ds
      BY <1>2, <2>5, <2>7, <2>11 DEF Hooks!Run
    <3>2. PICK t : t = Tail(r)
      OBVIOUS
    <3>3. t \in Seq(DOMAIN ds) /\ Distinct(t) /\ Elements(t) \subseteq Elements(q)
      BY <2>8, <3>2, TailElements
    <3>4. HooksQueued(t, ds, 0)
      BY <3>3, HooksLeft
    <3> QED  BY <3>1, <3>2, <3>4 DEF HooksOK
  <2> QED  BY <2>10, <2>11
<1> QED  BY <1>1, <1>2

\* Those queued when x is sent, and more that are new to the queue.
LEMMA EnqueueStep ==
  ASSUME HookLimits, HooksInv, NEW q, NEW step, NEW ids, NEW ns, NEW x,
         q = deliveryQueue, step = hookStep,
         x = IF step = "fetch" THEN q[1] ELSE 0,
         HooksQueued(q \o ids, ns, x), step = "fetch" => ns[x] = deliveries[x],
         q \in Seq(DOMAIN ns), ids \in Seq(DOMAIN ns),
         Hooks!Enqueue(ids, ns)
  PROVE  HooksOK(deliveryQueue', deliveries', hookStep')
<1>1. HooksOK(q, deliveries, step)
  BY DEF HooksInv
<1>2. PICK r : r = q \o ids
  OBVIOUS
<1>3. HooksQueued(r, ns, x)
  BY <1>2
<1>4. CASE step = "idle"
  <2>1. Hooks!Run(r, ns) /\ x = 0
    BY <1>2, <1>4 DEF Hooks!Enqueue
  <2> QED  BY <1>3, <2>1, RunStep
<1>5. CASE step # "idle"
  <2>1. deliveryQueue' = r /\ deliveries' = ns /\ hookStep' = step
    BY <1>2, <1>5 DEF Hooks!Enqueue
  <2>2. CASE step = "fetch"
    <3>1. /\ q # <<>> /\ x = q[1] /\ deliveries[x].status = "retrying"
          /\ deliveries[x].attempts >= 1
      BY <1>1, <2>2 DEF HooksOK
    <3>2. r # <<>> /\ r[1] = q[1]
      BY <1>2, <3>1
    <3>3. HooksQueued(r, ns, r[1]) /\ ns[r[1]].status = "retrying" /\ ns[r[1]].attempts >= 1
      BY <1>3, <2>2, <3>1, <3>2
    <3>4. HooksOK(r, ns, step)
      BY <2>2, <3>2, <3>3 DEF HooksOK
    <3> QED  BY <2>1, <3>4
  <2>3. CASE step # "fetch"
    <3>1. HooksOK(r, ns, step)
      BY <1>1, <1>3, <1>5, <2>3 DEF HooksOK
    <3> QED  BY <2>1, <3>1
  <2> QED  BY <2>2, <2>3
<1> QED  BY <1>4, <1>5

LEMMA HooksCount == ASSUME NEW S PROVE Hooks!Cardinality(S) = Cardinality(S)
BY DEF Hooks!Cardinality, Cardinality

LEMMA InSomeOrder ==
  ASSUME NEW S, IsFiniteSet(S)
  PROVE  Hooks!SetToSeq(S) \in Seq(S)
<1>1. PICK n : n = Cardinality(S)
  OBVIOUS
<1>2. n \in Nat /\ ExistsBijection(1 .. n, S)
  BY <1>1, FS_CardinalityType
<1>3. PICK f \in [1 .. n -> S] : IsInjective(f)
  BY <1>2 DEF ExistsBijection, Bijection, Injection
<1>4. Hooks!IsInjective(f)
  BY <1>3 DEF IsInjective, Hooks!IsInjective
<1>5. Hooks!SetToSeq(S) = CHOOSE g \in [1 .. n -> S] : Hooks!IsInjective(g)
  BY <1>1, HooksCount DEF Hooks!SetToSeq
<1>6. Hooks!SetToSeq(S) \in [1 .. n -> S]
  BY <1>4, <1>5
<1> QED  BY <1>2, <1>6, IsSeq

LEMMA CreateDeliveriesStep ==
  ASSUME HookLimits, HooksInv, NEW es \in SUBSET HookIds, Hooks!CreateDeliveries(es)
  PROVE  HooksInv'
<1>1. PICK order : order = Hooks!SetToSeq(es)
  OBVIOUS
<1>2. order \in Seq(HookIds)
  <2>1. IsFiniteSet(es)
    BY FS_Subset DEF HookLimits
  <2>2. order \in Seq(es)
    BY <1>1, <2>1, InSomeOrder
  <2> QED  BY <2>2, LargerSeq
<1>3. PICK new : new = [i \in DOMAIN order |->
                          [endpointId |-> order[i], status |-> "pending", attempts |-> 0,
                           nextRetryAt |-> 0, known |-> TRUE]]
  OBVIOUS
<1>4. PICK k : k = Len(order)
  OBVIOUS
<1>5. k \in Nat /\ DOMAIN order = 1 .. k /\ \A i \in 1 .. k : order[i] \in HookIds
  BY <1>2, <1>4
<1>6. new \in [1 .. k -> Hooks!WebhookDelivery]
  BY <1>3, <1>5 DEF Hooks!WebhookDelivery, HookLimits
<1>7. /\ new \in Seq(Hooks!WebhookDelivery) /\ Len(new) = k /\ DOMAIN new = 1 .. k
      /\ \A i \in 1 .. k : new[i].status = "pending" /\ new[i].attempts = 0
  <2>1. new \in Seq(Hooks!WebhookDelivery) /\ Len(new) = k /\ DOMAIN new = 1 .. k
    BY <1>5, <1>6, IsSeq
  <2>2. \A i \in 1 .. k : new[i].status = "pending" /\ new[i].attempts = 0
    BY <1>3, <1>5
  <2> QED  BY <2>1, <2>2
<1>8. PICK q, ds, step, n, x : /\ q = deliveryQueue /\ ds = deliveries /\ step = hookStep
                               /\ n = Len(ds) /\ x = IF step = "fetch" THEN q[1] ELSE 0
  OBVIOUS
<1>9. HooksOK(q, ds, step) /\ HooksQueued(q, ds, x)
  BY <1>8 DEF HooksInv, HooksOK
<1>10. /\ ds \in Seq(Hooks!WebhookDelivery) /\ n \in Nat /\ DOMAIN ds = 1 .. n
       /\ q \in Seq(1 .. n) /\ Distinct(q)
  BY <1>8, <1>9 DEF HooksQueued
<1>11. PICK ns, ids : ns = ds \o new /\ ids = [i \in DOMAIN new |-> n + i]
  OBVIOUS
<1>12. n + k <= MaxDeliveries /\ Hooks!Enqueue(ids, ns) /\ UNCHANGED <<endpoints, hookTime>>
  BY <1>1, <1>3, <1>7, <1>8, <1>11 DEF Hooks!CreateDeliveries
<1>13. /\ ns \in Seq(Hooks!WebhookDelivery) /\ Len(ns) = n + k /\ DOMAIN ns = 1 .. n + k
       /\ \A i \in 1 .. n : ns[i] = ds[i]
       /\ \A i \in 1 .. k : ns[n + i] = new[i]
  <2>1. PICK S : S = Hooks!WebhookDelivery
    OBVIOUS
  <2>2. ds \in Seq(S) /\ new \in Seq(S)
    BY <1>7, <1>10, <2>1
  <2>3. ns \in Seq(S) /\ Len(ns) = n + k /\ DOMAIN ns = 1 .. n + k
    <3>1. ns \in Seq(S) /\ Len(ns) = Len(ds) + Len(new)
      BY <1>11, <2>2
    <3>2. DOMAIN ns = 1 .. Len(ns)
      BY <3>1
    <3> QED  BY <1>7, <1>8, <3>1, <3>2
  <2>4. \A i \in 1 .. n : ns[i] = ds[i]
    BY <1>7, <1>8, <1>11, <2>2
  <2>5. \A i \in 1 .. k : ns[n + i] = new[i]
    BY <1>7, <1>8, <1>11, <2>2
  <2> QED  BY <2>1, <2>3, <2>4, <2>5
<1>14. /\ ids \in Seq(DOMAIN ns) /\ Distinct(ids)
       /\ \A d \in Elements(ids) : \E i \in 1 .. k : d = n + i
  <2>1. DOMAIN ids = 1 .. k /\ \A i \in 1 .. k : ids[i] = n + i
    BY <1>7, <1>11
  <2>2. \A i \in 1 .. k : n + i \in 1 .. n + k
    BY <1>5, <1>10
  <2>3. ids \in [1 .. k -> DOMAIN ns]
    BY <1>7, <1>11, <1>13, <2>2
  <2>4. ids \in Seq(DOMAIN ns)
    BY <1>5, <2>3, IsSeq
  <2>5. Distinct(ids)
    BY <1>5, <1>10, <2>1 DEF Distinct
  <2> QED  BY <2>1, <2>4, <2>5 DEF Elements
<1>15. q \in Seq(DOMAIN ns)
  <2>1. 1 .. n \subseteq DOMAIN ns
    BY <1>5, <1>10, <1>13
  <2> QED  BY <1>10, <2>1, LargerSeq
<1>16. Elements(q) \cap Elements(ids) = {}
  <2>1. \A d \in Elements(q) : d \in 1 .. n
    BY <1>10 DEF Elements
  <2>2. \A i \in 1 .. k : n + i \notin 1 .. n
    BY <1>5, <1>10
  <2> QED  BY <1>14, <2>1, <2>2
<1>17. PICK r : r = q \o ids
  OBVIOUS
<1>18. r \in Seq(DOMAIN ns) /\ Distinct(r) /\ Elements(r) = Elements(q) \cup Elements(ids)
  BY <1>10, <1>14, <1>15, <1>16, <1>17, JoinedElements
<1>19. ASSUME NEW d \in Elements(r)
       PROVE  ns[d].status \in {"pending", "retrying"} /\ (d # x => ns[d].attempts < hookRetries)
  <2>1. CASE d \in Elements(q)
    <3>1. d \in 1 .. n
      BY <1>10, <2>1 DEF Elements
    <3>2. ns[d] = ds[d]
      BY <1>13, <3>1
    <3> QED  BY <1>9, <2>1, <3>2 DEF HooksQueued
  <2>2. CASE d \in Elements(ids)
    <3>1. PICK i \in 1 .. k : d = n + i
      BY <1>14, <2>2
    <3>2. ns[d].status = "pending" /\ ns[d].attempts = 0
      BY <1>7, <1>13, <3>1
    <3>3. 0 < hookRetries
      BY DEF HookLimits
    <3> QED  BY <3>2, <3>3
  <2> QED  BY <1>18, <2>1, <2>2
<1>20. HooksQueued(r, ns, x)
  BY <1>12, <1>13, <1>18, <1>19 DEF HooksQueued
<1>21. step = "fetch" => ns[x] = deliveries[x]
  <2>1. ASSUME step = "fetch" PROVE ns[x] = deliveries[x]
    <3>1. q # <<>> /\ x = q[1]
      BY <1>8, <1>9, <2>1 DEF HooksOK
    <3>2. x \in 1 .. n
      BY <1>10, <3>1
    <3> QED  BY <1>8, <1>13, <3>2
  <2> QED  BY <2>1
<1>22. HooksOK(deliveryQueue', deliveries', hookStep')
  BY <1>8, <1>12, <1>14, <1>15, <1>17, <1>20, <1>21, EnqueueStep
<1> QED  BY <1>12, <1>22 DEF HooksInv

LEMMA RetryDeliveryStep ==
  ASSUME HookLimits, HooksInv, NEW d, Hooks!retryDelivery(d) PROVE HooksInv'
<1>1. PICK q, ds, step, x : /\ q = deliveryQueue /\ ds = deliveries /\ step = hookStep
                            /\ x = IF step = "fetch" THEN q[1] ELSE 0
  OBVIOUS
<1>2. HooksOK(q, ds, step) /\ HooksQueued(q, ds, x)
  BY <1>1 DEF HooksInv, HooksOK
<1>3. ds \in Seq(Hooks!WebhookDelivery) /\ q \in Seq(DOMAIN ds) /\ Distinct(q)
  BY <1>2 DEF HooksQueued
<1>4. d \in DOMAIN ds /\ ds[d].status = "failed"
  BY <1>1 DEF Hooks!retryDelivery
<1>5. d \notin Elements(q)
  BY <1>2, <1>4 DEF HooksQueued
<1>6. PICK v : v = ds[d]
  OBVIOUS
<1>7. v \in Hooks!WebhookDelivery
  BY <1>3, <1>4, <1>6
<1>8. PICK w : w = [v EXCEPT !.status = "pending", !.attempts = 0, !.nextRetryAt = 0]
  OBVIOUS
<1>9. w \in Hooks!WebhookDelivery /\ w.status = "pending" /\ w.attempts = 0
  <2>1. 0 \in 0 .. hookRetries /\ 0 \in Int
    BY DEF HookLimits
  <2> QED  BY <1>7, <1>8, <2>1 DEF Hooks!WebhookDelivery
<1>10. [ds EXCEPT ![d].status = "pending", ![d].attempts = 0, ![d].nextRetryAt = 0]
       = [ds EXCEPT ![d] = w]
  BY <1>4, <1>6, <1>7, <1>8 DEF Hooks!WebhookDelivery
<1>11. PICK ns : ns = [ds EXCEPT ![d] = w]
  OBVIOUS
<1>12. PICK ids : ids = <<d>>
  OBVIOUS
<1>13. Hooks!Enqueue(ids, ns) /\ UNCHANGED <<endpoints, hookTime>>
  BY <1>1, <1>10, <1>11, <1>12 DEF Hooks!retryDelivery
<1>14. DOMAIN ns = DOMAIN ds
  BY <1>3, <1>4, <1>11
<1>15. ids \in Seq(DOMAIN ds) /\ Elements(ids) = {d} /\ Distinct(ids)
  BY <1>4, <1>12, OneElement
<1>16. PICK r : r = q \o ids
  OBVIOUS
<1>17. r \in Seq(DOMAIN ds) /\ Distinct(r) /\ Elements(r) = Elements(q) \cup {d}
  BY <1>3, <1>5, <1>15, <1>16, JoinedElements
<1>18. HooksQueued(r, ns, x)
  <2>1. \A e \in Elements(r) : e # d => e \in Elements(q) /\ (e = x => e = x)
    BY <1>17
  <2>2. w.status \in {"pending", "retrying"} /\ w.attempts < hookRetries
    BY <1>9 DEF HookLimits
  <2>3. HooksQueued(r, [ds EXCEPT ![d] = w], x)
    BY <1>2, <1>4, <1>9, <1>17, <2>1, <2>2, HookChanged
  <2> QED  BY <1>11, <2>3
<1>19. step = "fetch" => ns[x] = deliveries[x]
  <2>1. ASSUME step = "fetch" PROVE ns[x] = deliveries[x]
    <3>1. q # <<>> /\ x = q[1]
      BY <1>1, <1>2, <2>1 DEF HooksOK
    <3>2. x \in Elements(q) /\ x \in DOMAIN ds
      BY <1>3, <3>1, TailElements
    <3> QED  BY <1>1, <1>3, <1>5, <1>11, <3>2
  <2> QED  BY <2>1
<1>20. HooksOK(deliveryQueue', deliveries', hookStep')
  BY <1>1, <1>3, <1>13, <1>14, <1>15, <1>16, <1>18, <1>19, EnqueueStep
<1> QED  BY <1>13, <1>20 DEF HooksInv

\* The end of a POST.
LEMMA FetchStep ==
  ASSUME HookLimits, HooksInv, Hooks!fetchOk \/ Hooks!handleDeliveryError PROVE HooksInv'
<1>1. PICK q, ds : q = deliveryQueue /\ ds = deliveries
  OBVIOUS
<1>2. PICK h : h = q[1]
  OBVIOUS
<1>3. hookStep = "fetch" /\ hookStep' = "wait" /\ UNCHANGED <<endpoints, hookTime>>
  BY DEF Hooks!fetchOk, Hooks!handleDeliveryError
<1>4. HooksOK(q, ds, "fetch")
  BY <1>1, <1>3 DEF HooksInv
<1>5. q # <<>> /\ HooksQueued(q, ds, h) /\ ds[h].status = "retrying" /\ ds[h].attempts >= 1
  BY <1>2, <1>4 DEF HooksOK
<1>6. ds \in Seq(Hooks!WebhookDelivery) /\ q \in Seq(DOMAIN ds) /\ Distinct(q)
  BY <1>5 DEF HooksQueued
<1>7. PICK t : t = Tail(q)
  OBVIOUS
<1>8. /\ h \in DOMAIN ds /\ h \in Elements(q)
      /\ t \in Seq(DOMAIN ds) /\ Elements(t) = Elements(q) \ {h} /\ Distinct(t)
  BY <1>2, <1>5, <1>6, <1>7, TailElements
<1>9. Hooks!Delivery = h
  BY <1>1, <1>2 DEF Hooks!Delivery
<1>10. PICK v : v = ds[h]
  OBVIOUS
<1>11. v \in Hooks!WebhookDelivery /\ v.status = "retrying"
  BY <1>5, <1>6, <1>8, <1>10
<1>12. SUFFICES HooksQueued(deliveryQueue', deliveries', 0)
  BY <1>3 DEF HooksInv, HooksOK
<1>13. CASE Hooks!fetchOk
  <2>1. deliveryQueue' = t /\ deliveries' = [ds EXCEPT ![h].status = "success"]
    BY <1>1, <1>7, <1>9, <1>13 DEF Hooks!fetchOk
  <2>2. PICK w : w = [v EXCEPT !.status = "success"]
    OBVIOUS
  <2>3. w \in Hooks!WebhookDelivery
    BY <1>11, <2>2 DEF Hooks!WebhookDelivery
  <2>4. [ds EXCEPT ![h].status = "success"] = [ds EXCEPT ![h] = w]
    BY <1>10, <2>2
  <2>5. \A e \in Elements(t) : e # h => e \in Elements(q) /\ (e = h => e = 0)
    BY <1>8
  <2>6. h \notin Elements(t)
    BY <1>8
  <2>7. HooksQueued(t, [ds EXCEPT ![h] = w], 0)
    BY <1>5, <1>8, <2>3, <2>5, <2>6, HookChanged
  <2> QED  BY <2>1, <2>4, <2>7
<1>14. CASE Hooks!handleDeliveryError
  <2>1. CASE deliveryQueue' = Tail(deliveryQueue) /\ UNCHANGED deliveries
    <3>1. deliveryQueue' = t /\ deliveries' = ds
      BY <1>1, <1>7, <2>1
    <3>2. \A e \in Elements(t) : e \in Elements(q) /\ (e = h => e = 0)
      BY <1>8
    <3>3. HooksQueued(t, ds, 0)
      BY <1>5, <1>8, <3>2, HooksLeft
    <3> QED  BY <3>1, <3>3
  <2>2. CASE /\ v.attempts >= hookRetries
             /\ deliveries' = [ds EXCEPT ![h].status = "failed"] /\ deliveryQueue' = t
    <3>1. PICK w : w = [v EXCEPT !.status = "failed"]
      OBVIOUS
    <3>2. w \in Hooks!WebhookDelivery
      BY <1>11, <3>1 DEF Hooks!WebhookDelivery
    <3>3. [ds EXCEPT ![h].status = "failed"] = [ds EXCEPT ![h] = w]
      BY <1>10, <3>1
    <3>4. \A e \in Elements(t) : e # h => e \in Elements(q) /\ (e = h => e = 0)
      BY <1>8
    <3>5. h \notin Elements(t)
      BY <1>8
    <3>6. HooksQueued(t, [ds EXCEPT ![h] = w], 0)
      BY <1>5, <1>8, <3>2, <3>4, <3>5, HookChanged
    <3> QED  BY <2>2, <3>3, <3>6
  <2>3. CASE /\ ~(v.attempts >= hookRetries)
             /\ deliveries' = [ds EXCEPT ![h].nextRetryAt = Hooks!RetryAt(h)]
             /\ deliveryQueue' = Append(t, h)
    <3>1. PICK at : at = Hooks!RetryAt(h)
      OBVIOUS
    <3>2. at \in Int
      <4>1. PICK k : k = v.attempts - 1
        OBVIOUS
      <4>2. k \in Nat
        <5>1. v.attempts \in 0 .. hookRetries /\ v.attempts >= 1
          BY <1>5, <1>10, <1>11 DEF Hooks!WebhookDelivery
        <5> QED  BY <4>1, <5>1
      <4>3. 2 ^ k \in Int
        BY <4>2
      <4>4. PICK p : p = 2 ^ k
        OBVIOUS
      <4>5. hookTime \in Int /\ hookDelay \in Int /\ p \in Int
        BY <4>3, <4>4 DEF HooksInv, HookLimits
      <4>6. at = hookTime + hookDelay * p
        BY <1>1, <1>10, <3>1, <4>1, <4>4 DEF Hooks!RetryAt
      <4> QED  BY <4>5, <4>6
    <3>3. PICK w : w = [v EXCEPT !.nextRetryAt = at]
      OBVIOUS
    <3>4. /\ w \in Hooks!WebhookDelivery /\ w.status = "retrying"
          /\ w.attempts = v.attempts
      BY <1>11, <3>2, <3>3 DEF Hooks!WebhookDelivery
    <3>5. [ds EXCEPT ![h].nextRetryAt = Hooks!RetryAt(h)] = [ds EXCEPT ![h] = w]
      BY <1>10, <3>1, <3>3
    <3>6. PICK r : r = Append(t, h)
      OBVIOUS
    <3>7. r \in Seq(DOMAIN ds) /\ Elements(r) = Elements(t) \cup {h} /\ Distinct(r)
      BY <1>8, <3>6, AppendedElements
    <3>8. \A e \in Elements(r) : e # h => e \in Elements(q) /\ (e = h => e = 0)
      BY <1>8, <3>7
    <3>9. w.status \in {"pending", "retrying"} /\ w.attempts < hookRetries
      <4>1. v.attempts \in Int /\ hookRetries \in Int
        BY <1>11 DEF Hooks!WebhookDelivery, HookLimits
      <4> QED  BY <2>3, <3>4, <4>1
    <3>10. HooksQueued(r, [ds EXCEPT ![h] = w], 0)
      BY <1>5, <1>8, <3>4, <3>7, <3>8, <3>9, HookChanged
    <3> QED  BY <2>3, <3>5, <3>6, <3>10
  <2> QED  BY <1>1, <1>7, <1>9, <1>10, <1>14, <2>1, <2>2, <2>3 DEF Hooks!handleDeliveryError
<1> QED  BY <1>13, <1>14

LEMMA HookContinues == ASSUME HookLimits, HooksInv, Hooks!Continue PROVE HooksInv'
<1>1. PICK q, ds : q = deliveryQueue /\ ds = deliveries
  OBVIOUS
<1>2. Hooks!Run(q, ds) /\ HooksQueued(q, ds, 0) /\ UNCHANGED <<endpoints, hookTime>>
  BY <1>1 DEF Hooks!Continue, HooksInv, HooksOK
<1>3. HooksOK(deliveryQueue', deliveries', hookStep')
  BY <1>2, RunStep
<1> QED  BY <1>2, <1>3 DEF HooksInv

LEMMA EndpointStep ==
  ASSUME HookLimits, HooksInv, NEW e \in HookIds, NEW b \in BOOLEAN,
         Hooks!SetEndpoint(e, b) \/ Hooks!unregisterEndpoint(e)
  PROVE  HooksInv'
<1>1. DOMAIN endpoints' \subseteq HookIds
  BY DEF HooksInv, Hooks!SetEndpoint, Hooks!unregisterEndpoint
<1>2. UNCHANGED <<deliveries, deliveryQueue, hookStep, hookTime>>
  BY DEF Hooks!SetEndpoint, Hooks!unregisterEndpoint
<1> QED  BY <1>1, <1>2 DEF HooksInv

LEMMA OldForgotten ==
  ASSUME HookLimits, HooksInv, NEW old \in SUBSET DOMAIN deliveries, Hooks!clearOldDeliveries(old)
  PROVE  HooksInv'
<1>1. PICK q, ds, ns, step : q = deliveryQueue /\ ds = deliveries /\ ns = deliveries' /\ step = hookStep
  OBVIOUS
<1>2. HooksOK(q, ds, step)
  BY <1>1 DEF HooksInv
<1>3. ns = [d \in DOMAIN ds |-> IF d \in old THEN [ds[d] EXCEPT !.known = FALSE] ELSE ds[d]]
  BY <1>1 DEF Hooks!clearOldDeliveries
<1>4. ASSUME NEW x, HooksQueued(q, ds, x)
      PROVE  /\ HooksQueued(q, ns, x)
             /\ \A d \in DOMAIN ds : ns[d].status = ds[d].status /\ ns[d].attempts = ds[d].attempts
  <2>1. PICK n : n = Len(ds)
    OBVIOUS
  <2>2. n \in Nat /\ ds \in [1 .. n -> Hooks!WebhookDelivery] /\ DOMAIN ds = 1 .. n /\ n <= MaxDeliveries
    BY <1>4, <2>1 DEF HooksQueued
  <2>3. ASSUME NEW d \in DOMAIN ds
        PROVE  /\ ns[d] \in Hooks!WebhookDelivery
               /\ ns[d].status = ds[d].status /\ ns[d].attempts = ds[d].attempts
    <3>1. PICK v : v = ds[d]
      OBVIOUS
    <3>2. v \in Hooks!WebhookDelivery
      BY <2>2, <3>1
    <3>3. ns[d] = IF d \in old THEN [v EXCEPT !.known = FALSE] ELSE v
      BY <1>3, <3>1
    <3>4. [v EXCEPT !.known = FALSE] \in Hooks!WebhookDelivery
      BY <3>2 DEF Hooks!WebhookDelivery
    <3>5. /\ [v EXCEPT !.known = FALSE].status = v.status
          /\ [v EXCEPT !.known = FALSE].attempts = v.attempts
      BY <3>2 DEF Hooks!WebhookDelivery
    <3> QED  BY <3>1, <3>2, <3>3, <3>4, <3>5
  <2>4. ns \in [1 .. n -> Hooks!WebhookDelivery] /\ DOMAIN ns = DOMAIN ds
    BY <1>3, <2>2, <2>3
  <2>5. ns \in Seq(Hooks!WebhookDelivery) /\ Len(ns) = n
    BY <2>2, <2>4, IsSeq
  <2>6. \A d \in Elements(q) : d \in DOMAIN ds
    BY <1>4 DEF HooksQueued, Elements
  <2>7. HooksQueued(q, ns, x)
    BY <1>4, <2>2, <2>3, <2>4, <2>5, <2>6 DEF HooksQueued
  <2> QED  BY <2>3, <2>7
<1>5. HooksOK(q, ns, step)
  <2>1. CASE step = "fetch"
    <3>1. PICK h : h = q[1]
      OBVIOUS
    <3>2. q # <<>> /\ HooksQueued(q, ds, h) /\ ds[h].status = "retrying" /\ ds[h].attempts >= 1
      BY <1>2, <2>1, <3>1 DEF HooksOK
    <3>3. h \in DOMAIN ds
      <4>1. q \in Seq(DOMAIN ds)
        BY <3>2 DEF HooksQueued
      <4> QED  BY <3>1, <3>2, <4>1
    <3>4. HooksQueued(q, ns, h) /\ ns[h].status = "retrying" /\ ns[h].attempts >= 1
      BY <1>4, <3>2, <3>3
    <3> QED  BY <2>1, <3>1, <3>2, <3>4 DEF HooksOK
  <2>2. CASE step # "fetch"
    <3>1. HooksQueued(q, ds, 0)
      BY <1>2, <2>2 DEF HooksOK
    <3>2. HooksQueued(q, ns, 0)
      BY <1>4, <3>1
    <3> QED  BY <1>2, <2>2, <3>2 DEF HooksOK
  <2> QED  BY <2>1, <2>2
<1> QED  BY <1>1, <1>5 DEF HooksInv, Hooks!clearOldDeliveries

LEMMA HooksInit == ASSUME HookLimits, Hooks!Init PROVE HooksInv
<1>1. PICK e : e = <<>>
  OBVIOUS
<1>2. e \in Seq(Hooks!WebhookDelivery) /\ Len(e) = 0 /\ DOMAIN e = {} /\ e \in Seq(DOMAIN e)
  <2>1. <<>> \in Seq(Hooks!WebhookDelivery) /\ Len(<<>>) = 0 /\ DOMAIN <<>> = {}
    OBVIOUS
  <2>2. <<>> \in Seq(DOMAIN e)
    OBVIOUS
  <2> QED  BY <1>1, <2>1, <2>2
<1>3. HooksQueued(e, e, 0)
  BY <1>2 DEF HooksQueued, Elements, Distinct, HookLimits
<1>4. HooksOK(e, e, "idle")
  BY <1>1, <1>3 DEF HooksOK
<1>5. deliveryQueue = e /\ deliveries = e /\ hookStep = "idle" /\ endpoints = e /\ hookTime = 0
  BY <1>1 DEF Hooks!Init
<1>6. hookTime \in 0 .. MaxHookTime
  BY <1>5 DEF HookLimits
<1> QED  BY <1>2, <1>4, <1>5, <1>6 DEF HooksInv

LEMMA HooksNext ==
  ASSUME HookLimits, HooksInv, [Hooks!Next]_(Hooks!vars) PROVE HooksInv'
<1>1. CASE UNCHANGED Hooks!vars
  BY <1>1 DEF HooksInv, Hooks!vars
<1>2. CASE Hooks!Tick
  <2>1. hookTime' \in 0 .. MaxHookTime
    BY <1>2 DEF Hooks!Tick, HooksInv, HookLimits
  <2> QED  BY <1>2, <2>1 DEF Hooks!Tick, HooksInv
<1>3. CASE Hooks!trigger
  <2>1. PICK es : es = {e \in DOMAIN endpoints : endpoints[e]}
    OBVIOUS
  <2>2. es \in SUBSET HookIds /\ Hooks!CreateDeliveries(es)
    BY <1>3, <2>1 DEF Hooks!trigger, HooksInv
  <2> QED  BY <2>2, CreateDeliveriesStep
<1>4. ASSUME NEW e \in HookIds, Hooks!testEndpoint(e) PROVE HooksInv'
  <2>1. {e} \in SUBSET HookIds /\ Hooks!CreateDeliveries({e})
    BY <1>4 DEF Hooks!testEndpoint
  <2> QED  BY <2>1, CreateDeliveriesStep
<1>5. ASSUME NEW e \in HookIds,
             \/ Hooks!registerEndpoint(e) \/ Hooks!unregisterEndpoint(e)
             \/ \E active \in BOOLEAN : Hooks!updateEndpoint(e, active)
      PROVE  HooksInv'
  BY <1>5, EndpointStep DEF Hooks!registerEndpoint, Hooks!updateEndpoint
<1> QED
  BY <1>1, <1>2, <1>3, <1>4, <1>5, FetchStep, RetryDeliveryStep, OldForgotten, HookContinues
  DEF Hooks!Next

LEMMA HooksSpec == ASSUME HookLimits PROVE Hooks!Spec => []HooksInv
<1>1. Hooks!Init => HooksInv
  BY HooksInit
<1>2. HooksInv /\ [Hooks!Next]_(Hooks!vars) => HooksInv'
  BY HooksNext
<1> QED  BY <1>1, <1>2, PTL DEF Hooks!Spec

LEMMA HooksPromise == ASSUME HookLimits, HooksInv PROVE Hooks!TypeOK /\ Hooks!QueueIsServed
<1>1. PICK q, ds, step : q = deliveryQueue /\ ds = deliveries /\ step = hookStep
  OBVIOUS
<1>2. HooksOK(q, ds, step) /\ DOMAIN endpoints \subseteq HookIds /\ hookTime \in 0 .. MaxHookTime
  BY <1>1 DEF HooksInv
<1>3. \E x : HooksQueued(q, ds, x)
  BY <1>2 DEF HooksOK
<1>4. /\ ds \in Seq(Hooks!WebhookDelivery) /\ q \in Seq(DOMAIN ds) /\ Distinct(q)
      /\ \A d \in Elements(q) : ds[d].status \in {"pending", "retrying"}
  BY <1>3 DEF HooksQueued
<1>5. Hooks!TypeOK
  BY <1>1, <1>2, <1>4 DEF Hooks!TypeOK, HooksOK
<1>6. \A i, j \in DOMAIN q : i # j => q[i] # q[j]
  BY <1>4 DEF Distinct
<1>7. \A i \in DOMAIN q : ds[q[i]].status \in {"pending", "retrying"}
  BY <1>4 DEF Elements
<1>8. step = "fetch" => q # <<>> /\ ds[q[1]].status = "retrying"
  BY <1>2 DEF HooksOK
<1>9. Hooks!Delivery = q[1]
  BY <1>1 DEF Hooks!Delivery
<1>10. q # <<>> => step # "idle"
  BY <1>2 DEF HooksOK
<1>11. Hooks!QueueIsServed
  BY <1>1, <1>6, <1>7, <1>8, <1>9, <1>10 DEF Hooks!QueueIsServed
<1> QED  BY <1>5, <1>11

\* No queue rests with something in it that could be sent: neither that of the webhooks,
\* which also names no delivery twice and has the one being sent at its head, nor that of
\* the mails (webhook.service.ts, email.service.ts).
THEOREM QueuesStayServed ==
  ASSUME HookLimits, MailQueueLimits
  PROVE  Hooks!Spec /\ Emails!Spec => []QueuesAreServed
<1>1. HooksInv => Hooks!QueueIsServed
  BY HooksPromise
<1>2. EmailInv => Emails!RestsBeforeScheduled
  BY EmailPromise
<1>3. Hooks!QueueIsServed /\ Emails!RestsBeforeScheduled => QueuesAreServed
  BY DEF QueuesAreServed
<1> QED  BY <1>1, <1>2, <1>3, HooksSpec, EmailSpec, PTL

\* The state of the webhook queue keeps its type: no delivery is attempted more often than
\* the webhooks allow (webhook.service.ts).
THEOREM HooksTypeCorrect == ASSUME HookLimits PROVE Hooks!Spec => []Hooks!TypeOK
<1>1. HooksInv => Hooks!TypeOK
  BY HooksPromise
<1> QED  BY <1>1, HooksSpec, PTL

-----------------------------------------------------------------------------
(* The limiters.                                                             *)

LimiterLimits ==
    /\ windowMs \in Nat \ {0} /\ maxRequests \in Nat \ {0} /\ blockDuration \in Nat
    /\ recordAge \in Nat /\ windowMs <= recordAge
    /\ capacity \in Nat \ {0} /\ refillRate \in Nat /\ refillInterval \in Nat \ {0}
    /\ MaxGrants \in Nat /\ MaxLimitTime \in Nat
    /\ Throttles \subseteq [limit : Nat, ttl : Nat]

\* The times g at which requests were allowed, up to the time t, in order.
InTime(g, t) ==
    /\ g \in Seq(0 .. t) /\ Len(g) <= MaxGrants
    /\ \A i, j \in DOMAIN g : i <= j => g[i] <= g[j]

\* Of any limit + 1 of them that follow each other, the last is a window after the first.
Rated(g, limit) ==
    \A i \in DOMAIN g : i + limit \in DOMAIN g => g[i + limit] - g[i] >= windowMs

\* Of the first k of them, fewer than maxRequests are later than t.
FewLater(g, k, t) == k >= maxRequests => g[k - maxRequests + 1] <= t

\* A window that began at the time f, with the count c, and those allowed in it after the
\* first k: as many as are counted only if the first came when the window began.
Window(g, f, c, k) ==
    /\ FewLater(g, k, f - windowMs)
    /\ k >= 1 => g[k] <= f
    /\ Len(g) - k <= c /\ Len(g) - k <= maxRequests
    /\ Len(g) > k /\ (Len(g) - k = c \/ Len(g) - k = maxRequests) => g[k + 1] = f

Windowed(g, f, c) == \E k \in 0 .. Len(g) : Window(g, f, c, k)

OneMoreGrant(g, t, h, n) ==
    /\ n \in Nat /\ InTime(h, t) /\ Len(h) = n + 1 /\ h[n + 1] = t
    /\ DOMAIN g = 1 .. n /\ DOMAIN h = 1 .. n + 1
    /\ \A i \in 1 .. n : h[i] = g[i] /\ g[i] \in 0 .. t
    /\ \A i, j \in 1 .. n : i <= j => g[i] <= g[j]

LEMMA InTimeFacts ==
  ASSUME NEW t \in Nat, NEW g, InTime(g, t)
  PROVE  /\ Len(g) \in Nat /\ DOMAIN g = 1 .. Len(g)
         /\ \A i \in 1 .. Len(g) : g[i] \in 0 .. t /\ g[i] \in Int
         /\ \A i, j \in 1 .. Len(g) : i <= j => g[i] <= g[j]
<1>1. g \in Seq(0 .. t) /\ \A i, j \in DOMAIN g : i <= j => g[i] <= g[j]
  BY DEF InTime
<1>2. Len(g) \in Nat /\ DOMAIN g = 1 .. Len(g) /\ \A i \in DOMAIN g : g[i] \in 0 .. t
  BY <1>1
<1> QED  BY <1>1, <1>2

LEMMA GrantedNow ==
  ASSUME LimiterLimits, NEW t \in Nat, NEW g, InTime(g, t), Len(g) < MaxGrants,
         NEW h, h = Append(g, t), NEW n, n = Len(g)
  PROVE  OneMoreGrant(g, t, h, n)
<1>1. g \in Seq(0 .. t) /\ n \in Nat /\ DOMAIN g = 1 .. n
  BY DEF InTime
<1>2. t \in 0 .. t
  OBVIOUS
<1>3. h \in Seq(0 .. t) /\ Len(h) = n + 1 /\ h[n + 1] = t /\ DOMAIN h = 1 .. n + 1
  BY <1>1, <1>2
<1>4. \A i \in 1 .. n : h[i] = g[i] /\ g[i] \in 0 .. t
  BY <1>1
<1>5. \A i, j \in 1 .. n : i <= j => g[i] <= g[j]
  BY <1>1 DEF InTime
<1>6. Len(h) <= MaxGrants
  BY <1>1, <1>3 DEF LimiterLimits
<1>7. ASSUME NEW i \in DOMAIN h, NEW j \in DOMAIN h, i <= j PROVE h[i] <= h[j]
  <2>1. CASE j \in 1 .. n
    <3>1. i \in 1 .. n
      BY <1>1, <1>3, <1>7, <2>1
    <3> QED  BY <1>4, <1>5, <1>7, <2>1, <3>1
  <2>2. CASE j = n + 1
    <3>1. h[j] = t
      BY <1>3, <2>2
    <3>2. h[i] \in 0 .. t
      BY <1>3
    <3> QED  BY <3>1, <3>2
  <2> QED  BY <1>1, <1>3, <2>1, <2>2
<1>8. InTime(h, t)
  BY <1>3, <1>6, <1>7 DEF InTime
<1> QED  BY <1>1, <1>3, <1>4, <1>5, <1>8 DEF OneMoreGrant

\* One more keeps the rate if the one that is limit before it is a window ago.
LEMMA RatedMore ==
  ASSUME LimiterLimits, NEW t \in Nat, NEW g, InTime(g, t), Len(g) < MaxGrants,
         NEW limit \in Nat \ {0}, Rated(g, limit),
         NEW h, h = Append(g, t), NEW n, n = Len(g),
         \A i \in 1 .. n : i + limit = n + 1 => g[i] <= t - windowMs
  PROVE  Rated(h, limit)
<1>1. /\ n \in Nat /\ h[n + 1] = t /\ DOMAIN g = 1 .. n /\ DOMAIN h = 1 .. n + 1
      /\ \A i \in 1 .. n : h[i] = g[i] /\ g[i] \in 0 .. t
  <2>1. OneMoreGrant(g, t, h, n)
    BY GrantedNow
  <2> QED  BY <2>1 DEF OneMoreGrant
<1>2. SUFFICES ASSUME NEW i \in DOMAIN h, i + limit \in DOMAIN h
               PROVE  h[i + limit] - h[i] >= windowMs
  BY DEF Rated
<1>3. PICK j : j = i + limit
  OBVIOUS
<1>4. i \in 1 .. n /\ j \in 1 .. n + 1 /\ i + limit = j
  BY <1>1, <1>2, <1>3
<1>5. CASE j = n + 1
  <2>1. g[i] <= t - windowMs
    BY <1>4, <1>5
  <2>2. h[j] = t /\ h[i] = g[i] /\ g[i] \in Int
    BY <1>1, <1>4, <1>5
  <2>3. windowMs \in Int
    BY DEF LimiterLimits
  <2> QED  BY <1>3, <2>1, <2>2, <2>3
<1>6. CASE j \in 1 .. n
  <2>1. g[j] - g[i] >= windowMs
    BY <1>1, <1>3, <1>4, <1>6 DEF Rated
  <2> QED  BY <1>1, <1>3, <1>4, <1>6, <2>1
<1> QED  BY <1>1, <1>4, <1>5, <1>6

\* A window that is over leaves fewer than maxRequests in the last windowMs.
LEMMA WindowOver ==
  ASSUME LimiterLimits, NEW t \in Nat, NEW g, InTime(g, t), NEW f \in Nat,
         NEW c \in Nat, Windowed(g, f, c), t - f >= windowMs
  PROVE  FewLater(g, Len(g), t - windowMs)
<1>1. PICK n, M, W : n = Len(g) /\ M = maxRequests /\ W = windowMs
  OBVIOUS
<1>2. M \in Nat \ {0} /\ W \in Nat
  BY <1>1 DEF LimiterLimits
<1>3. /\ n \in Nat /\ \A i \in 1 .. n : g[i] \in Int
      /\ \A i, j \in 1 .. n : i <= j => g[i] <= g[j]
  BY <1>1, InTimeFacts
<1>4. PICK k \in 0 .. n : Window(g, f, c, k)
  BY <1>1 DEF Windowed
<1>5. SUFFICES ASSUME n >= M PROVE g[n - M + 1] <= t - W
  BY <1>1 DEF FewLater
<1>6. PICK i : i = n - M + 1
  OBVIOUS
<1>7. i \in 1 .. n /\ f <= t - W
  BY <1>1, <1>2, <1>3, <1>5, <1>6
<1>8. CASE n - k = M
  <2>1. i = k + 1 /\ n > k
    BY <1>2, <1>3, <1>4, <1>6, <1>8
  <2>2. g[k + 1] = f
    BY <1>1, <1>4, <1>8, <2>1 DEF Window
  <2> QED  BY <1>6, <1>7, <2>1, <2>2
<1>9. CASE n - k # M
  <2>1. n - k <= M
    BY <1>1, <1>4 DEF Window
  <2>2. i <= k /\ k >= 1 /\ k \in 1 .. n
    BY <1>2, <1>3, <1>4, <1>6, <1>7, <1>9, <2>1
  <2>3. g[k] <= f
    BY <1>4, <2>2 DEF Window
  <2>4. g[i] <= g[k] /\ g[i] \in Int /\ g[k] \in Int
    BY <1>3, <1>7, <2>2
  <2>5. g[i] <= t - W
    BY <1>1, <1>2, <1>7, <2>3, <2>4
  <2> QED  BY <1>6, <2>5
<1> QED  BY <1>8, <1>9

\* The first request of a window.
LEMMA WindowBegins ==
  ASSUME LimiterLimits, NEW t \in Nat, NEW g, InTime(g, t), Len(g) < MaxGrants,
         Rated(g, 2 * maxRequests - 1), FewLater(g, Len(g), t - windowMs),
         NEW h, h = Append(g, t)
  PROVE  Rated(h, 2 * maxRequests - 1) /\ Windowed(h, t, 1)
<1>1. PICK n, M, W, L : n = Len(g) /\ M = maxRequests /\ W = windowMs /\ L = 2 * M - 1
  OBVIOUS
<1>2. M \in Nat \ {0} /\ W \in Nat /\ L \in Nat \ {0} /\ L = 2 * M - 1
  BY <1>1 DEF LimiterLimits
<1>3. /\ n \in Nat /\ Len(h) = n + 1 /\ h[n + 1] = t
      /\ \A i \in 1 .. n : h[i] = g[i] /\ g[i] \in 0 .. t
      /\ \A i, j \in 1 .. n : i <= j => g[i] <= g[j]
  <2>1. n = Len(g)
    BY <1>1
  <2>2. OneMoreGrant(g, t, h, n)
    BY <2>1, GrantedNow
  <2> QED  BY <2>2 DEF OneMoreGrant
<1>4. n >= M => g[n - M + 1] <= t - W
  BY <1>1 DEF FewLater
<1>5. Rated(h, L)
  <2>1. ASSUME NEW i \in 1 .. n, i + L = n + 1 PROVE g[i] <= t - W
    <3>1. PICK j : j = n - M + 1
      OBVIOUS
    <3>2. n >= M /\ j \in 1 .. n /\ i <= j
      BY <1>2, <1>3, <2>1, <3>1
    <3>3. g[i] <= g[j] /\ g[j] <= t - W /\ g[i] \in Int /\ g[j] \in Int
      BY <1>3, <1>4, <3>1, <3>2
    <3> QED  BY <1>2, <3>3
  <2> QED  BY <1>1, <1>2, <2>1, RatedMore
<1>6. Window(h, t, 1, n)
  <2>1. FewLater(h, n, t - W)
    <3>1. ASSUME n >= M PROVE h[n - M + 1] <= t - W
      <4>1. n - M + 1 \in 1 .. n
        BY <1>2, <1>3, <3>1
      <4> QED  BY <1>3, <1>4, <3>1, <4>1
    <3> QED  BY <1>1, <3>1 DEF FewLater
  <2>2. n >= 1 => h[n] <= t
    BY <1>3
  <2>3. Len(h) - n <= 1 /\ Len(h) - n <= maxRequests /\ h[n + 1] = t
    BY <1>1, <1>2, <1>3
  <2> QED  BY <1>1, <2>1, <2>2, <2>3 DEF Window
<1>7. n \in 0 .. Len(h)
  BY <1>3
<1> QED  BY <1>1, <1>5, <1>6, <1>7 DEF Windowed

\* Another request of a window that is not full.
LEMMA WindowGoesOn ==
  ASSUME LimiterLimits, NEW t \in Nat, NEW g, InTime(g, t), Len(g) < MaxGrants,
         Rated(g, 2 * maxRequests - 1), NEW f \in 0 .. t, NEW c \in Nat \ {0}, c < maxRequests,
         Windowed(g, f, c), NEW h, h = Append(g, t)
  PROVE  Rated(h, 2 * maxRequests - 1) /\ Windowed(h, f, c + 1)
<1>1. PICK n, M, W, L : n = Len(g) /\ M = maxRequests /\ W = windowMs /\ L = 2 * M - 1
  OBVIOUS
<1>2. M \in Nat \ {0} /\ W \in Nat /\ L \in Nat \ {0} /\ L = 2 * M - 1 /\ c < M
  BY <1>1 DEF LimiterLimits
<1>3. /\ n \in Nat /\ Len(h) = n + 1 /\ h[n + 1] = t
      /\ \A i \in 1 .. n : h[i] = g[i] /\ g[i] \in 0 .. t
      /\ \A i, j \in 1 .. n : i <= j => g[i] <= g[j]
  <2>1. n = Len(g)
    BY <1>1
  <2>2. OneMoreGrant(g, t, h, n)
    BY <2>1, GrantedNow
  <2> QED  BY <2>2 DEF OneMoreGrant
<1>4. PICK k \in 0 .. n : Window(g, f, c, k)
  BY <1>1 DEF Windowed
<1>5. /\ k >= M => g[k - M + 1] <= f - W
      /\ k >= 1 => g[k] <= f
      /\ n - k <= c
      /\ n > k /\ n - k = c => g[k + 1] = f
  BY <1>1, <1>4 DEF Window, FewLater
<1>6. Rated(h, L)
  <2>1. ASSUME NEW i \in 1 .. n, i + L = n + 1 PROVE g[i] <= t - W
    <3>1. PICK j : j = k - M + 1
      OBVIOUS
    <3>2. k >= M /\ j \in 1 .. n /\ i <= j
      BY <1>2, <1>3, <1>5, <2>1, <3>1
    <3>3. g[i] <= g[j] /\ g[j] <= f - W /\ g[i] \in Int /\ g[j] \in Int
      BY <1>3, <1>5, <3>1, <3>2
    <3> QED  BY <1>2, <3>3
  <2> QED  BY <1>1, <1>2, <2>1, RatedMore
<1>7. Window(h, f, c + 1, k)
  <2>1. FewLater(h, k, f - W)
    <3>1. ASSUME k >= M PROVE h[k - M + 1] <= f - W
      <4>1. k - M + 1 \in 1 .. n
        BY <1>2, <1>3, <3>1
      <4> QED  BY <1>3, <1>5, <3>1, <4>1
    <3> QED  BY <1>1, <3>1 DEF FewLater
  <2>2. k >= 1 => h[k] <= f
    BY <1>3, <1>5
  <2>3. Len(h) - k <= c + 1 /\ Len(h) - k <= M
    BY <1>2, <1>3, <1>5
  <2>4. ASSUME Len(h) > k, Len(h) - k = c + 1 \/ Len(h) - k = M PROVE h[k + 1] = f
    <3>1. n - k = c
      BY <1>2, <1>3, <1>5, <2>4
    <3>2. n > k
      BY <1>3, <3>1
    <3> QED  BY <1>3, <1>5, <3>1, <3>2
  <2> QED  BY <1>1, <2>1, <2>2, <2>3, <2>4 DEF Window
<1>8. k \in 0 .. Len(h)
  BY <1>3
<1> QED  BY <1>1, <1>6, <1>7, <1>8 DEF Windowed

\* A count may be raised without a request.
LEMMA WindowCounted ==
  ASSUME LimiterLimits, NEW t \in Nat, NEW g, InTime(g, t), NEW f, NEW c \in Nat, NEW d \in Nat,
         c <= d, Windowed(g, f, c)
  PROVE  Windowed(g, f, d)
<1>1. PICK n : n = Len(g)
  OBVIOUS
<1>2. n \in Nat /\ maxRequests \in Nat
  BY <1>1 DEF InTime, LimiterLimits
<1>3. PICK k \in 0 .. n : Window(g, f, c, k)
  BY <1>1 DEF Windowed
<1>4. n - k <= c /\ n - k \in Nat
  BY <1>1, <1>2, <1>3 DEF Window
<1>5. n - k <= d /\ (n - k = d => n - k = c)
  BY <1>4
<1>6. Window(g, f, d, k)
  BY <1>1, <1>3, <1>5 DEF Window
<1> QED  BY <1>1, <1>6 DEF Windowed

LEMMA WindowBumped ==
  ASSUME LimiterLimits, NEW t \in Nat, NEW g, InTime(g, t), FewLater(g, Len(g), t - windowMs)
  PROVE  Windowed(g, t, 1)
<1>1. PICK n : n = Len(g)
  OBVIOUS
<1>2. n \in 0 .. Len(g) /\ n - n = 0 /\ ~(n > n)
  BY <1>1 DEF InTime
<1>3. n >= 1 => g[n] <= t
  BY <1>1 DEF InTime
<1>4. Window(g, t, 1, n)
  BY <1>1, <1>2, <1>3 DEF Window, LimiterLimits
<1> QED  BY <1>2, <1>4 DEF Windowed

LEMMA LaterTime ==
  ASSUME LimiterLimits, NEW t \in Nat, NEW g, InTime(g, t)
  PROVE  /\ InTime(g, t + 1)
         /\ \A k \in 0 .. Len(g) : FewLater(g, k, t - windowMs) => FewLater(g, k, t + 1 - windowMs)
<1>1. g \in Seq(0 .. t + 1)
  <2>1. 0 .. t \subseteq 0 .. t + 1
    OBVIOUS
  <2> QED  BY <2>1, LargerSeq DEF InTime
<1>2. ASSUME NEW k \in 0 .. Len(g), FewLater(g, k, t - windowMs), k >= maxRequests
      PROVE  g[k - maxRequests + 1] <= t + 1 - windowMs
  <2>1. PICK i, W : i = k - maxRequests + 1 /\ W = windowMs
    OBVIOUS
  <2>2. Len(g) \in Nat /\ maxRequests \in Nat \ {0} /\ W \in Nat
    BY <2>1 DEF InTime, LimiterLimits
  <2>3. i \in 1 .. Len(g)
    BY <1>2, <2>1, <2>2
  <2>4. g[i] \in Int /\ g[i] <= t - W
    BY <1>2, <2>1, <2>3 DEF InTime, FewLater
  <2> QED  BY <2>1, <2>2, <2>4
<1> QED  BY <1>1, <1>2 DEF InTime, FewLater

-----------------------------------------------------------------------------
(* The rate limiter service and the middleware.                              *)

Requested(f, c, b) == [count |-> c, firstRequest |-> f, blockedUntil |-> b]
Entered(f, c) == [count |-> c, resetTime |-> f + windowMs]

FixedOK(S, g, t) ==
    /\ Rated(g, 2 * maxRequests - 1)
    /\ \/ S = {} /\ FewLater(g, Len(g), t - windowMs)
       \/ \E f \in 0 .. t, c \in 1 .. maxRequests + 1, b \in 0 .. MaxLimitTime + blockDuration :
             S = {Requested(f, c, b)} /\ Windowed(g, f, c)

MiddlewareOK(S, g, t) ==
    /\ Rated(g, 2 * maxRequests - 1)
    /\ \/ S = {} /\ FewLater(g, Len(g), t - windowMs)
       \/ \E f \in 0 .. t, c \in 1 .. maxRequests + 1 :
             S = {Entered(f, c)} /\ Windowed(g, f, c)

LEMMA CountedIs ==
  ASSUME LimiterLimits, NEW c \in 1 .. maxRequests + 1, NEW r, r.count = c
  PROVE  /\ Limits!Counted(r) \in 1 .. maxRequests + 1 /\ c <= Limits!Counted(r)
         /\ Limits!Counted(r) <= maxRequests => c < maxRequests /\ Limits!Counted(r) = c + 1
BY DEF LimiterLimits, Limits!Counted

LEMMA GrantIs ==
  ASSUME LimiterLimits, NEW t \in Nat, t = limitTime, NEW g, g = grants, InTime(g, t),
         Limits!Granted
  PROVE  Len(g) < MaxGrants /\ grants' = Append(g, t) /\ InTime(grants', t)
<1>1. Len(g) < MaxGrants /\ grants' = Append(g, t)
  BY DEF Limits!Granted
<1>2. PICK h : h = Append(g, t)
  OBVIOUS
<1>3. OneMoreGrant(g, t, h, Len(g))
  BY <1>1, <1>2, GrantedNow
<1> QED  BY <1>1, <1>2, <1>3 DEF OneMoreGrant

LEMMA CountRequestStep ==
  ASSUME LimiterLimits, NEW t \in 0 .. MaxLimitTime, t = limitTime, NEW g, g = grants,
         InTime(g, t), FixedOK(record, g, t), Limits!CountRequest
  PROVE  InTime(grants', t) /\ FixedOK(record', grants', t)
<1>1. t \in Nat /\ MaxLimitTime \in Nat /\ blockDuration \in Nat
  BY DEF LimiterLimits
<1>2. CASE Limits!NewRecord /\ Limits!Granted /\ \A r \in record : t - r.firstRequest >= windowMs
  <2>1. Len(g) < MaxGrants /\ grants' = Append(g, t) /\ InTime(grants', t)
    BY <1>1, <1>2, GrantIs
  <2>2. FewLater(g, Len(g), t - windowMs)
    <3>1. ASSUME NEW f \in 0 .. t, NEW c \in 1 .. maxRequests + 1, NEW b,
                 record = {Requested(f, c, b)}, Windowed(g, f, c)
          PROVE  FewLater(g, Len(g), t - windowMs)
      <4>1. Requested(f, c, b) \in record /\ Requested(f, c, b).firstRequest = f
        BY <3>1 DEF Requested
      <4>2. t - f >= windowMs /\ f \in Nat /\ c \in Nat
        BY <1>2, <4>1
      <4> QED  BY <1>1, <3>1, <4>2, WindowOver
    <3> QED  BY <3>1 DEF FixedOK
  <2>3. PICK h : h = Append(g, t)
    OBVIOUS
  <2>4. Rated(g, 2 * maxRequests - 1)
    BY DEF FixedOK
  <2>5. Rated(h, 2 * maxRequests - 1) /\ Windowed(h, t, 1)
    BY <1>1, <2>1, <2>2, <2>3, <2>4, WindowBegins
  <2>6. record' = {Requested(t, 1, 0)}
    BY <1>2 DEF Limits!NewRecord, Limits!NoBlock, Requested
  <2>7. t \in 0 .. t /\ 1 \in 1 .. maxRequests + 1 /\ 0 \in 0 .. MaxLimitTime + blockDuration
    BY <1>1 DEF LimiterLimits
  <2>8. FixedOK(record', h, t)
    BY <2>5, <2>6, <2>7 DEF FixedOK
  <2> QED  BY <2>1, <2>3, <2>8
<1>3. ASSUME NEW r \in record,
             IF Limits!Counted(r) > maxRequests
             THEN /\ Limits!Refused
                  /\ record' = {[r EXCEPT !.count = Limits!Counted(r),
                                   !.blockedUntil = IF blockDuration = 0 THEN @
                                                    ELSE limitTime + blockDuration]}
             ELSE Limits!Granted /\ record' = {[r EXCEPT !.count = Limits!Counted(r)]}
      PROVE  InTime(grants', t) /\ FixedOK(record', grants', t)
  <2>1. PICK f \in 0 .. t, c \in 1 .. maxRequests + 1, b \in 0 .. MaxLimitTime + blockDuration :
               record = {Requested(f, c, b)} /\ Windowed(g, f, c)
    BY <1>3 DEF FixedOK
  <2>2. r = Requested(f, c, b)
    BY <1>3, <2>1
  <2>3. PICK d : d = Limits!Counted(r)
    OBVIOUS
  <2>4. r.count = c /\ c \in Nat
    BY <2>2 DEF Requested
  <2>5. d \in 1 .. maxRequests + 1 /\ c <= d /\ (d <= maxRequests => c < maxRequests /\ d = c + 1)
    BY <2>3, <2>4, CountedIs
  <2>6. Rated(g, 2 * maxRequests - 1)
    BY DEF FixedOK
  <2>7. CASE d > maxRequests
    <3>1. grants' = g
      BY <1>3, <2>3, <2>7 DEF Limits!Refused
    <3>2. PICK e : e = IF blockDuration = 0 THEN b ELSE t + blockDuration
      OBVIOUS
    <3>3. e \in 0 .. MaxLimitTime + blockDuration
      BY <1>1, <3>2
    <3>4. record' = {Requested(f, d, e)}
      <4>1. r.blockedUntil = b /\ r.count = c /\ r.firstRequest = f
        BY <2>2 DEF Requested
      <4>2. record' = {[r EXCEPT !.count = d,
                          !.blockedUntil = IF blockDuration = 0 THEN @
                                           ELSE limitTime + blockDuration]}
        BY <1>3, <2>3, <2>7
      <4>3. [r EXCEPT !.count = d, !.blockedUntil = IF blockDuration = 0 THEN @
                                                    ELSE limitTime + blockDuration]
            = [r EXCEPT !.count = d, !.blockedUntil = e]
        BY <2>2, <3>2, <4>1 DEF Requested
      <4>4. [r EXCEPT !.count = d, !.blockedUntil = e] = Requested(f, d, e)
        <5>1. PICK v : v = [r EXCEPT !.count = d]
          OBVIOUS
        <5>2. v = Requested(f, d, b)
          BY <2>2, <5>1 DEF Requested
        <5>3. [v EXCEPT !.blockedUntil = e] = Requested(f, d, e)
          BY <5>2 DEF Requested
        <5> QED  BY <5>1, <5>3
      <4> QED  BY <4>2, <4>3, <4>4
    <3>5. Windowed(g, f, d)
      BY <1>1, <2>1, <2>4, <2>5, WindowCounted
    <3>6. FixedOK(record', g, t)
      BY <2>5, <2>6, <3>3, <3>4, <3>5 DEF FixedOK
    <3> QED  BY <3>1, <3>6
  <2>8. CASE ~(d > maxRequests)
    <3>1. Limits!Granted /\ record' = {[r EXCEPT !.count = d]}
      BY <1>3, <2>3, <2>8
    <3>2. Len(g) < MaxGrants /\ grants' = Append(g, t) /\ InTime(grants', t)
      BY <1>1, <3>1, GrantIs
    <3>3. PICK h : h = Append(g, t)
      OBVIOUS
    <3>4. c < maxRequests /\ d = c + 1 /\ c \in Nat \ {0}
      BY <2>5, <2>8 DEF LimiterLimits
    <3>5. Rated(h, 2 * maxRequests - 1) /\ Windowed(h, f, c + 1)
      BY <1>1, <2>1, <2>6, <3>2, <3>3, <3>4, WindowGoesOn
    <3>6. record' = {Requested(f, d, b)}
      BY <2>2, <3>1 DEF Requested
    <3>7. FixedOK(record', h, t)
      BY <2>5, <3>4, <3>5, <3>6 DEF FixedOK
    <3> QED  BY <3>2, <3>3, <3>7
  <2> QED  BY <2>7, <2>8
<1> QED  BY <1>2, <1>3 DEF Limits!CountRequest

LEMMA IncrementStep ==
  ASSUME LimiterLimits, NEW t \in 0 .. MaxLimitTime, t = limitTime, NEW g, g = grants,
         InTime(g, t), FixedOK(record, g, t), Limits!incrementCounter
  PROVE  FixedOK(record', g, t)
<1>1. t \in Nat /\ MaxLimitTime \in Nat /\ blockDuration \in Nat
  BY DEF LimiterLimits
<1>2. Rated(g, 2 * maxRequests - 1)
  BY DEF FixedOK
<1>3. CASE record = {}
  <2>1. FewLater(g, Len(g), t - windowMs)
    BY <1>3 DEF FixedOK
  <2>2. Windowed(g, t, 1)
    BY <1>1, <2>1, WindowBumped
  <2>3. record' = {Requested(t, 1, 0)}
    BY <1>3 DEF Limits!incrementCounter, Limits!NewRecord, Limits!NoBlock, Requested
  <2>4. t \in 0 .. t /\ 1 \in 1 .. maxRequests + 1 /\ 0 \in 0 .. MaxLimitTime + blockDuration
    BY <1>1 DEF LimiterLimits
  <2> QED  BY <1>2, <2>2, <2>3, <2>4 DEF FixedOK
<1>4. CASE record # {}
  <2>1. PICK f \in 0 .. t, c \in 1 .. maxRequests + 1, b \in 0 .. MaxLimitTime + blockDuration :
               record = {Requested(f, c, b)} /\ Windowed(g, f, c)
    BY <1>4 DEF FixedOK
  <2>2. PICK r, d : r = Requested(f, c, b) /\ d = Limits!Counted(r)
    OBVIOUS
  <2>3. r.count = c /\ c \in Nat
    BY <2>2 DEF Requested
  <2>4. d \in 1 .. maxRequests + 1 /\ c <= d /\ d \in Nat
    BY <2>2, <2>3, CountedIs
  <2>5. record' = {[r EXCEPT !.count = d]}
    BY <1>4, <2>1, <2>2 DEF Limits!incrementCounter
  <2>6. record' = {Requested(f, d, b)}
    BY <2>2, <2>5 DEF Requested
  <2>7. Windowed(g, f, d)
    BY <1>1, <2>1, <2>3, <2>4, WindowCounted
  <2> QED  BY <1>2, <2>4, <2>6, <2>7 DEF FixedOK
<1> QED  BY <1>3, <1>4

LEMMA CleanupStep ==
  ASSUME LimiterLimits, NEW t \in 0 .. MaxLimitTime, t = limitTime, NEW g, g = grants,
         InTime(g, t), FixedOK(record, g, t), Limits!cleanup
  PROVE  FixedOK(record', g, t)
<1>1. t \in Nat /\ windowMs \in Nat /\ recordAge \in Nat /\ windowMs <= recordAge
  BY DEF LimiterLimits
<1>2. record' = {r \in record : t - r.firstRequest <= recordAge}
  BY DEF Limits!cleanup
<1>3. CASE record = {}
  BY <1>2, <1>3 DEF FixedOK
<1>4. CASE record # {}
  <2>1. PICK f \in 0 .. t, c \in 1 .. maxRequests + 1, b \in 0 .. MaxLimitTime + blockDuration :
               record = {Requested(f, c, b)} /\ Windowed(g, f, c)
    BY <1>4 DEF FixedOK
  <2>2. Requested(f, c, b).firstRequest = f /\ f \in Nat /\ c \in Nat
    BY <1>1 DEF Requested
  <2>3. CASE t - f <= recordAge
    <3>1. record' = record
      BY <1>2, <2>1, <2>2, <2>3
    <3> QED  BY <3>1
  <2>4. CASE ~(t - f <= recordAge)
    <3>1. record' = {}
      BY <1>2, <2>1, <2>2, <2>4
    <3>2. t - f >= windowMs
      BY <1>1, <2>2, <2>4
    <3>3. FewLater(g, Len(g), t - windowMs)
      BY <1>1, <2>1, <2>2, <3>2, WindowOver
    <3> QED  BY <3>1, <3>3 DEF FixedOK
  <2> QED  BY <2>3, <2>4
<1> QED  BY <1>3, <1>4

LEMMA UseStep ==
  ASSUME LimiterLimits, NEW t \in 0 .. MaxLimitTime, t = limitTime, NEW g, g = grants,
         InTime(g, t), MiddlewareOK(entry, g, t), Limits!use
  PROVE  InTime(grants', t) /\ MiddlewareOK(entry', grants', t)
<1>1. t \in Nat /\ windowMs \in Nat
  BY DEF LimiterLimits
<1>2. CASE \A e \in entry : t > e.resetTime
  <2>1. Limits!Granted /\ entry' = {Entered(t, 1)}
    BY <1>2 DEF Limits!use, Entered
  <2>2. Len(g) < MaxGrants /\ grants' = Append(g, t) /\ InTime(grants', t)
    BY <1>1, <2>1, GrantIs
  <2>3. FewLater(g, Len(g), t - windowMs)
    <3>1. ASSUME NEW f \in 0 .. t, NEW c \in 1 .. maxRequests + 1,
                 entry = {Entered(f, c)}, Windowed(g, f, c)
          PROVE  FewLater(g, Len(g), t - windowMs)
      <4>1. Entered(f, c) \in entry /\ Entered(f, c).resetTime = f + windowMs
        BY <3>1 DEF Entered
      <4>2. t > f + windowMs
        BY <1>2, <4>1
      <4>3. t - f >= windowMs /\ f \in Nat /\ c \in Nat
        BY <1>1, <4>2
      <4> QED  BY <1>1, <3>1, <4>3, WindowOver
    <3> QED  BY <3>1 DEF MiddlewareOK
  <2>4. PICK h : h = Append(g, t)
    OBVIOUS
  <2>5. Rated(g, 2 * maxRequests - 1)
    BY DEF MiddlewareOK
  <2>6. Rated(h, 2 * maxRequests - 1) /\ Windowed(h, t, 1)
    BY <1>1, <2>2, <2>3, <2>4, <2>5, WindowBegins
  <2>7. t \in 0 .. t /\ 1 \in 1 .. maxRequests + 1
    BY <1>1 DEF LimiterLimits
  <2>8. MiddlewareOK(entry', h, t)
    BY <2>1, <2>6, <2>7 DEF MiddlewareOK
  <2> QED  BY <2>2, <2>4, <2>8
<1>3. CASE ~(\A e \in entry : t > e.resetTime)
  <2>1. PICK r \in entry : /\ entry' = {[r EXCEPT !.count = Limits!Counted(r)]}
                           /\ IF Limits!Counted(r) > maxRequests THEN Limits!Refused
                              ELSE Limits!Granted
    BY <1>3 DEF Limits!use
  <2>2. PICK f \in 0 .. t, c \in 1 .. maxRequests + 1 : entry = {Entered(f, c)} /\ Windowed(g, f, c)
    BY <2>1 DEF MiddlewareOK
  <2>3. PICK d : d = Limits!Counted(r)
    OBVIOUS
  <2>4. r = Entered(f, c) /\ r.count = c /\ c \in Nat
    BY <2>1, <2>2 DEF Entered
  <2>5. d \in 1 .. maxRequests + 1 /\ c <= d /\ (d <= maxRequests => c < maxRequests /\ d = c + 1)
    BY <2>3, <2>4, CountedIs
  <2>6. Rated(g, 2 * maxRequests - 1)
    BY DEF MiddlewareOK
  <2>7. entry' = {Entered(f, d)}
    BY <2>1, <2>3, <2>4 DEF Entered
  <2>8. CASE d > maxRequests
    <3>1. grants' = g
      BY <2>1, <2>3, <2>8 DEF Limits!Refused
    <3>2. Windowed(g, f, d)
      BY <1>1, <2>2, <2>4, <2>5, WindowCounted
    <3>3. MiddlewareOK(entry', g, t)
      BY <2>5, <2>6, <2>7, <3>2 DEF MiddlewareOK
    <3> QED  BY <3>1, <3>3
  <2>9. CASE ~(d > maxRequests)
    <3>1. Limits!Granted
      BY <2>1, <2>3, <2>9
    <3>2. Len(g) < MaxGrants /\ grants' = Append(g, t) /\ InTime(grants', t)
      BY <1>1, <3>1, GrantIs
    <3>3. PICK h : h = Append(g, t)
      OBVIOUS
    <3>4. c < maxRequests /\ d = c + 1 /\ c \in Nat \ {0}
      BY <2>5, <2>9 DEF LimiterLimits
    <3>5. Rated(h, 2 * maxRequests - 1) /\ Windowed(h, f, c + 1)
      BY <1>1, <2>2, <2>6, <3>2, <3>3, <3>4, WindowGoesOn
    <3>6. MiddlewareOK(entry', h, t)
      BY <2>5, <2>7, <3>4, <3>5 DEF MiddlewareOK
    <3> QED  BY <3>2, <3>3, <3>6
  <2> QED  BY <2>8, <2>9
<1> QED  BY <1>2, <1>3

LEMMA MiddlewareCleanupStep ==
  ASSUME LimiterLimits, NEW t \in 0 .. MaxLimitTime, t = limitTime, NEW g, g = grants,
         InTime(g, t), MiddlewareOK(entry, g, t), Limits!MiddlewareCleanup
  PROVE  MiddlewareOK(entry', g, t)
<1>1. t \in Nat /\ windowMs \in Nat
  BY DEF LimiterLimits
<1>2. entry' = {e \in entry : t <= e.resetTime}
  BY DEF Limits!MiddlewareCleanup
<1>3. CASE entry = {}
  BY <1>2, <1>3 DEF MiddlewareOK
<1>4. CASE entry # {}
  <2>1. PICK f \in 0 .. t, c \in 1 .. maxRequests + 1 : entry = {Entered(f, c)} /\ Windowed(g, f, c)
    BY <1>4 DEF MiddlewareOK
  <2>2. Entered(f, c).resetTime = f + windowMs /\ f \in Nat /\ c \in Nat
    BY <1>1 DEF Entered
  <2>3. CASE t <= f + windowMs
    <3>1. entry' = entry
      BY <1>2, <2>1, <2>2, <2>3
    <3> QED  BY <3>1
  <2>4. CASE ~(t <= f + windowMs)
    <3>1. entry' = {}
      BY <1>2, <2>1, <2>2, <2>4
    <3>2. t - f >= windowMs
      BY <1>1, <2>2, <2>4
    <3>3. FewLater(g, Len(g), t - windowMs)
      BY <1>1, <2>1, <2>2, <3>2, WindowOver
    <3> QED  BY <3>1, <3>3 DEF MiddlewareOK
  <2> QED  BY <2>3, <2>4
<1> QED  BY <1>3, <1>4

-----------------------------------------------------------------------------
(* The sliding window and the throttle guard.                                *)

\* s is what is left of g without its first p.
Suffix(s, g, p) ==
    /\ s \in Seq(0 .. MaxLimitTime) /\ Len(s) = Len(g) - p
    /\ \A i \in 1 .. Len(s) : s[i] = g[p + i]

SuffixFrom(s, g, p, t) == Suffix(s, g, p) /\ (p >= 1 => g[p] <= t - windowMs)

SlidingOK(s, g, t) ==
    Rated(g, maxRequests) /\ \E p \in 0 .. Len(g) : SuffixFrom(s, g, p, t)

LEMMA LastPart ==
  ASSUME NEW S, NEW s \in Seq(S), NEW m, m = Len(s), NEW o \in 0 .. m, NEW l,
         l = SubSeq(s, o + 1, m)
  PROVE  l \in Seq(S) /\ Len(l) = m - o /\ \A i \in 1 .. m - o : l[i] = s[o + i]
<1>1. m \in Nat /\ \A i \in 1 .. m : s[i] \in S
  OBVIOUS
<1>2. l = [i \in 1 .. m - o |-> s[o + i]]
  BY <1>1
<1>3. \A i \in 1 .. m - o : o + i \in 1 .. m
  BY <1>1
<1>4. l \in [1 .. m - o -> S] /\ m - o \in Nat
  <2>1. \A i \in 1 .. m - o : s[o + i] \in S
    BY <1>1, <1>3
  <2>2. m - o \in Nat
    BY <1>1
  <2> QED  BY <1>2, <2>1, <2>2
<1> QED  BY <1>2, <1>4, IsSeq

LEMMA LaterIs ==
  ASSUME LimiterLimits, NEW t \in 0 .. MaxLimitTime, NEW g, InTime(g, t), NEW s, s = timestamps,
         NEW p \in 0 .. Len(g), Suffix(s, g, p), NEW x \in Int
  PROVE  \E q \in 0 .. Len(g) :
            /\ Suffix(Limits!Later(x), g, q)
            /\ q = p \/ (q >= 1 /\ g[q] <= x)
<1>1. PICK m, n : m = Len(s) /\ n = Len(g)
  OBVIOUS
<1>2. /\ m \in Nat /\ n \in Nat /\ p \in 0 .. n /\ m = n - p /\ DOMAIN s = 1 .. m
      /\ s \in Seq(0 .. MaxLimitTime)
      /\ \A i \in 1 .. m : s[i] = g[p + i]
      /\ \A i \in 1 .. n : g[i] \in Int
      /\ \A i, j \in 1 .. n : i <= j => g[i] <= g[j]
  <2>1. t \in Nat
    BY DEF LimiterLimits
  <2>2. /\ n \in Nat /\ \A i \in 1 .. n : g[i] \in Int
        /\ \A i, j \in 1 .. n : i <= j => g[i] <= g[j]
    BY <1>1, <2>1, InTimeFacts
  <2>3. m = n - p /\ \A i \in 1 .. m : s[i] = g[p + i]
    BY <1>1 DEF Suffix
  <2>4. s \in Seq(0 .. MaxLimitTime)
    BY DEF Suffix
  <2>5. Len(s) \in Nat /\ DOMAIN s = 1 .. Len(s)
    BY <2>4
  <2> QED  BY <1>1, <2>2, <2>3, <2>4, <2>5
<1>3. \A i \in 1 .. m : p + i \in 1 .. n /\ s[i] \in Int
  <2>1. ASSUME NEW i \in 1 .. m PROVE p + i \in 1 .. n
    BY <1>2
  <2>2. ASSUME NEW i \in 1 .. m PROVE s[i] \in Int
    BY <1>2, <2>1
  <2> QED  BY <2>1, <2>2
<1> DEFINE T == {i \in 1 .. m + 1 : i = m + 1 \/ s[i] > x}
           Old(o) == \A i \in DOMAIN s : s[i] <= x <=> i <= o
<1>4. \E o \in 0 .. m : Old(o)
  <2>1. T \subseteq Nat /\ m + 1 \in T
    BY <1>2
  <2>2. T # {}
    BY <2>1
  <2>3. PICK k \in T : \A i \in T : k <= i
    BY <2>1, <2>2, LeastNumber
  <2>4. k \in 1 .. m + 1 /\ (k = m + 1 \/ s[k] > x)
    OBVIOUS
  <2>5. PICK o : o = k - 1
    OBVIOUS
  <2>6. o \in 0 .. m
    BY <1>2, <2>4, <2>5
  <2>7. ASSUME NEW i \in 1 .. m PROVE s[i] <= x <=> i <= o
    <3>1. CASE i <= o
      <4>1. i \in 1 .. m + 1 /\ ~(k <= i)
        BY <1>2, <2>4, <2>5, <3>1
      <4>2. i \notin T
        BY <2>3, <4>1
      <4>3. ~(s[i] > x)
        BY <4>1, <4>2
      <4> QED  BY <1>3, <3>1, <4>3
    <3>2. CASE ~(i <= o)
      <4>1. k <= i /\ k \in 1 .. m
        BY <1>2, <2>4, <2>5, <3>2
      <4>2. s[k] > x /\ p + k <= p + i /\ p + k \in 1 .. n /\ p + i \in 1 .. n
        BY <1>2, <1>3, <2>4, <4>1
      <4>3. s[k] <= s[i] /\ s[k] \in Int /\ s[i] \in Int
        BY <1>2, <1>3, <4>1, <4>2
      <4> QED  BY <3>2, <4>2, <4>3
    <3> QED  BY <3>1, <3>2
  <2> QED  BY <1>2, <2>6, <2>7
<1>5. PICK o : o = CHOOSE k \in 0 .. m : Old(k)
  OBVIOUS
<1>6. o \in 0 .. m /\ Old(o)
  BY <1>4, <1>5
<1>7. Limits!Later(x) = SubSeq(s, o + 1, m)
  BY <1>1, <1>5 DEF Limits!Later
<1>8. PICK l, q : l = SubSeq(s, o + 1, m) /\ q = p + o
  OBVIOUS
<1>9. q \in 0 .. n
  BY <1>2, <1>6, <1>8
<1>10. /\ l \in Seq(0 .. MaxLimitTime) /\ Len(l) = m - o
       /\ \A i \in 1 .. m - o : l[i] = s[o + i]
  <2>1. o \in 0 .. m /\ m = Len(s) /\ l = SubSeq(s, o + 1, m)
    BY <1>1, <1>6, <1>8
  <2>2. PICK S : S = 0 .. MaxLimitTime
    OBVIOUS
  <2>3. s \in Seq(S)
    BY <1>2, <2>2
  <2>4. l \in Seq(S) /\ Len(l) = m - o /\ \A i \in 1 .. m - o : l[i] = s[o + i]
    BY <2>1, <2>3, LastPart
  <2> QED  BY <2>2, <2>4
<1>11. \A i \in 1 .. m - o : l[i] = g[q + i]
  <2>1. ASSUME NEW i \in 1 .. m - o PROVE l[i] = g[q + i]
    <3>1. o + i \in 1 .. m /\ p + (o + i) = q + i
      BY <1>2, <1>6, <1>8
    <3> QED  BY <1>2, <1>10, <3>1
  <2> QED  BY <2>1
<1>12. Len(l) = n - q
  BY <1>2, <1>6, <1>8, <1>10
<1>13. q = p \/ (q >= 1 /\ g[q] <= x)
  <2>1. CASE o = 0
    BY <1>2, <1>8, <2>1
  <2>2. CASE o # 0
    <3>1. o \in 1 .. m /\ q >= 1
      BY <1>2, <1>6, <1>8, <2>2
    <3>2. s[o] <= x
      <4>1. o \in DOMAIN s /\ o <= o
        BY <1>2, <3>1
      <4> QED  BY <1>6, <4>1
    <3>3. g[q] = s[o]
      BY <1>2, <1>8, <3>1
    <3> QED  BY <3>1, <3>2, <3>3
  <2> QED  BY <2>1, <2>2
<1>14. Suffix(l, g, q)
  BY <1>1, <1>10, <1>11, <1>12 DEF Suffix
<1> QED  BY <1>1, <1>7, <1>8, <1>9, <1>13, <1>14

LEMMA Pushed ==
  ASSUME LimiterLimits, NEW t \in 0 .. MaxLimitTime, t = limitTime, NEW g, g = grants,
         InTime(g, t), NEW p \in 0 .. Len(g), Suffix(timestamps, g, p),
         NEW limit \in Nat, NEW ttl \in Nat, Limits!Slide(limit, ttl)
  PROVE  /\ Len(g) < MaxGrants /\ grants' = Append(g, t) /\ InTime(grants', t)
         /\ \E q \in 0 .. Len(g) :
               /\ Suffix(timestamps', grants', q) /\ Len(g) - q < limit
               /\ q = p \/ (q >= 1 /\ g[q] <= t - ttl)
<1>1. PICK n : n = Len(g)
  OBVIOUS
<1>2. t \in Nat /\ n \in Nat
  BY <1>1 DEF LimiterLimits, InTime
<1>3. PICK x : x = t - ttl
  OBVIOUS
<1>4. x \in Int
  BY <1>2, <1>3
<1>5. PICK l : l = Limits!Later(x)
  OBVIOUS
<1>6. PICK q \in 0 .. n : Suffix(l, g, q) /\ (q = p \/ (q >= 1 /\ g[q] <= x))
  <2>1. PICK s : s = timestamps
    OBVIOUS
  <2>2. Suffix(s, g, p)
    BY <2>1
  <2>3. \E q \in 0 .. Len(g) :
          Suffix(Limits!Later(x), g, q) /\ (q = p \/ (q >= 1 /\ g[q] <= x))
    BY <1>4, <2>1, <2>2, LaterIs
  <2> QED  BY <1>1, <1>5, <2>3
<1>7. Len(l) < limit /\ timestamps' = Append(l, t) /\ Limits!Granted
  BY <1>3, <1>5 DEF Limits!Slide
<1>8. Len(g) < MaxGrants /\ grants' = Append(g, t) /\ InTime(grants', t)
  BY <1>2, <1>7, GrantIs
<1>9. PICK h, s : h = Append(g, t) /\ s = Append(l, t)
  OBVIOUS
<1>10. OneMoreGrant(g, t, h, n)
  BY <1>1, <1>2, <1>8, <1>9, GrantedNow
<1>11. Len(h) = n + 1 /\ h[n + 1] = t /\ \A i \in 1 .. n : h[i] = g[i]
  BY <1>10 DEF OneMoreGrant
<1>12. /\ l \in Seq(0 .. MaxLimitTime) /\ Len(l) = n - q
       /\ \A i \in 1 .. n - q : l[i] = g[q + i]
  BY <1>1, <1>6 DEF Suffix
<1>13. Suffix(s, h, q)
  <2>1. s \in Seq(0 .. MaxLimitTime) /\ Len(s) = n - q + 1 /\ s[n - q + 1] = t
    <3>1. PICK S : S = 0 .. MaxLimitTime
      OBVIOUS
    <3>2. l \in Seq(S) /\ t \in S
      BY <1>12, <3>1
    <3>3. s \in Seq(S) /\ Len(s) = Len(l) + 1 /\ s[Len(l) + 1] = t
      BY <1>9, <3>2
    <3> QED  BY <1>12, <3>1, <3>3
  <2>2. ASSUME NEW i \in 1 .. n - q + 1 PROVE s[i] = h[q + i]
    <3>1. CASE i = n - q + 1
      <4>1. q + i = n + 1
        BY <1>2, <3>1
      <4> QED  BY <1>11, <2>1, <3>1, <4>1
    <3>2. CASE i # n - q + 1
      <4>1. i \in 1 .. n - q /\ q + i \in 1 .. n
        BY <1>2, <3>2
      <4>2. s[i] = l[i]
        BY <1>9, <1>12, <4>1
      <4> QED  BY <1>11, <1>12, <4>1, <4>2
    <3> QED  BY <3>1, <3>2
  <2>3. Len(s) = Len(h) - q
    BY <1>2, <1>11, <2>1
  <2> QED  BY <2>1, <2>2, <2>3 DEF Suffix
<1> QED  BY <1>1, <1>3, <1>6, <1>7, <1>8, <1>9, <1>12, <1>13

LEMMA SlideStep ==
  ASSUME LimiterLimits, NEW t \in 0 .. MaxLimitTime, t = limitTime, NEW g, g = grants,
         InTime(g, t), SlidingOK(timestamps, g, t), Limits!Slide(maxRequests, windowMs)
  PROVE  InTime(grants', t) /\ SlidingOK(timestamps', grants', t)
<1>1. PICK n, M, W : n = Len(g) /\ M = maxRequests /\ W = windowMs
  OBVIOUS
<1>2. t \in Nat /\ M \in Nat \ {0} /\ W \in Nat /\ n \in Nat
  BY <1>1 DEF LimiterLimits, InTime
<1>3. PICK p \in 0 .. Len(g) : SuffixFrom(timestamps, g, p, t)
  BY DEF SlidingOK
<1>4. Suffix(timestamps, g, p) /\ (p >= 1 => g[p] <= t - W)
  BY <1>1, <1>3 DEF SuffixFrom
<1>5. Limits!Slide(M, W)
  BY <1>1
<1>6. /\ Len(g) < MaxGrants /\ grants' = Append(g, t) /\ InTime(grants', t)
      /\ \E q \in 0 .. Len(g) :
            /\ Suffix(timestamps', grants', q) /\ Len(g) - q < M
            /\ q = p \/ (q >= 1 /\ g[q] <= t - W)
  BY <1>2, <1>4, <1>5, Pushed
<1>7. PICK h, s : h = grants' /\ s = timestamps'
  OBVIOUS
<1>8. PICK q \in 0 .. n : /\ Suffix(s, h, q) /\ n - q < M
                          /\ q = p \/ (q >= 1 /\ g[q] <= t - W)
  BY <1>1, <1>6, <1>7
<1>9. OneMoreGrant(g, t, h, n)
  BY <1>1, <1>2, <1>6, <1>7, GrantedNow
<1>10. /\ Len(h) = n + 1 /\ \A i \in 1 .. n : h[i] = g[i] /\ g[i] \in Int
       /\ \A i, j \in 1 .. n : i <= j => g[i] <= g[j]
  BY <1>9 DEF OneMoreGrant
<1>11. q >= 1 => g[q] <= t - W
  BY <1>4, <1>8
<1>12. Rated(g, M)
  BY <1>1 DEF SlidingOK
<1>13. ASSUME NEW i \in 1 .. n, i + M = n + 1 PROVE g[i] <= t - W
  <2>1. i <= q /\ q >= 1 /\ q \in 1 .. n
    BY <1>2, <1>8, <1>13
  <2>2. g[i] <= g[q] /\ g[q] <= t - W /\ g[i] \in Int /\ g[q] \in Int
    BY <1>10, <1>11, <2>1
  <2> QED  BY <1>2, <2>2
<1>14. Rated(h, M)
  BY <1>1, <1>2, <1>6, <1>7, <1>12, <1>13, RatedMore
<1>15. q >= 1 => h[q] <= t - W
  BY <1>10, <1>11
<1>16. q \in 0 .. Len(h)
  BY <1>2, <1>10
<1>17. SlidingOK(s, h, t)
  BY <1>1, <1>8, <1>14, <1>15, <1>16 DEF SlidingOK, SuffixFrom
<1> QED  BY <1>6, <1>7, <1>17

LEMMA SlidingCleanupStep ==
  ASSUME LimiterLimits, NEW t \in 0 .. MaxLimitTime, t = limitTime, NEW g, g = grants,
         InTime(g, t), NEW p \in 0 .. Len(g), Suffix(timestamps, g, p), Limits!SlidingCleanup
  PROVE  \E q \in 0 .. Len(g) :
            Suffix(timestamps', g, q) /\ (q = p \/ (q >= 1 /\ g[q] <= t - recordAge))
<1>1. PICK x : x = t - recordAge
  OBVIOUS
<1>2. x \in Int
  BY <1>1 DEF LimiterLimits
<1>3. timestamps' = Limits!Later(x)
  BY <1>1 DEF Limits!SlidingCleanup
<1>4. PICK s : s = timestamps
  OBVIOUS
<1>5. Suffix(s, g, p)
  BY <1>4
<1>6. \E q \in 0 .. Len(g) :
        Suffix(Limits!Later(x), g, q) /\ (q = p \/ (q >= 1 /\ g[q] <= x))
  BY <1>2, <1>4, <1>5, LaterIs
<1> QED  BY <1>1, <1>3, <1>6

LEMMA SlidingCleaned ==
  ASSUME LimiterLimits, NEW t \in 0 .. MaxLimitTime, t = limitTime, NEW g, g = grants,
         InTime(g, t), SlidingOK(timestamps, g, t), Limits!SlidingCleanup
  PROVE  SlidingOK(timestamps', g, t)
<1>1. PICK p \in 0 .. Len(g) : SuffixFrom(timestamps, g, p, t)
  BY DEF SlidingOK
<1>2. Suffix(timestamps, g, p) /\ (p >= 1 => g[p] <= t - windowMs)
  BY <1>1 DEF SuffixFrom
<1>3. PICK q \in 0 .. Len(g) : /\ Suffix(timestamps', g, q)
                               /\ q = p \/ (q >= 1 /\ g[q] <= t - recordAge)
  BY <1>2, SlidingCleanupStep
<1>4. q >= 1 => g[q] <= t - windowMs
  <2>1. ASSUME q >= 1, g[q] <= t - recordAge PROVE g[q] <= t - windowMs
    <3>1. g[q] \in Int /\ t \in Int /\ windowMs \in Int /\ recordAge \in Int
          /\ windowMs <= recordAge
      <4>1. t \in Nat
        BY DEF LimiterLimits
      <4>2. q \in 1 .. Len(g)
        BY <2>1
      <4> QED  BY <4>1, <4>2, InTimeFacts DEF LimiterLimits
    <3> QED  BY <2>1, <3>1
  <2> QED  BY <1>2, <1>3, <2>1
<1> QED  BY <1>3, <1>4 DEF SlidingOK, SuffixFrom

\* Of two requests, the guard has forgotten the k-th by the i-th: some window has passed
\* between it and a request that came after it.
Outlasted(g, u, k, i) ==
    \E j \in k + 1 .. i : g[j] - g[k] >= Limits!Least(u[j].ttl, recordAge)

GuardRated(g, u) == \A i \in DOMAIN u : \A k \in 1 .. i - u[i].limit : Outlasted(g, u, k, i)

Forgotten(g, u, k, t) == g[k] <= t - recordAge \/ Outlasted(g, u, k, Len(g))

GuardOK(s, g, u, t) ==
    /\ u \in Seq(Throttles) /\ Len(u) = Len(g) /\ GuardRated(g, u)
    /\ \E p \in 0 .. Len(g) : Suffix(s, g, p) /\ (p >= 1 => Forgotten(g, u, p, t))

LEMMA LeastIs ==
  ASSUME NEW a \in Int, NEW b \in Int
  PROVE  Limits!Least(a, b) \in Int /\ Limits!Least(a, b) <= a /\ Limits!Least(a, b) <= b
BY DEF Limits!Least

LEMMA GuardStep ==
  ASSUME LimiterLimits, NEW t \in 0 .. MaxLimitTime, t = limitTime, NEW g, g = grants,
         NEW u, u = through, InTime(g, t), GuardOK(timestamps, g, u, t),
         NEW c \in Throttles, Limits!canActivate(c)
  PROVE  InTime(grants', t) /\ GuardOK(timestamps', grants', through', t)
<1>1. PICK n, limit, ttl, age : n = Len(g) /\ limit = c.limit /\ ttl = c.ttl /\ age = recordAge
  OBVIOUS
<1>2. t \in Nat /\ n \in Nat /\ limit \in Nat /\ ttl \in Nat /\ age \in Nat
  BY <1>1 DEF LimiterLimits, InTime
<1>3. /\ u \in Seq(Throttles) /\ Len(u) = n /\ GuardRated(g, u)
      /\ \E p \in 0 .. Len(g) : Suffix(timestamps, g, p) /\ (p >= 1 => Forgotten(g, u, p, t))
  BY <1>1 DEF GuardOK
<1>4. PICK p \in 0 .. Len(g) : Suffix(timestamps, g, p) /\ (p >= 1 => Forgotten(g, u, p, t))
  BY <1>3
<1>5. Limits!Slide(limit, ttl) /\ through' = Append(u, c)
  BY <1>1 DEF Limits!canActivate
<1>6. /\ Len(g) < MaxGrants /\ grants' = Append(g, t) /\ InTime(grants', t)
      /\ \E q \in 0 .. Len(g) :
            /\ Suffix(timestamps', grants', q) /\ Len(g) - q < limit
            /\ q = p \/ (q >= 1 /\ g[q] <= t - ttl)
  BY <1>2, <1>4, <1>5, Pushed
<1>7. PICK h, v, s : h = grants' /\ v = through' /\ s = timestamps'
  OBVIOUS
<1>8. PICK q \in 0 .. n : /\ Suffix(s, h, q) /\ n - q < limit
                          /\ q = p \/ (q >= 1 /\ g[q] <= t - ttl)
  BY <1>1, <1>6, <1>7
<1>9. OneMoreGrant(g, t, h, n)
  BY <1>1, <1>2, <1>6, <1>7, GrantedNow
<1>10. /\ Len(h) = n + 1 /\ h[n + 1] = t
       /\ \A i \in 1 .. n : h[i] = g[i] /\ g[i] \in Int
       /\ \A i, j \in 1 .. n : i <= j => g[i] <= g[j]
  BY <1>9 DEF OneMoreGrant
<1>11. /\ v \in Seq(Throttles) /\ Len(v) = n + 1 /\ v[n + 1] = c
       /\ \A i \in 1 .. n : v[i] = u[i] /\ u[i] \in Throttles
       /\ DOMAIN v = 1 .. n + 1 /\ DOMAIN u = 1 .. n
  <2>1. v = Append(u, c)
    BY <1>5, <1>7
  <2> QED  BY <1>2, <1>3, <2>1
<1>12. \A i \in 1 .. n : u[i].limit \in Nat /\ u[i].ttl \in Nat
  BY <1>11 DEF LimiterLimits
<1>13. Limits!Least(ttl, age) \in Int /\ Limits!Least(ttl, age) <= ttl /\ Limits!Least(ttl, age) <= age
  <2>1. ttl \in Int /\ age \in Int
    BY <1>2
  <2> QED  BY <2>1, LeastIs
<1>14. ASSUME NEW k \in 1 .. n, NEW i \in 1 .. n, Outlasted(g, u, k, i)
       PROVE  Outlasted(h, v, k, i)
  <2>1. PICK j \in k + 1 .. i : g[j] - g[k] >= Limits!Least(u[j].ttl, recordAge)
    BY <1>14 DEF Outlasted
  <2>2. j \in 1 .. n
    BY <1>2, <1>14, <2>1
  <2>3. h[j] = g[j] /\ h[k] = g[k] /\ v[j] = u[j]
    BY <1>10, <1>11, <1>14, <2>2
  <2> QED  BY <2>1, <2>3 DEF Outlasted
<1>15. ASSUME q >= 1, g[q] <= t - ttl \/ g[q] <= t - age PROVE Outlasted(h, v, q, n + 1)
  <2>1. q \in 1 .. n /\ n + 1 \in q + 1 .. n + 1
    BY <1>2, <1>15
  <2>2. h[q] = g[q] /\ g[q] \in Int /\ h[n + 1] = t
    BY <1>10, <2>1
  <2>3. h[n + 1] - h[q] >= Limits!Least(ttl, age)
    BY <1>2, <1>13, <1>15, <2>2
  <2>4. v[n + 1].ttl = ttl /\ recordAge = age
    BY <1>1, <1>11
  <2> QED  BY <2>1, <2>3, <2>4 DEF Outlasted
<1>16. ASSUME q >= 1 PROVE Outlasted(h, v, q, n + 1)
  <2>1. CASE q = p /\ Outlasted(g, u, p, Len(g))
    <3>1. q \in 1 .. n /\ n \in 1 .. n
      BY <1>2, <1>16
    <3>2. Outlasted(h, v, q, n)
      BY <1>1, <1>14, <2>1, <3>1
    <3>3. \A j \in q + 1 .. n : j \in q + 1 .. n + 1
      BY <1>2
    <3> QED  BY <3>2, <3>3 DEF Outlasted
  <2>2. CASE ~(q = p /\ Outlasted(g, u, p, Len(g)))
    <3>1. g[q] <= t - ttl \/ g[q] <= t - age
      BY <1>1, <1>4, <1>8, <1>16, <2>2 DEF Forgotten
    <3> QED  BY <1>15, <1>16, <3>1
  <2> QED  BY <2>1, <2>2
<1>17. ASSUME NEW k \in 1 .. q PROVE Outlasted(h, v, k, n + 1)
  <2>1. q >= 1 /\ k \in 1 .. n /\ q \in 1 .. n
    BY <1>2, <1>17
  <2>2. PICK j \in q + 1 .. n + 1 : h[j] - h[q] >= Limits!Least(v[j].ttl, recordAge)
    BY <1>16, <2>1 DEF Outlasted
  <2>3. j \in k + 1 .. n + 1 /\ j \in 1 .. n + 1
    BY <1>2, <1>17, <2>1, <2>2
  <2>4. h[k] <= h[q] /\ h[k] \in Int /\ h[q] \in Int
    BY <1>10, <1>17, <2>1
  <2>5. h[j] \in Int
    <3>1. j \in 1 .. n \/ j = n + 1
      BY <1>2, <2>3
    <3> QED  BY <1>2, <1>10, <3>1
  <2>6. Limits!Least(v[j].ttl, recordAge) \in Int
    <3>1. v[j] \in Throttles
      BY <1>11, <2>3
    <3>2. v[j].ttl \in Int /\ recordAge \in Int
      BY <3>1 DEF LimiterLimits
    <3> QED  BY <3>2, LeastIs
  <2>7. h[j] - h[k] >= Limits!Least(v[j].ttl, recordAge)
    BY <2>2, <2>4, <2>5, <2>6
  <2> QED  BY <2>3, <2>7 DEF Outlasted
<1>18. ASSUME NEW i \in 1 .. n + 1, NEW k \in 1 .. i - v[i].limit PROVE Outlasted(h, v, k, i)
  <2>1. CASE i = n + 1
    <3>1. v[i].limit = limit
      BY <1>1, <1>11, <2>1
    <3>2. k \in 1 .. n + 1 - limit
      <4>1. PICK r : r = v[i].limit
        OBVIOUS
      <4>2. k \in 1 .. i - r /\ i = n + 1 /\ r = limit
        BY <1>18, <2>1, <3>1, <4>1
      <4> QED  BY <1>2, <4>2
    <3>3. k \in 1 .. q
      BY <1>2, <1>8, <3>2
    <3> QED  BY <1>17, <2>1, <3>3
  <2>2. CASE i # n + 1
    <3>1. i \in 1 .. n
      BY <1>2, <2>2
    <3>2. v[i] = u[i] /\ u[i].limit \in Nat /\ i \in DOMAIN u
      BY <1>11, <1>12, <3>1
    <3>3. k \in 1 .. i - u[i].limit
      BY <1>18, <3>2
    <3>4. k \in 1 .. n
      BY <1>2, <3>1, <3>2, <3>3
    <3>5. Outlasted(g, u, k, i)
      BY <1>3, <3>2, <3>3 DEF GuardRated
    <3> QED  BY <1>14, <3>1, <3>4, <3>5
  <2> QED  BY <2>1, <2>2
<1>19. GuardRated(h, v)
  BY <1>11, <1>18 DEF GuardRated
<1>20. q >= 1 => Forgotten(h, v, q, t)
  BY <1>10, <1>16 DEF Forgotten
<1>21. q \in 0 .. Len(h)
  BY <1>2, <1>10
<1>22. GuardOK(s, h, v, t)
  BY <1>8, <1>10, <1>11, <1>19, <1>20, <1>21 DEF GuardOK
<1> QED  BY <1>6, <1>7, <1>22

LEMMA GuardCleaned ==
  ASSUME LimiterLimits, NEW t \in 0 .. MaxLimitTime, t = limitTime, NEW g, g = grants,
         NEW u, InTime(g, t), GuardOK(timestamps, g, u, t), Limits!SlidingCleanup
  PROVE  GuardOK(timestamps', g, u, t)
<1>1. PICK p \in 0 .. Len(g) : Suffix(timestamps, g, p) /\ (p >= 1 => Forgotten(g, u, p, t))
  BY DEF GuardOK
<1>2. PICK q \in 0 .. Len(g) : /\ Suffix(timestamps', g, q)
                               /\ q = p \/ (q >= 1 /\ g[q] <= t - recordAge)
  BY <1>1, SlidingCleanupStep
<1>3. q >= 1 => Forgotten(g, u, q, t)
  BY <1>1, <1>2 DEF Forgotten
<1> QED  BY <1>2, <1>3 DEF GuardOK

-----------------------------------------------------------------------------
(* The token bucket.                                                         *)

\* The intervals begun in a time d.
Begun(d) == IF d <= 0 THEN 0 ELSE (d + refillInterval - 1) \div refillInterval

BucketRated(g) ==
    \A i, j \in DOMAIN g : i <= j => j - i + 1 <= capacity + refillRate * Begun(g[j] - g[i])

\* The k tokens of a bucket last filled at the time l, and those given since any earlier
\* request, are no more than the capacity and the refills since it.
Lasts(g, k, l) ==
    \A i \in DOMAIN g : /\ Len(g) - i + 1 + k <= capacity + refillRate * Begun(l - g[i])
                        /\ refillRate = 0 \/ g[i] - l < refillInterval

Filled(k, l) == [tokens |-> k, lastRefill |-> l]

BucketOK(S, g, t) ==
    /\ BucketRated(g)
    /\ \/ S = {} /\ g = <<>>
       \/ \E k \in 0 .. capacity - 1, l \in 0 .. t : S = {Filled(k, l)} /\ Lasts(g, k, l)

LEMMA WholeParts ==
  ASSUME NEW a \in Nat, NEW k \in Nat \ {0}
  PROVE  /\ a \div k \in Nat /\ k * (a \div k) <= a /\ a < k * (a \div k) + k
OBVIOUS

LEMMA FewerParts ==
  ASSUME NEW k \in Nat \ {0}, NEW x \in Int, NEW y \in Int, k * x < k * y + k
  PROVE  x <= y
<1>1. SUFFICES ASSUME x >= y + 1 PROVE FALSE
  OBVIOUS
<1>2. PICK e \in Nat : x = y + 1 + e
  <2>1. x - y - 1 \in Nat /\ x = y + 1 + (x - y - 1)
    BY <1>1
  <2> QED  BY <2>1
<1>3. k * x = k * y + k + k * e /\ k * e >= 0
  BY <1>2
<1>4. PICK a, b, c : a = k * x /\ b = k * y /\ c = k * e
  OBVIOUS
<1>5. a \in Int /\ b \in Int /\ c \in Int
  BY <1>4
<1> QED  BY <1>3, <1>4, <1>5

LEMMA BegunIs ==
  ASSUME LimiterLimits, NEW d \in Int
  PROVE  /\ Begun(d) \in Nat /\ d <= refillInterval * Begun(d)
         /\ Begun(d) # 0 => refillInterval * Begun(d) < d + refillInterval
<1>1. PICK k : k = refillInterval
  OBVIOUS
<1>2. k \in Nat \ {0}
  BY <1>1 DEF LimiterLimits
<1>3. CASE d <= 0
  <2>1. Begun(d) = 0
    BY <1>3 DEF Begun
  <2> QED  BY <1>1, <1>2, <1>3, <2>1
<1>4. CASE d > 0
  <2>1. PICK a : a = d + k - 1
    OBVIOUS
  <2>2. a \in Nat
    BY <1>2, <1>4, <2>1
  <2>3. PICK c : c = a \div k
    OBVIOUS
  <2>4. c \in Nat /\ k * c <= a /\ a < k * c + k
    BY <1>2, <2>2, <2>3, WholeParts
  <2>5. Begun(d) = c
    BY <1>1, <1>4, <2>1, <2>3 DEF Begun
  <2>6. PICK e : e = k * c
    OBVIOUS
  <2>7. e \in Int
    BY <1>2, <2>4, <2>6
  <2>8. d <= e /\ e < d + k
    BY <1>2, <2>1, <2>4, <2>6, <2>7
  <2> QED  BY <1>1, <2>4, <2>5, <2>6, <2>8
<1> QED  BY <1>3, <1>4

LEMMA BegunMore ==
  ASSUME LimiterLimits, NEW d \in Int, NEW e \in Int, d <= e PROVE Begun(d) <= Begun(e)
<1>1. PICK k, x, y : k = refillInterval /\ x = Begun(d) /\ y = Begun(e)
  OBVIOUS
<1>2. /\ k \in Nat \ {0} /\ x \in Nat /\ y \in Nat /\ e <= k * y /\ (x # 0 => k * x < d + k)
  BY <1>1, BegunIs DEF LimiterLimits
<1>3. CASE x = 0
  BY <1>1, <1>2, <1>3
<1>4. CASE x # 0
  <2>1. PICK a, b : a = k * x /\ b = k * y
    OBVIOUS
  <2>2. a \in Int /\ b \in Int
    BY <1>2, <2>1
  <2>3. a < b + k
    BY <1>2, <1>4, <2>1, <2>2
  <2>4. x <= y
    BY <1>2, <2>1, <2>3, FewerParts
  <2> QED  BY <1>1, <2>4
<1> QED  BY <1>3, <1>4

\* The whole intervals of a time and those begun before it are begun in the sum of both.
LEMMA BegunAdds ==
  ASSUME LimiterLimits, NEW a \in Int, NEW b \in Nat, a > -refillInterval
  PROVE  Begun(a) + (b \div refillInterval) <= Begun(a + b)
<1>1. PICK k, s : k = refillInterval /\ s = a + b
  OBVIOUS
<1>2. k \in Nat \ {0} /\ s \in Int /\ s = a + b /\ a > -k
  BY <1>1 DEF LimiterLimits
<1>3. PICK x, w, y : x = Begun(a) /\ w = b \div k /\ y = Begun(s)
  OBVIOUS
<1>4. /\ x \in Nat /\ y \in Nat /\ s <= k * y /\ (x # 0 => k * x < a + k)
  BY <1>1, <1>2, <1>3, BegunIs
<1>5. w \in Nat /\ k * w <= b
  BY <1>2, <1>3, WholeParts
<1>6. PICK z : z = x + w
  OBVIOUS
<1>7. z \in Int /\ k * z = k * x + k * w
  BY <1>2, <1>4, <1>5, <1>6
<1>8. PICK p, q, r, u : p = k * x /\ q = k * w /\ r = k * y /\ u = k * z
  OBVIOUS
<1>9. p \in Int /\ q \in Int /\ r \in Int /\ u \in Int
  BY <1>2, <1>4, <1>5, <1>7, <1>8
<1>10. p < a + k
  <2>1. CASE x = 0
    <3>1. p = 0
      BY <1>2, <1>8, <2>1
    <3> QED  BY <1>2, <3>1
  <2>2. CASE x # 0
    BY <1>4, <1>8, <2>2
  <2> QED  BY <2>1, <2>2
<1>11. u < r + k
  BY <1>2, <1>4, <1>5, <1>7, <1>8, <1>9, <1>10
<1>12. z <= y
  BY <1>2, <1>4, <1>7, <1>8, <1>11, FewerParts
<1> QED  BY <1>1, <1>3, <1>6, <1>12

LEMMA RefillIs ==
  ASSUME LimiterLimits, NEW t \in Nat, t = limitTime, NEW g, InTime(g, t),
         NEW k \in 0 .. capacity, NEW l \in 0 .. t, Lasts(g, k, l)
  PROVE  \E v \in 0 .. capacity, f \in 0 .. t :
            /\ Limits!Refilled(Filled(k, l)) = Filled(v, f) /\ Lasts(g, v, f)
            /\ refillRate = 0 \/ t - f < refillInterval
<1>1. PICK I, R, C, n : I = refillInterval /\ R = refillRate /\ C = capacity /\ n = Len(g)
  OBVIOUS
<1>2. I \in Nat \ {0} /\ R \in Nat /\ C \in Nat /\ n \in Nat /\ \A i \in 1 .. n : g[i] \in 0 .. t
  BY <1>1 DEF LimiterLimits, InTime
<1>3. PICK b, w, add : b = t - l /\ w = b \div I /\ add = w * R
  OBVIOUS
<1>4. b \in Nat
  BY <1>2, <1>3
<1>5. w \in Nat /\ I * w <= b /\ b < I * w + I
  BY <1>2, <1>3, <1>4, WholeParts
<1>6. add \in Nat
  BY <1>2, <1>3, <1>5
<1>7. Limits!Refilled(Filled(k, l)) =
        IF add > 0 THEN [tokens |-> Limits!Least(C, k + add), lastRefill |-> t] ELSE Filled(k, l)
  <2>1. Filled(k, l).tokens = k /\ Filled(k, l).lastRefill = l
    BY DEF Filled
  <2>2. Limits!Refilled(Filled(k, l)) =
          LET z == ((limitTime - Filled(k, l).lastRefill) \div refillInterval) * refillRate
          IN  IF z > 0 THEN [Filled(k, l) EXCEPT !.tokens = Limits!Least(capacity, @ + z),
                                                 !.lastRefill = limitTime]
              ELSE Filled(k, l)
    BY <2>1 DEF Limits!Refilled, Filled
  <2> QED  BY <1>1, <1>3, <2>1, <2>2 DEF Filled
<1>8. CASE add > 0
  <2>1. PICK v : v = Limits!Least(C, k + add)
    OBVIOUS
  <2>2. v \in 0 .. C /\ v <= k + add
    BY <1>1, <1>2, <1>6, <2>1 DEF Limits!Least
  <2>3. Limits!Refilled(Filled(k, l)) = Filled(v, t)
    BY <1>7, <1>8, <2>1 DEF Filled
  <2>4. ASSUME NEW i \in 1 .. n
        PROVE  n - i + 1 + v <= C + R * Begun(t - g[i]) /\ g[i] - t < I
    <3>1. PICK a : a = l - g[i]
      OBVIOUS
    <3>2. a \in Int /\ a + b = t - g[i] /\ t - g[i] \in Nat
      BY <1>2, <1>3, <3>1
    <3>3. R # 0
      BY <1>2, <1>3, <1>5, <1>8
    <3>4. i \in DOMAIN g /\ n - i + 1 + k <= C + R * Begun(a) /\ g[i] - l < I
      <4>1. i \in DOMAIN g
        BY <1>1 DEF InTime
      <4> QED  BY <1>1, <3>1, <3>3, <4>1 DEF Lasts
    <3>5. a > -I
      BY <1>2, <3>1, <3>4
    <3>6. PICK x, y, s : x = Begun(a) /\ y = Begun(s) /\ s = a + b
      OBVIOUS
    <3>7. x \in Nat /\ y \in Nat
      BY <1>4, <3>2, <3>6, BegunIs
    <3>8. x + w <= y
      BY <1>1, <1>3, <1>4, <3>2, <3>5, <3>6, BegunAdds
    <3>9. PICK p, q : p = R * x /\ q = R * y
      OBVIOUS
    <3>10. p \in Int /\ q \in Int /\ p + add <= q
      <4>1. PICK e : e = y - (x + w)
        OBVIOUS
      <4>2. e \in Nat /\ y = x + w + e
        BY <1>5, <3>7, <3>8, <4>1
      <4>3. R * y = R * x + w * R + R * e /\ R * e \in Nat
        BY <1>2, <1>5, <3>7, <4>2
      <4>4. R * x \in Int /\ w * R \in Int
        BY <1>2, <1>5, <3>7
      <4> QED  BY <1>3, <3>9, <4>3, <4>4
    <3>11. n - i + 1 + v <= C + q
      BY <1>2, <1>6, <2>2, <3>4, <3>6, <3>9, <3>10
    <3> QED  BY <1>2, <3>2, <3>6, <3>9, <3>11
  <2>5. Lasts(g, v, t)
    BY <1>1, <2>4 DEF Lasts, InTime
  <2>6. t \in 0 .. t /\ t - t < I
    BY <1>2
  <2> QED  BY <1>1, <2>2, <2>3, <2>5, <2>6
<1>9. CASE ~(add > 0)
  <2>1. Limits!Refilled(Filled(k, l)) = Filled(k, l)
    BY <1>7, <1>9
  <2>2. R = 0 \/ b < I
    <3>1. CASE R # 0
      <4>1. w = 0
        BY <1>2, <1>3, <1>5, <1>6, <1>9, <3>1
      <4> QED  BY <1>2, <1>5, <4>1
    <3> QED  BY <3>1
  <2> QED  BY <1>1, <1>3, <2>1, <2>2
<1> QED  BY <1>8, <1>9

LEMMA BucketCheckStep ==
  ASSUME LimiterLimits, NEW t \in 0 .. MaxLimitTime, t = limitTime, NEW g, g = grants,
         InTime(g, t), BucketOK(bucket, g, t), Limits!BucketCheck
  PROVE  InTime(grants', t) /\ BucketOK(bucket', grants', t)
<1>1. PICK I, R, C, n : I = refillInterval /\ R = refillRate /\ C = capacity /\ n = Len(g)
  OBVIOUS
<1>2. I \in Nat \ {0} /\ R \in Nat /\ C \in Nat \ {0} /\ n \in Nat /\ t \in Nat
  BY <1>1 DEF LimiterLimits, InTime
<1>3. Begun(0) = 0
  BY DEF Begun
\* A grant that leaves v tokens.
<1>4. ASSUME NEW v \in 1 .. C, NEW f \in 0 .. t, Lasts(g, v, f), R = 0 \/ t - f < I,
             BucketRated(g), Limits!Granted, bucket' = {Filled(v - 1, f)}
      PROVE  InTime(grants', t) /\ BucketOK(bucket', grants', t)
  <2>1. Len(g) < MaxGrants /\ grants' = Append(g, t) /\ InTime(grants', t)
    BY <1>2, <1>4, GrantIs
  <2>2. PICK h : h = Append(g, t)
    OBVIOUS
  <2>3. OneMoreGrant(g, t, h, n)
    BY <1>1, <1>2, <2>1, <2>2, GrantedNow
  <2>4. /\ Len(h) = n + 1 /\ h[n + 1] = t /\ DOMAIN h = 1 .. n + 1 /\ DOMAIN g = 1 .. n
        /\ \A i \in 1 .. n : h[i] = g[i] /\ g[i] \in 0 .. t
    BY <2>3 DEF OneMoreGrant
  <2>5. ASSUME NEW i \in 1 .. n
        PROVE  /\ n - i + 1 + v <= C + R * Begun(f - g[i])
               /\ R = 0 \/ g[i] - f < I
    BY <1>1, <1>4, <2>4 DEF Lasts
  <2>6. Begun(f - t) = 0
    BY <1>2 DEF Begun
  <2>7. ASSUME NEW i \in 1 .. n + 1
        PROVE  /\ n + 1 - i + 1 + (v - 1) <= C + R * Begun(f - h[i])
               /\ R = 0 \/ h[i] - f < I
    <3>1. CASE i \in 1 .. n
      <4>1. n + 1 - i + 1 + (v - 1) = n - i + 1 + v
        BY <1>2
      <4> QED  BY <2>4, <2>5, <3>1, <4>1
    <3>2. CASE i = n + 1
      <4>1. n + 1 - i + 1 + (v - 1) = v /\ v <= C + R * 0
        BY <1>2, <3>2
      <4> QED  BY <1>4, <2>4, <2>6, <3>2, <4>1
    <3> QED  BY <1>2, <3>1, <3>2
  <2>8. PICK u : u = v - 1
    OBVIOUS
  <2>9. u \in 0 .. C - 1
    BY <1>2, <2>8
  <2>10. Lasts(h, u, f)
    <3>1. ASSUME NEW i \in DOMAIN h
          PROVE  /\ Len(h) - i + 1 + u <= C + R * Begun(f - h[i])
                 /\ R = 0 \/ h[i] - f < I
      <4>1. Len(h) - i + 1 + u = n + 1 - i + 1 + (v - 1)
        <5>1. i \in Int /\ v \in Int /\ n \in Int /\ Len(h) = n + 1
          BY <1>2, <2>4
        <5> QED  BY <2>8, <5>1
      <4> QED  BY <2>4, <2>7, <4>1
    <3> QED  BY <1>1, <3>1 DEF Lasts
  <2>11. BucketRated(h)
    <3> SUFFICES ASSUME NEW i \in DOMAIN h, NEW j \in DOMAIN h, i <= j
                 PROVE  j - i + 1 <= C + R * Begun(h[j] - h[i])
      BY <1>1 DEF BucketRated
    <3>1. CASE j \in 1 .. n
      <4>1. i \in 1 .. n
        BY <1>2, <2>4, <3>1
      <4>2. j - i + 1 <= C + R * Begun(g[j] - g[i])
        BY <1>1, <1>4, <2>4, <3>1, <4>1 DEF BucketRated
      <4> QED  BY <2>4, <3>1, <4>1, <4>2
    <3>2. CASE j = n + 1 /\ i \in 1 .. n
      <4>1. PICK a, b : a = f - g[i] /\ b = t - g[i]
        OBVIOUS
      <4>2. a \in Int /\ b \in Int /\ a <= b
        BY <1>2, <2>4, <3>2, <4>1
      <4>3. PICK x, y : x = Begun(a) /\ y = Begun(b)
        OBVIOUS
      <4>4. x \in Nat /\ y \in Nat /\ x <= y
        BY <4>2, <4>3, BegunIs, BegunMore
      <4>5. PICK p, q : p = R * x /\ q = R * y
        OBVIOUS
      <4>6. p \in Int /\ q \in Int /\ p <= q
        <5>1. PICK e : e = y - x
          OBVIOUS
        <5>2. e \in Nat /\ y = x + e
          BY <4>4, <5>1
        <5>3. R * y = R * x + R * e /\ R * e \in Nat /\ R * x \in Int
          BY <1>2, <4>4, <5>2
        <5> QED  BY <4>5, <5>3
      <4>7. n - i + 1 + v <= C + p
        BY <2>5, <3>2, <4>1, <4>3, <4>5
      <4>8. j - i + 1 <= C + q
        BY <1>2, <3>2, <4>6, <4>7
      <4>9. h[j] - h[i] = b
        BY <2>4, <3>2, <4>1
      <4> QED  BY <4>3, <4>5, <4>8, <4>9
    <3>3. CASE j = n + 1 /\ i = n + 1
      <4>1. h[j] - h[i] = 0 /\ j - i + 1 = 1
        BY <1>2, <2>4, <3>3
      <4>2. 1 <= C + R * 0
        BY <1>2
      <4> QED  BY <1>3, <4>1, <4>2
    <3> QED  BY <1>2, <2>4, <3>1, <3>2, <3>3
  <2>12. BucketOK(bucket', h, t)
    BY <1>1, <1>4, <2>8, <2>9, <2>10, <2>11 DEF BucketOK
  <2> QED  BY <2>1, <2>2, <2>12
<1>5. BucketRated(g)
  BY DEF BucketOK
<1>6. CASE bucket = {} /\ Limits!Granted /\ bucket' = {[tokens |-> C - 1, lastRefill |-> t]}
  <2>1. g = <<>>
    BY <1>6 DEF BucketOK
  <2>2. Lasts(g, C, t)
    BY <2>1 DEF Lasts
  <2>3. C \in 1 .. C /\ t \in 0 .. t /\ t - t < I /\ bucket' = {Filled(C - 1, t)}
    BY <1>2, <1>6 DEF Filled
  <2> QED  BY <1>4, <1>5, <1>6, <2>2, <2>3
<1>7. ASSUME NEW b \in bucket,
             IF Limits!Refilled(b).tokens > 0
             THEN Limits!Granted /\ bucket' = {[Limits!Refilled(b) EXCEPT !.tokens = @ - 1]}
             ELSE Limits!Refused /\ bucket' = {Limits!Refilled(b)}
      PROVE  InTime(grants', t) /\ BucketOK(bucket', grants', t)
  <2>1. PICK k \in 0 .. C - 1, l \in 0 .. t : bucket = {Filled(k, l)} /\ Lasts(g, k, l)
    BY <1>1, <1>7 DEF BucketOK
  <2>2. k \in 0 .. C /\ b = Filled(k, l)
    BY <1>2, <1>7, <2>1
  <2>3. PICK v \in 0 .. C, f \in 0 .. t :
               /\ Limits!Refilled(b) = Filled(v, f) /\ Lasts(g, v, f)
               /\ R = 0 \/ t - f < I
    BY <1>1, <1>2, <2>1, <2>2, RefillIs
  <2>4. Filled(v, f).tokens = v /\ [Filled(v, f) EXCEPT !.tokens = @ - 1] = Filled(v - 1, f)
    BY DEF Filled
  <2>5. CASE v > 0
    <3>1. v \in 1 .. C
      BY <1>2, <2>5
    <3>2. Limits!Granted /\ bucket' = {Filled(v - 1, f)}
      BY <1>7, <2>3, <2>4, <2>5
    <3> QED  BY <1>4, <1>5, <2>3, <3>1, <3>2
  <2>6. CASE ~(v > 0)
    <3>1. grants' = g /\ bucket' = {Filled(v, f)}
      BY <1>7, <2>3, <2>4, <2>6 DEF Limits!Refused
    <3>2. v \in 0 .. C - 1
      BY <1>2, <2>6
    <3>3. BucketOK(bucket', g, t)
      BY <1>1, <1>5, <2>3, <3>1, <3>2 DEF BucketOK
    <3> QED  BY <3>1, <3>3
  <2> QED  BY <2>5, <2>6
<1> QED  BY <1>1, <1>6, <1>7 DEF Limits!BucketCheck

-----------------------------------------------------------------------------
(* All limiters: a caller has one of them, and the others keep nothing.      *)

LimiterOK(lim, rs, ts, es, bs, g, t) ==
    \/ lim = "fixed" /\ FixedOK(rs, g, t) /\ ts = <<>> /\ es = {} /\ bs = {}
    \/ lim = "sliding" /\ SlidingOK(ts, g, t) /\ rs = {} /\ es = {} /\ bs = {}
    \/ lim = "throttle" /\ rs = {} /\ es = {} /\ bs = {}
    \/ lim = "middleware" /\ MiddlewareOK(es, g, t) /\ rs = {} /\ ts = <<>> /\ bs = {}
    \/ lim = "bucket" /\ BucketOK(bs, g, t) /\ rs = {} /\ ts = <<>> /\ es = {}

GuardsOK(lim, ts, g, u, t) ==
    IF lim = "throttle" THEN GuardOK(ts, g, u, t) ELSE u = <<>>

LimiterInv ==
    /\ limitTime \in 0 .. MaxLimitTime /\ InTime(grants, limitTime)
    /\ LimiterOK(limiter, record, timestamps, entry, bucket, grants, limitTime)
    /\ GuardsOK(limiter, timestamps, grants, through, limitTime)

LEMMA NothingGranted ==
  ASSUME LimiterLimits, NEW t \in Nat
  PROVE  /\ InTime(<<>>, t) /\ FixedOK({}, <<>>, t) /\ SlidingOK(<<>>, <<>>, t)
         /\ MiddlewareOK({}, <<>>, t) /\ BucketOK({}, <<>>, t)
         /\ GuardOK(<<>>, <<>>, <<>>, t)
<1>1. PICK e : e = <<>>
  OBVIOUS
<1>2. e \in Seq(0 .. t) /\ e \in Seq(0 .. MaxLimitTime) /\ Len(e) = 0 /\ DOMAIN e = {}
  BY <1>1
<1>3. InTime(e, t)
  BY <1>2 DEF InTime, LimiterLimits
<1>4. \A limit : Rated(e, limit)
  BY <1>2 DEF Rated
<1>5. FewLater(e, Len(e), t - windowMs)
  BY <1>2 DEF FewLater, LimiterLimits
<1>6. FixedOK({}, e, t) /\ MiddlewareOK({}, e, t)
  BY <1>4, <1>5 DEF FixedOK, MiddlewareOK
<1>7. SlidingOK(e, e, t)
  <2>1. 0 \in 0 .. Len(e) /\ Len(e) = Len(e) - 0 /\ ~(0 >= 1)
    BY <1>2
  <2>2. \A i \in 1 .. Len(e) : e[i] = e[0 + i]
    BY <1>2
  <2>3. SuffixFrom(e, e, 0, t)
    BY <1>2, <2>1, <2>2 DEF SuffixFrom, Suffix
  <2> QED  BY <1>4, <2>1, <2>3 DEF SlidingOK
<1>8. BucketOK({}, e, t)
  BY <1>1, <1>2 DEF BucketOK, BucketRated
<1>9. GuardOK(e, e, e, t)
  <2>1. 0 \in 0 .. Len(e) /\ Len(e) = Len(e) - 0 /\ ~(0 >= 1) /\ e \in Seq(Throttles)
    BY <1>1, <1>2
  <2>2. \A i \in 1 .. Len(e) : e[i] = e[0 + i]
    BY <1>2
  <2>3. Suffix(e, e, 0)
    BY <1>2, <2>1, <2>2 DEF Suffix
  <2>4. GuardRated(e, e)
    BY <1>2 DEF GuardRated
  <2> QED  BY <2>1, <2>3, <2>4 DEF GuardOK
<1> QED  BY <1>1, <1>3, <1>6, <1>7, <1>8, <1>9

LEMMA LimiterInit == ASSUME LimiterLimits, Limits!Init PROVE LimiterInv
<1>1. /\ limitTime = 0 /\ grants = <<>> /\ record = {} /\ entry = {} /\ bucket = {}
      /\ timestamps = <<>> /\ through = <<>>
  BY DEF Limits!Init
<1>2. limiter \in {"fixed", "sliding", "throttle", "middleware", "bucket"}
  BY DEF Limits!Init
<1>3. 0 \in 0 .. MaxLimitTime /\ 0 \in Nat
  BY DEF LimiterLimits
<1> QED  BY <1>1, <1>2, <1>3, NothingGranted DEF LimiterInv, LimiterOK, GuardsOK

LEMMA ResetStep == ASSUME LimiterLimits, LimiterInv, Limits!reset PROVE LimiterInv'
<1>1. /\ grants' = <<>> /\ record' = {} /\ bucket' = {} /\ timestamps' = <<>>
      /\ limiter' = limiter /\ limiter \in {"fixed", "sliding", "bucket"} /\ entry' = entry
      /\ limitTime' = limitTime /\ through' = through
  BY DEF Limits!reset
<1>2. limitTime \in 0 .. MaxLimitTime /\ limitTime \in Nat
  BY DEF LimiterInv, LimiterLimits
<1>3. entry = {} /\ through = <<>>
  BY <1>1 DEF LimiterInv, LimiterOK, GuardsOK
<1>4. PICK t : t = limitTime
  OBVIOUS
<1>5. /\ InTime(<<>>, t) /\ FixedOK({}, <<>>, t) /\ SlidingOK(<<>>, <<>>, t)
      /\ BucketOK({}, <<>>, t)
  BY <1>2, <1>4, NothingGranted
<1> QED  BY <1>1, <1>2, <1>3, <1>4, <1>5 DEF LimiterInv, LimiterOK, GuardsOK

LEMMA LimiterTick == ASSUME LimiterLimits, LimiterInv, Limits!Tick PROVE LimiterInv'
<1>1. PICK g, t, u : g = grants /\ t = limitTime /\ u = t + 1
  OBVIOUS
<1>2. /\ t \in 0 .. MaxLimitTime /\ t \in Nat /\ u \in 0 .. MaxLimitTime /\ u = t + 1
      /\ limitTime' = u /\ InTime(g, t)
      /\ UNCHANGED <<limiter, record, timestamps, entry, bucket, grants, through>>
  BY <1>1 DEF LimiterInv, Limits!Tick, LimiterLimits
<1>3. PICK n : n = Len(g)
  OBVIOUS
<1>4. n \in Nat /\ n \in 0 .. n
  BY <1>2, <1>3 DEF InTime
<1>5. InTime(g, u) /\ \A k \in 0 .. n : FewLater(g, k, t - windowMs) => FewLater(g, k, u - windowMs)
  <2>1. /\ InTime(g, t + 1)
        /\ \A k \in 0 .. Len(g) : FewLater(g, k, t - windowMs) => FewLater(g, k, t + 1 - windowMs)
    BY <1>2, LaterTime
  <2>2. InTime(g, u)
    BY <1>1, <2>1
  <2>3. ASSUME NEW k \in 0 .. n, FewLater(g, k, t - windowMs) PROVE FewLater(g, k, u - windowMs)
    <3>1. FewLater(g, k, t + 1 - windowMs)
      BY <1>3, <2>1, <2>3
    <3>2. u - windowMs = t + 1 - windowMs
      <4>1. u = t + 1 /\ t \in Int /\ windowMs \in Int
        BY <1>2 DEF LimiterLimits
      <4> QED  BY <4>1
    <3> QED  BY <3>1, <3>2
  <2> QED  BY <2>2, <2>3
<1>6. ASSUME NEW S, FixedOK(S, g, t) PROVE FixedOK(S, g, u)
  <2>1. \A f \in 0 .. t : f \in 0 .. u
    BY <1>2
  <2>2. FewLater(g, Len(g), t - windowMs) => FewLater(g, Len(g), u - windowMs)
    BY <1>3, <1>4, <1>5
  <2> QED  BY <1>6, <2>1, <2>2 DEF FixedOK
<1>7. ASSUME NEW S, MiddlewareOK(S, g, t) PROVE MiddlewareOK(S, g, u)
  <2>1. \A f \in 0 .. t : f \in 0 .. u
    BY <1>2
  <2>2. FewLater(g, Len(g), t - windowMs) => FewLater(g, Len(g), u - windowMs)
    BY <1>3, <1>4, <1>5
  <2> QED  BY <1>7, <2>1, <2>2 DEF MiddlewareOK
<1>8. ASSUME NEW S, BucketOK(S, g, t) PROVE BucketOK(S, g, u)
  <2>1. \A f \in 0 .. t : f \in 0 .. u
    BY <1>2
  <2> QED  BY <1>8, <2>1 DEF BucketOK
<1>9. ASSUME NEW s, SlidingOK(s, g, t) PROVE SlidingOK(s, g, u)
  <2>1. PICK p \in 0 .. Len(g) : SuffixFrom(s, g, p, t)
    BY <1>9 DEF SlidingOK
  <2>2. ASSUME p >= 1 PROVE g[p] <= u - windowMs
    <3>1. g[p] <= t - windowMs
      BY <2>1, <2>2 DEF SuffixFrom
    <3>2. g[p] \in Int /\ windowMs \in Int
      BY <1>2, <1>3, <1>4, <2>2 DEF InTime, LimiterLimits
    <3> QED  BY <1>2, <3>1, <3>2
  <2>3. SuffixFrom(s, g, p, u)
    BY <2>1, <2>2 DEF SuffixFrom
  <2> QED  BY <1>9, <2>3 DEF SlidingOK
<1>10. LimiterOK(limiter, record, timestamps, entry, bucket, g, t)
  BY <1>1 DEF LimiterInv
<1>11. LimiterOK(limiter, record, timestamps, entry, bucket, g, u)
  BY <1>6, <1>7, <1>8, <1>9, <1>10 DEF LimiterOK
<1>12. ASSUME NEW s, NEW v, GuardOK(s, g, v, t) PROVE GuardOK(s, g, v, u)
  <2>1. PICK p \in 0 .. Len(g) : Suffix(s, g, p) /\ (p >= 1 => Forgotten(g, v, p, t))
    BY <1>12 DEF GuardOK
  <2>2. ASSUME p >= 1, g[p] <= t - recordAge PROVE g[p] <= u - recordAge
    <3>1. p \in 1 .. n
      BY <1>3, <1>4, <2>2
    <3>2. g[p] \in Int /\ recordAge \in Int
      BY <1>2, <1>3, <3>1, InTimeFacts DEF LimiterLimits
    <3> QED  BY <1>2, <2>2, <3>2
  <2>3. p >= 1 => Forgotten(g, v, p, u)
    BY <2>1, <2>2 DEF Forgotten
  <2> QED  BY <1>12, <2>1, <2>3 DEF GuardOK
<1>13. GuardsOK(limiter, timestamps, g, through, u)
  <2>1. GuardsOK(limiter, timestamps, g, through, t)
    BY <1>1 DEF LimiterInv
  <2> QED  BY <1>12, <2>1 DEF GuardsOK
<1> QED  BY <1>1, <1>2, <1>5, <1>11, <1>13 DEF LimiterInv

LEMMA LimiterNext ==
  ASSUME LimiterLimits, LimiterInv, [Limits!Next]_(Limits!vars) PROVE LimiterInv'
<1>1. PICK g, t : g = grants /\ t = limitTime
  OBVIOUS
<1>2. /\ t \in 0 .. MaxLimitTime /\ InTime(g, t)
      /\ LimiterOK(limiter, record, timestamps, entry, bucket, g, t)
      /\ GuardsOK(limiter, timestamps, g, through, t)
  BY <1>1 DEF LimiterInv
<1>3. CASE UNCHANGED Limits!vars
  BY <1>3 DEF LimiterInv, Limits!vars
<1>4. CASE Limits!checkLimit \/ Limits!incrementCounter \/ Limits!cleanup
  <2>1. /\ limiter = "fixed" /\ limiter' = limiter /\ limitTime' = t
        /\ UNCHANGED <<timestamps, entry, bucket, through>>
    BY <1>1, <1>4 DEF Limits!checkLimit, Limits!incrementCounter, Limits!cleanup
  <2>2. FixedOK(record, g, t) /\ timestamps = <<>> /\ entry = {} /\ bucket = {}
    BY <1>2, <2>1 DEF LimiterOK
  <2>3. CASE Limits!checkLimit
    <3>1. Limits!CountRequest
      BY <2>3 DEF Limits!checkLimit
    <3>2. InTime(grants', t) /\ FixedOK(record', grants', t)
      BY <1>1, <1>2, <2>2, <3>1, CountRequestStep
    <3> QED  BY <1>2, <2>1, <2>2, <3>2 DEF LimiterInv, LimiterOK, GuardsOK
  <2>4. CASE Limits!incrementCounter \/ Limits!cleanup
    <3>1. grants' = g
      BY <1>1, <2>4 DEF Limits!incrementCounter, Limits!cleanup
    <3>2. FixedOK(record', g, t)
      BY <1>1, <1>2, <2>2, <2>4, IncrementStep, CleanupStep
    <3> QED  BY <1>2, <2>1, <2>2, <3>1, <3>2 DEF LimiterInv, LimiterOK, GuardsOK
  <2> QED  BY <1>4, <2>3, <2>4
<1>5. CASE Limits!SlidingCheck \/ (Limits!SlidingCleanup /\ limiter = "sliding")
  <2>1. /\ limiter = "sliding" /\ limiter' = limiter /\ limitTime' = t
        /\ UNCHANGED <<record, entry, bucket, through>>
    BY <1>1, <1>5 DEF Limits!SlidingCheck, Limits!SlidingCleanup, Limits!Slide
  <2>2. /\ SlidingOK(timestamps, g, t) /\ record = {} /\ entry = {} /\ bucket = {}
        /\ through = <<>>
    BY <1>2, <2>1 DEF LimiterOK, GuardsOK
  <2>3. CASE Limits!SlidingCheck
    <3>1. Limits!Slide(maxRequests, windowMs)
      BY <2>3 DEF Limits!SlidingCheck
    <3>2. InTime(grants', t) /\ SlidingOK(timestamps', grants', t)
      BY <1>1, <1>2, <2>2, <3>1, SlideStep
    <3> QED  BY <1>2, <2>1, <2>2, <3>2 DEF LimiterInv, LimiterOK, GuardsOK
  <2>4. CASE Limits!SlidingCleanup
    <3>1. grants' = g
      BY <1>1, <2>4 DEF Limits!SlidingCleanup
    <3>2. SlidingOK(timestamps', g, t)
      BY <1>1, <1>2, <2>2, <2>4, SlidingCleaned
    <3> QED  BY <1>2, <2>1, <2>2, <3>1, <3>2 DEF LimiterInv, LimiterOK, GuardsOK
  <2> QED  BY <1>5, <2>3, <2>4
<1>8. CASE (\E c \in Throttles : Limits!canActivate(c)) \/ (Limits!SlidingCleanup /\ limiter = "throttle")
  <2>1. /\ limiter = "throttle" /\ limiter' = limiter /\ limitTime' = t
        /\ UNCHANGED <<record, entry, bucket>>
    BY <1>1, <1>8 DEF Limits!canActivate, Limits!SlidingCleanup, Limits!Slide
  <2>2. GuardOK(timestamps, g, through, t) /\ record = {} /\ entry = {} /\ bucket = {}
    BY <1>2, <2>1 DEF LimiterOK, GuardsOK
  <2>3. ASSUME NEW c \in Throttles, Limits!canActivate(c) PROVE LimiterInv'
    <3>1. PICK u : u = through
      OBVIOUS
    <3>2. InTime(grants', t) /\ GuardOK(timestamps', grants', through', t)
      BY <1>1, <1>2, <2>2, <2>3, <3>1, GuardStep
    <3> QED  BY <1>2, <2>1, <2>2, <3>2 DEF LimiterInv, LimiterOK, GuardsOK
  <2>4. CASE Limits!SlidingCleanup
    <3>1. grants' = g /\ through' = through
      BY <1>1, <2>4 DEF Limits!SlidingCleanup
    <3>2. PICK u : u = through
      OBVIOUS
    <3>3. GuardOK(timestamps', g, u, t)
      BY <1>1, <1>2, <2>2, <2>4, <3>2, GuardCleaned
    <3> QED  BY <1>2, <2>1, <2>2, <3>1, <3>2, <3>3 DEF LimiterInv, LimiterOK, GuardsOK
  <2> QED  BY <1>8, <2>3, <2>4
<1>6. CASE Limits!use \/ Limits!MiddlewareCleanup
  <2>1. /\ limiter = "middleware" /\ limiter' = limiter /\ limitTime' = t
        /\ UNCHANGED <<record, timestamps, bucket, through>>
    BY <1>1, <1>6 DEF Limits!use, Limits!MiddlewareCleanup
  <2>2. MiddlewareOK(entry, g, t) /\ timestamps = <<>> /\ record = {} /\ bucket = {}
    BY <1>2, <2>1 DEF LimiterOK
  <2>3. CASE Limits!use
    <3>1. InTime(grants', t) /\ MiddlewareOK(entry', grants', t)
      BY <1>1, <1>2, <2>2, <2>3, UseStep
    <3> QED  BY <1>2, <2>1, <2>2, <3>1 DEF LimiterInv, LimiterOK, GuardsOK
  <2>4. CASE Limits!MiddlewareCleanup
    <3>1. grants' = g
      BY <1>1, <2>4 DEF Limits!MiddlewareCleanup
    <3>2. MiddlewareOK(entry', g, t)
      BY <1>1, <1>2, <2>2, <2>4, MiddlewareCleanupStep
    <3> QED  BY <1>2, <2>1, <2>2, <3>1, <3>2 DEF LimiterInv, LimiterOK, GuardsOK
  <2> QED  BY <1>6, <2>3, <2>4
<1>7. CASE Limits!BucketCheck
  <2>1. /\ limiter = "bucket" /\ limiter' = limiter /\ limitTime' = t
        /\ UNCHANGED <<record, timestamps, entry, through>>
    BY <1>1, <1>7 DEF Limits!BucketCheck
  <2>2. BucketOK(bucket, g, t) /\ timestamps = <<>> /\ record = {} /\ entry = {}
    BY <1>2, <2>1 DEF LimiterOK
  <2>3. InTime(grants', t) /\ BucketOK(bucket', grants', t)
    BY <1>1, <1>2, <1>7, <2>2, BucketCheckStep
  <2> QED  BY <1>2, <2>1, <2>2, <2>3 DEF LimiterInv, LimiterOK, GuardsOK
<1>9. Limits!SlidingCleanup => limiter \in {"sliding", "throttle"}
  BY DEF Limits!SlidingCleanup
<1> QED  BY <1>3, <1>4, <1>5, <1>6, <1>7, <1>8, <1>9, ResetStep, LimiterTick DEF Limits!Next

LEMMA LimiterSpec == ASSUME LimiterLimits PROVE Limits!Spec => []LimiterInv
<1>1. Limits!Init => LimiterInv
  BY LimiterInit
<1>2. LimiterInv /\ [Limits!Next]_(Limits!vars) => LimiterInv'
  BY LimiterNext
<1> QED  BY <1>1, <1>2, PTL DEF Limits!Spec

LEMMA LimitsCount == ASSUME NEW S PROVE Limits!Cardinality(S) = Cardinality(S)
BY DEF Limits!Cardinality, Cardinality

\* A rate of the times bounds how many of them lie in any one window.
LEMMA AllowedIs ==
  ASSUME LimiterLimits, NEW t \in Nat, NEW g, g = grants, InTime(g, t), NEW x \in Nat
  PROVE  /\ Limits!AllowedFrom(x) <= MaxGrants
         /\ \A limit \in Nat : Rated(g, limit) => Limits!AllowedFrom(x) <= limit
<1> DEFINE S == {i \in DOMAIN g : x <= g[i] /\ g[i] < x + windowMs}
<1>1. PICK n, W : n = Len(g) /\ W = windowMs
  OBVIOUS
<1>2. /\ n \in Nat /\ DOMAIN g = 1 .. n /\ n <= MaxGrants /\ MaxGrants \in Nat /\ W \in Nat
      /\ \A i \in 1 .. n : g[i] \in Int
      /\ \A i, j \in 1 .. n : i <= j => g[i] <= g[j]
  BY <1>1 DEF InTime, LimiterLimits
<1>3. Limits!AllowedFrom(x) = Cardinality(S)
  BY LimitsCount DEF Limits!AllowedFrom
<1>4. ASSUME NEW a \in Int, NEW b \in Int, a <= b + 1, S \subseteq a .. b
      PROVE  Cardinality(S) <= b - a + 1
  <2>1. IsFiniteSet(a .. b) /\ Cardinality(a .. b) = b - a + 1
    BY <1>4, FS_Interval
  <2> QED  BY <1>4, <2>1, FS_Subset
<1>5. Cardinality(S) <= n
  <2>1. S \subseteq 1 .. n
    BY <1>2
  <2> QED  BY <1>2, <1>4, <2>1
<1>6. ASSUME NEW limit \in Nat, Rated(g, limit) PROVE Cardinality(S) <= limit
  <2>1. CASE S = {}
    <3>1. Cardinality(S) = 0
      BY <2>1, FS_EmptySet
    <3> QED  BY <3>1
  <2>2. CASE S # {}
    <3>1. S \subseteq Nat
      BY <1>2
    <3>2. PICK m \in S : \A i \in S : m <= i
      BY <2>2, <3>1, LeastNumber
    <3>3. m \in 1 .. n /\ x <= g[m]
      BY <1>2
    <3>4. ASSUME NEW i \in S PROVE i \in m .. m + limit - 1
      <4>1. i \in 1 .. n /\ g[i] < x + W /\ m <= i
        BY <1>1, <1>2, <3>2
      <4>2. ASSUME i >= m + limit PROVE FALSE
        <5>1. PICK j : j = m + limit
          OBVIOUS
        <5>2. j \in 1 .. n /\ j <= i
          BY <1>2, <3>3, <4>1, <4>2, <5>1
        <5>3. g[j] - g[m] >= W
          BY <1>1, <1>2, <1>6, <3>3, <5>1, <5>2 DEF Rated
        <5>4. g[j] <= g[i] /\ g[j] \in Int /\ g[m] \in Int /\ g[i] \in Int
          BY <1>2, <3>3, <4>1, <5>2
        <5> QED  BY <1>2, <3>3, <4>1, <5>3, <5>4
      <4> QED  BY <3>3, <4>1, <4>2
    <3>5. PICK b : b = m + limit - 1
      OBVIOUS
    <3>6. b \in Int /\ m \in Int /\ m <= b + 1 /\ b - m + 1 = limit
      BY <3>3, <3>5
    <3>7. S \subseteq m .. b
      BY <3>4, <3>5
    <3>8. Cardinality(S) <= b - m + 1
      BY <1>4, <3>6, <3>7
    <3> QED  BY <3>6, <3>8
  <2> QED  BY <2>1, <2>2
<1>7. Cardinality(S) \in Nat
  <2>1. S \subseteq 1 .. n /\ IsFiniteSet(1 .. n)
    BY <1>2, FS_Interval
  <2>2. IsFiniteSet(S)
    BY <2>1, FS_Subset
  <2> QED  BY <2>2, FS_CardinalityType
<1>8. Limits!AllowedFrom(x) <= MaxGrants
  BY <1>2, <1>3, <1>5, <1>7
<1> QED  BY <1>3, <1>6, <1>8

LEMMA WindowPromise == ASSUME LimiterLimits, LimiterInv PROVE Limits!WindowRate
<1>1. PICK g, t : g = grants /\ t = limitTime
  OBVIOUS
<1>2. /\ t \in Nat /\ InTime(g, t)
      /\ LimiterOK(limiter, record, timestamps, entry, bucket, g, t)
  BY <1>1 DEF LimiterInv, LimiterLimits
<1>3. maxRequests \in Nat /\ 2 * maxRequests - 1 \in Nat
  BY DEF LimiterLimits
<1>4. SUFFICES ASSUME NEW x \in 0 .. t
               PROVE  Limits!AllowedFrom(x) <=
                        CASE limiter \in {"fixed", "middleware"} -> 2 * maxRequests - 1
                          [] limiter = "sliding" -> maxRequests
                          [] OTHER -> MaxGrants
  BY <1>1 DEF Limits!WindowRate
<1>5. /\ Limits!AllowedFrom(x) <= MaxGrants
      /\ \A limit \in Nat : Rated(g, limit) => Limits!AllowedFrom(x) <= limit
  BY <1>1, <1>2, AllowedIs
<1>6. CASE limiter \in {"fixed", "middleware"}
  <2>1. Rated(g, 2 * maxRequests - 1)
    BY <1>2, <1>6 DEF LimiterOK, FixedOK, MiddlewareOK
  <2>2. Limits!AllowedFrom(x) <= 2 * maxRequests - 1
    BY <1>3, <1>5, <2>1
  <2> QED  BY <1>6, <2>2
<1>7. CASE limiter = "sliding"
  <2>1. Rated(g, maxRequests)
    BY <1>2, <1>7 DEF LimiterOK, SlidingOK
  <2>2. Limits!AllowedFrom(x) <= maxRequests
    BY <1>3, <1>5, <2>1
  <2> QED  BY <1>7, <2>2
<1>8. CASE ~(limiter \in {"fixed", "middleware"}) /\ limiter # "sliding"
  BY <1>5, <1>8
<1> QED  BY <1>6, <1>7, <1>8

LEMMA GuardPromise == ASSUME LimiterLimits, LimiterInv PROVE Limits!GuardRate
<1>1. CASE limiter = "throttle"
  <2>1. GuardRated(grants, through)
    BY <1>1 DEF LimiterInv, GuardsOK, GuardOK
  <2> QED  BY <2>1 DEF GuardRated, Outlasted, Limits!GuardRate
<1>2. CASE limiter # "throttle"
  <2>1. DOMAIN through = {}
    BY <1>2 DEF LimiterInv, GuardsOK
  <2> QED  BY <2>1 DEF Limits!GuardRate
<1> QED  BY <1>1, <1>2

LEMMA BucketPromise == ASSUME LimiterLimits, LimiterInv PROVE Limits!BucketRate
<1>1. PICK g : g = grants
  OBVIOUS
<1>2. SUFFICES ASSUME limiter = "bucket", NEW i \in DOMAIN g, NEW j \in DOMAIN g, i <= j
               PROVE  j - i + 1 <= capacity + refillRate *
                        ((g[j] - g[i] + refillInterval - 1) \div refillInterval)
  BY <1>1 DEF Limits!BucketRate
<1>3. PICK n, I, d : n = Len(g) /\ I = refillInterval /\ d = g[j] - g[i]
  OBVIOUS
<1>4. j - i + 1 <= capacity + refillRate * Begun(d)
  <2>1. BucketRated(g)
    BY <1>1, <1>2 DEF LimiterInv, LimiterOK, BucketOK
  <2> QED  BY <1>2, <1>3, <2>1 DEF BucketRated
<1>5. d \in Nat /\ I \in Nat \ {0}
  BY <1>1, <1>2, <1>3 DEF LimiterInv, InTime, LimiterLimits
<1>6. Begun(d) = (d + I - 1) \div I
  <2>1. CASE d = 0
    <3>1. PICK a, c : a = d + I - 1 /\ c = a \div I
      OBVIOUS
    <3>2. a \in Nat /\ a < I
      BY <1>5, <2>1, <3>1
    <3>3. c \in Nat /\ I * c <= a
      BY <1>5, <3>1, <3>2, WholeParts
    <3>4. c = 0
      <4>1. I * c < I * 0 + I
        BY <1>5, <3>2, <3>3
      <4>2. c <= 0
        BY <1>5, <3>3, <4>1, FewerParts
      <4> QED  BY <3>3, <4>2
    <3>5. Begun(d) = 0
      BY <2>1 DEF Begun
    <3> QED  BY <3>1, <3>4, <3>5
  <2>2. CASE d # 0
    <3>1. ~(d <= 0)
      BY <1>5, <2>2
    <3> QED  BY <1>3, <3>1 DEF Begun
  <2> QED  BY <2>1, <2>2
<1> QED  BY <1>3, <1>4, <1>6

LEMMA InfoPromise == ASSUME LimiterLimits, LimiterInv PROVE Limits!InfoIsKept
<1>1. PICK g, t : g = grants /\ t = limitTime
  OBVIOUS
<1>2. SUFFICES ASSUME limiter = "fixed", Limits!Remaining > 0, NEW r \in record
               PROVE  Limits!Counted(r) <= maxRequests
  BY DEF Limits!InfoIsKept
<1>3. FixedOK(record, g, t)
  BY <1>1, <1>2 DEF LimiterInv, LimiterOK
<1>4. PICK f, c, b : c \in 1 .. maxRequests + 1 /\ record = {Requested(f, c, b)}
  BY <1>2, <1>3 DEF FixedOK
<1>5. r.count = c /\ record = {r}
  BY <1>2, <1>4 DEF Requested
<1>6. maxRequests \in Nat
  BY DEF LimiterLimits
<1>7. Limits!Remaining =
        CHOOSE n \in 0 .. maxRequests : IF c > maxRequests THEN n = 0 ELSE n = maxRequests - c
  <2>1. \A n : (\E q \in record : IF q.count > maxRequests THEN n = 0 ELSE n = maxRequests - q.count)
                <=> IF c > maxRequests THEN n = 0 ELSE n = maxRequests - c
    BY <1>5
  <2>2. record # {}
    BY <1>5
  <2> QED  BY <2>1, <2>2 DEF Limits!Remaining
<1>8. CASE c > maxRequests
  <2>1. 0 \in 0 .. maxRequests
    BY <1>6
  <2>2. Limits!Remaining = 0
    BY <1>7, <1>8, <2>1
  <2> QED  BY <1>2, <2>2
<1>9. CASE ~(c > maxRequests)
  <2>1. PICK k : k = maxRequests - c
    OBVIOUS
  <2>2. k \in 0 .. maxRequests
    BY <1>4, <1>6, <1>9, <2>1
  <2>3. Limits!Remaining = k
    BY <1>7, <1>9, <2>1, <2>2
  <2>4. c + 1 <= maxRequests
    BY <1>2, <1>4, <1>6, <2>1, <2>2, <2>3
  <2> QED  BY <1>5, <1>9, <2>4 DEF Limits!Counted
<1> QED  BY <1>8, <1>9

\* Whatever requests, blocks, clean-ups and resets come: no span of one window's length
\* has more requests let through than the limiter promises; the guard lets more than its
\* limit through to a handler only when a handler with a shorter window, called between,
\* or the clean-up has forgotten the earlier ones; the token bucket never gives more than
\* its capacity and its refills, and a caller who is told that requests are left gets the
\* next one (rate-limiter.service.ts, throttle.guard.ts, rate-limit.middleware.ts).
THEOREM RatesAreKept == ASSUME LimiterLimits PROVE Limits!Spec => []AllowedRate
<1>1. LimiterInv =>
        Limits!WindowRate /\ Limits!GuardRate /\ Limits!BucketRate /\ Limits!InfoIsKept
  BY WindowPromise, GuardPromise, BucketPromise, InfoPromise
<1>2. Limits!WindowRate /\ Limits!GuardRate /\ Limits!BucketRate /\ Limits!InfoIsKept
        => AllowedRate
  BY DEF AllowedRate
<1> QED  BY <1>1, <1>2, LimiterSpec, PTL

LEMMA LimiterTypes == ASSUME LimiterLimits, LimiterInv PROVE Limits!TypeOK
<1>1. PICK g, t : g = grants /\ t = limitTime
  OBVIOUS
<1>2. /\ t \in 0 .. MaxLimitTime /\ t \in Nat /\ MaxLimitTime \in Nat /\ InTime(g, t)
      /\ LimiterOK(limiter, record, timestamps, entry, bucket, g, t)
  BY <1>1 DEF LimiterInv, LimiterLimits
<1>3. record \subseteq Limits!RequestRecord
  <2>1. ASSUME NEW f \in 0 .. t, NEW c \in 1 .. maxRequests + 1,
               NEW b \in 0 .. MaxLimitTime + blockDuration
        PROVE  Requested(f, c, b) \in Limits!RequestRecord
    <3>1. f \in 0 .. MaxLimitTime
      BY <1>2
    <3> QED  BY <3>1 DEF Requested, Limits!RequestRecord
  <2> QED  BY <1>2, <2>1 DEF LimiterOK, FixedOK
<1>4. entry \subseteq [count : 1 .. maxRequests + 1, resetTime : 0 .. MaxLimitTime + windowMs]
  <2>1. ASSUME NEW f \in 0 .. t, NEW c \in 1 .. maxRequests + 1
        PROVE  Entered(f, c) \in [count : 1 .. maxRequests + 1, resetTime : 0 .. MaxLimitTime + windowMs]
    <3>1. f + windowMs \in 0 .. MaxLimitTime + windowMs
      BY <1>2 DEF LimiterLimits
    <3> QED  BY <3>1 DEF Entered
  <2> QED  BY <1>2, <2>1 DEF LimiterOK, MiddlewareOK
<1>5. \A b \in bucket : b.tokens \in 0 .. capacity - 1 /\ b.lastRefill \in 0 .. t
  <2>1. ASSUME NEW k \in 0 .. capacity - 1, NEW l \in 0 .. t
        PROVE  Filled(k, l).tokens \in 0 .. capacity - 1 /\ Filled(k, l).lastRefill \in 0 .. t
    BY DEF Filled
  <2> QED  BY <1>2, <2>1 DEF LimiterOK, BucketOK
<1>6. timestamps \in Seq(0 .. MaxLimitTime)
  <2>1. <<>> \in Seq(0 .. MaxLimitTime)
    OBVIOUS
  <2>2. ASSUME SlidingOK(timestamps, g, t) PROVE timestamps \in Seq(0 .. MaxLimitTime)
    BY <2>2 DEF SlidingOK, SuffixFrom, Suffix
  <2>3. ASSUME GuardOK(timestamps, g, through, t) PROVE timestamps \in Seq(0 .. MaxLimitTime)
    BY <2>3 DEF GuardOK, Suffix
  <2> QED  BY <1>1, <1>2, <2>1, <2>2, <2>3 DEF LimiterOK, GuardsOK, LimiterInv
<1>7. g \in Seq(0 .. t)
  BY <1>2 DEF InTime
<1>8. through \in Seq(Throttles)
  <2>1. <<>> \in Seq(Throttles)
    OBVIOUS
  <2> QED  BY <2>1 DEF LimiterInv, GuardsOK, GuardOK
<1> QED  BY <1>1, <1>2, <1>3, <1>4, <1>5, <1>6, <1>7, <1>8 DEF Limits!TypeOK

\* What the limiters keep has its type: counts stop at one above the limit, and the bucket
\* is never full after a request (the same files).
THEOREM LimitersTypeCorrect == ASSUME LimiterLimits PROVE Limits!Spec => []Limits!TypeOK
<1>1. LimiterInv => Limits!TypeOK
  BY LimiterTypes
<1> QED  BY <1>1, LimiterSpec, PTL

-----------------------------------------------------------------------------
(* Judges' scores, and what is read of the submissions.                      *)

ScoringLimits ==
    /\ JudgesScores \subseteq Nat /\ MaxScorings \in Nat
    /\ JudgedSubmissions \subseteq Nat /\ IsFiniteSet(JudgedSubmissions)

ReaderLimits == Scores \subseteq Nat /\ topLimit \in Nat

\* The sums of the numbers a[1], ..., a[n].
Adding(a, n, f) == f = [i \in 0 .. n |-> IF i = 0 THEN 0 ELSE f[i - 1] + a[i]]

LEMMA AddingExists ==
  ASSUME NEW a, NEW n \in Nat PROVE \E f : Adding(a, n, f)
<1> DEFINE T == {k \in Nat : ~ \E f : Adding(a, k, f)}
<1>1. SUFFICES ASSUME T # {} PROVE FALSE
  OBVIOUS
<1>2. PICK k \in T : \A m \in T : k <= m
  BY <1>1, LeastNumber
<1>3. CASE k = 0
  <2>1. PICK f : f = [i \in 0 .. 0 |-> 0]
    OBVIOUS
  <2>2. f = [i \in 0 .. k |-> IF i = 0 THEN 0 ELSE f[i - 1] + a[i]]
    BY <1>3, <2>1
  <2> QED  BY <2>2 DEF Adding
<1>4. CASE k # 0
  <2>1. k - 1 \in Nat /\ k - 1 \notin T
    BY <1>2, <1>4
  <2>2. PICK f : Adding(a, k - 1, f)
    BY <2>1
  <2>3. PICK l : l = f[k - 1] + a[k]
    OBVIOUS
  <2>4. PICK g : g = [i \in 0 .. k |-> IF i = k THEN l ELSE f[i]]
    OBVIOUS
  <2>5. ASSUME NEW i \in 0 .. k
        PROVE  g[i] = IF i = 0 THEN 0 ELSE g[i - 1] + a[i]
    <3>1. CASE i = k
      <4>1. g[i] = l /\ i - 1 \in 0 .. k /\ g[i - 1] = f[k - 1]
        BY <1>4, <2>1, <2>4, <3>1
      <4> QED  BY <1>4, <2>3, <3>1, <4>1
    <3>2. CASE i # k
      <4>1. i \in 0 .. k - 1 /\ g[i] = f[i]
        BY <2>1, <2>4, <3>2
      <4>2. f[i] = IF i = 0 THEN 0 ELSE f[i - 1] + a[i]
        BY <2>2, <4>1 DEF Adding
      <4>3. i # 0 => g[i - 1] = f[i - 1]
        BY <2>1, <2>4, <4>1
      <4> QED  BY <4>1, <4>2, <4>3
    <3> QED  BY <3>1, <3>2
  <2>6. g = [i \in 0 .. k |-> g[i]]
    BY <2>4
  <2>7. g = [i \in 0 .. k |-> IF i = 0 THEN 0 ELSE g[i - 1] + a[i]]
    BY <2>5, <2>6
  <2> QED  BY <2>7 DEF Adding
<1> QED  BY <1>3, <1>4

LEMMA OneMoreTimes ==
  ASSUME NEW c \in Nat, NEW x \in Nat
  PROVE  (c + 1) * x = c * x + x /\ c * x \in Nat
OBVIOUS

\* A sum of as many numbers as S has, none below lo and none above hi.
Between(S, x, lo, hi) == x \in Nat /\ x >= Cardinality(S) * lo /\ x <= Cardinality(S) * hi

LEMMA OneMoreBetween ==
  ASSUME NEW S, IsFiniteSet(S), NEW k, k \notin S, NEW x, NEW lo \in Nat, NEW hi \in Nat,
         Between(S, x, lo, hi), NEW y \in Nat, lo <= y, y <= hi
  PROVE  Between(S \cup {k}, x + y, lo, hi)
<1>1. PICK c : c = Cardinality(S)
  OBVIOUS
<1>2. c \in Nat /\ Cardinality(S \cup {k}) = c + 1
  BY <1>1, FS_CardinalityType, FS_AddElement
<1>3. PICK p, q : p = c * lo /\ q = c * hi
  OBVIOUS
<1>4. (c + 1) * lo = p + lo /\ (c + 1) * hi = q + hi /\ p \in Nat /\ q \in Nat
  BY <1>2, <1>3, OneMoreTimes
<1>5. x \in Nat /\ x >= p /\ x <= q
  BY <1>1, <1>3 DEF Between
<1>6. x + y \in Nat /\ x + y >= p + lo /\ x + y <= q + hi
  BY <1>4, <1>5
<1> QED  BY <1>2, <1>4, <1>6 DEF Between

LEMMA SumBetween ==
  ASSUME NEW n \in Nat, NEW a, NEW f, Adding(a, n, f), NEW S, S \subseteq 1 .. n,
         NEW lo \in Nat, NEW hi \in Nat,
         \A i \in S : a[i] \in Nat /\ lo <= a[i] /\ a[i] <= hi,
         \A i \in (1 .. n) \ S : a[i] = 0
  PROVE  Between(S, f[n], lo, hi)
<1> DEFINE Part(i) == S \cap (1 .. i)
           T == {i \in 0 .. n : ~Between(Part(i), f[i], lo, hi)}
<1>1. T = {}
  <2>1. SUFFICES ASSUME T # {} PROVE FALSE
    OBVIOUS
  <2>0. T \subseteq Nat
    OBVIOUS
  <2>2. PICK k \in T : \A m \in T : k <= m
    BY <2>0, <2>1, LeastNumber
  <2>3. k \in 0 .. n /\ ~Between(Part(k), f[k], lo, hi)
    OBVIOUS
  <2>4. f[k] = IF k = 0 THEN 0 ELSE f[k - 1] + a[k]
    BY <2>3 DEF Adding
  <2>5. CASE k = 0
    <3>1. Part(k) = {} /\ Cardinality({}) = 0
      BY <2>5, FS_EmptySet
    <3>2. f[k] = 0 /\ 0 * lo = 0 /\ 0 * hi = 0
      BY <2>4, <2>5
    <3> QED  BY <2>3, <3>1, <3>2 DEF Between
  <2>6. CASE k # 0
    <3>1. k - 1 \in 0 .. n /\ k \in 1 .. n /\ ~(k <= k - 1)
      BY <2>3, <2>6
    <3>2. Between(Part(k - 1), f[k - 1], lo, hi)
      <4>1. k - 1 \notin T
        BY <2>2, <3>1
      <4> QED  BY <3>1, <4>1
    <3>3. IsFiniteSet(Part(k - 1))
      <4>1. IsFiniteSet(1 .. k - 1)
        BY <3>1, FS_Interval
      <4> QED  BY <4>1, FS_Subset
    <3>4. CASE k \in S
      <4>1. Part(k) = Part(k - 1) \cup {k} /\ k \notin Part(k - 1)
        BY <3>1, <3>4
      <4>2. PICK y : y = a[k]
        OBVIOUS
      <4>3. y \in Nat /\ lo <= y /\ y <= hi /\ f[k] = f[k - 1] + y
        BY <2>4, <2>6, <3>4, <4>2
      <4> HIDE DEF Part
      <4>4. Between(Part(k - 1) \cup {k}, f[k - 1] + y, lo, hi)
        BY <3>2, <3>3, <4>1, <4>3, OneMoreBetween
      <4> QED  BY <2>3, <4>1, <4>3, <4>4
    <3>5. CASE k \notin S
      <4>1. Part(k) = Part(k - 1)
        BY <3>1, <3>5
      <4>2. a[k] = 0 /\ f[k - 1] \in Nat
        BY <3>1, <3>2, <3>5 DEF Between
      <4>3. f[k] = f[k - 1]
        BY <2>4, <2>6, <4>2
      <4> QED  BY <2>3, <3>2, <4>1, <4>3
    <3> QED  BY <3>4, <3>5
  <2> QED  BY <2>5, <2>6
<1>2. n \in 0 .. n
  OBVIOUS
<1>3. Between(Part(n), f[n], lo, hi)
  BY <1>1, <1>2
<1>4. Part(n) = S
  OBVIOUS
<1> QED  BY <1>3, <1>4

\* What is before each element of S, in an order of all of them.
Orders(P, S) ==
    /\ P \in [S -> SUBSET S]
    /\ \A s \in S : s \notin P[s]
    /\ \A s \in S : \A t \in P[s] : P[t] \subseteq P[s]
    /\ \A s, t \in S : s = t \/ s \in P[t] \/ t \in P[s]

LEMMA OrderedIsNumbered ==
  ASSUME NEW S, IsFiniteSet(S), NEW P, Orders(P, S)
  PROVE  /\ \A s \in S : IsFiniteSet(P[s]) /\ Cardinality(P[s]) \in Nat
         /\ \A s \in S : \A t \in P[s] : Cardinality(P[t]) < Cardinality(P[s])
         /\ \A s \in S : 1 + Cardinality(P[s]) \in 1 .. Cardinality(S)
         /\ \A i \in 1 .. Cardinality(S) : \E s \in S : i = 1 + Cardinality(P[s])
         /\ Cardinality(S) \in Nat
<1>0. PICK n : n = Cardinality(S)
  OBVIOUS
<1>1. n \in Nat
  BY <1>0, FS_CardinalityType
<1>2. ASSUME NEW s \in S PROVE IsFiniteSet(P[s]) /\ Cardinality(P[s]) \in Nat /\ Cardinality(P[s]) < n
  <2>1. P[s] \in SUBSET S /\ s \notin P[s]
    BY DEF Orders
  <2>2. IsFiniteSet(P[s]) /\ Cardinality(P[s]) <= n /\ Cardinality(P[s]) # n
    BY <1>0, <2>1, FS_Subset
  <2> QED  BY <1>1, <2>2, FS_CardinalityType
<1>3. ASSUME NEW s \in S, NEW t \in P[s] PROVE Cardinality(P[t]) < Cardinality(P[s])
  <2>1. t \in S /\ t \notin P[t] /\ P[t] \in SUBSET P[s]
    BY DEF Orders
  <2>2. Cardinality(P[t]) <= Cardinality(P[s]) /\ Cardinality(P[t]) # Cardinality(P[s])
    BY <1>2, <1>3, <2>1, FS_Subset
  <2> QED  BY <1>2, <2>1, <2>2
<1>4. PICK f : f = [s \in S |-> 1 + Cardinality(P[s])]
  OBVIOUS
<1>5. f \in [S -> 1 .. n]
  BY <1>1, <1>2, <1>4
<1>6. ASSUME NEW s \in S, NEW t \in S, f[s] = f[t] PROVE s = t
  <2>1. Cardinality(P[s]) = Cardinality(P[t])
    <3>1. 1 + Cardinality(P[s]) = 1 + Cardinality(P[t])
      BY <1>4, <1>6
    <3> QED  BY <1>2, <3>1
  <2>2. s \notin P[t] /\ t \notin P[s]
    BY <1>2, <1>3, <2>1
  <2> QED  BY <2>2 DEF Orders
<1>7. f \in Injection(S, 1 .. n)
  BY <1>5, <1>6 DEF Injection, IsInjective
<1>8. IsFiniteSet(1 .. n) /\ Cardinality(1 .. n) = n
  BY <1>1, FS_Interval
<1>9. f \in Surjection(S, 1 .. n)
  BY <1>0, <1>7, <1>8, FS_Injection
<1>10. \A i \in 1 .. n : \E s \in S : i = f[s]
  BY <1>9 DEF Surjection
<1>11. \A s \in S : f[s] = 1 + Cardinality(P[s]) /\ f[s] \in 1 .. n
  BY <1>4, <1>5
<1> QED  BY <1>0, <1>1, <1>2, <1>3, <1>10, <1>11

\* The sum of the judges' scores at the places S.
LEMMA TotalIs ==
  ASSUME NEW xs \in Seq(Nat), NEW S, S \subseteq DOMAIN xs, NEW lo \in Nat, NEW hi \in Nat,
         \A i \in S : lo <= xs[i] /\ xs[i] <= hi
  PROVE  /\ Between(S, Verdicts!Total(xs, S), lo, hi)
         /\ IsFiniteSet(S) /\ Cardinality(S) \in Nat /\ (S # {} => Cardinality(S) # 0)
<1>1. PICK n : n = Len(xs)
  OBVIOUS
<1>2. n \in Nat /\ DOMAIN xs = 1 .. n /\ \A i \in 1 .. n : xs[i] \in Nat
  BY <1>1
<1>3. PICK a : a = [i \in 1 .. n |-> IF i \in S THEN xs[i] ELSE 0]
  OBVIOUS
<1> DEFINE Step(f) == [i \in 0 .. n |-> IF i = 0 THEN 0
                                        ELSE f[i - 1] + (IF i \in S THEN xs[i] ELSE 0)]
           f == CHOOSE g : g = Step(g)
<1>4. Verdicts!Total(xs, S) = f[n]
  BY <1>1 DEF Verdicts!Total
<1>5. ASSUME NEW g PROVE Step(g) = [i \in 0 .. n |-> IF i = 0 THEN 0 ELSE g[i - 1] + a[i]]
  <2> SUFFICES ASSUME NEW i \in 0 .. n, i # 0
               PROVE  a[i] = IF i \in S THEN xs[i] ELSE 0
    OBVIOUS
  <2>1. i \in 1 .. n
    OBVIOUS
  <2> QED  BY <1>3, <2>1
<1>6. PICK g : Adding(a, n, g)
  BY <1>2, AddingExists
<1>7. g = Step(g)
  BY <1>5, <1>6 DEF Adding
<1> HIDE DEF Step
<1>8. f = Step(f)
  BY <1>7
<1>9. Adding(a, n, f)
  BY <1>5, <1>8 DEF Adding
<1> HIDE DEF f
<1>10. S \subseteq 1 .. n /\ \A i \in S : a[i] = xs[i] /\ a[i] \in Nat
  BY <1>2, <1>3
<1>11. \A i \in (1 .. n) \ S : a[i] = 0
  BY <1>3
<1>12. Between(S, f[n], lo, hi)
  BY <1>2, <1>9, <1>10, <1>11, SumBetween
<1>13. IsFiniteSet(S)
  <2>1. IsFiniteSet(1 .. n)
    BY <1>2, FS_Interval
  <2> QED  BY <1>10, <2>1, FS_Subset
<1> QED  BY <1>4, <1>12, <1>13, FS_CardinalityType, FS_EmptySet

Fractions == Nat \X (Nat \ {0})

LEMMA MeanIs ==
  ASSUME NEW xs \in Seq(Nat), NEW S, S \subseteq DOMAIN xs, S # {}
  PROVE  /\ Verdicts!Mean(xs, S) = <<Verdicts!Total(xs, S), Cardinality(S)>>
         /\ Verdicts!Mean(xs, S) \in Fractions
<1>1. Verdicts!Mean(xs, S) = <<Verdicts!Total(xs, S), Cardinality(S)>>
  <2>1. Verdicts!Cardinality(S) = Cardinality(S)
    BY DEF Verdicts!Cardinality, Cardinality
  <2> QED  BY <2>1 DEF Verdicts!Mean
<1> DEFINE R == {xs[j] : j \in DOMAIN xs}
<1>2. PICK n : n = Len(xs)
  OBVIOUS
<1>3. n \in Nat /\ DOMAIN xs = 1 .. n /\ R \subseteq Nat /\ \A i \in 1 .. n : xs[i] \in R
  BY <1>2
<1>4. IsFiniteSet(R)
  <2>1. IsFiniteSet(1 .. n)
    BY <1>3, FS_Interval
  <2>2. R = {xs[j] : j \in 1 .. n}
    BY <1>3
  <2> QED  BY <2>1, <2>2, ValuesAreFinite
<1>5. R # {}
  BY <1>3
<1> HIDE DEF R
<1>6. PICK hi \in R : \A x \in R : ~(x > hi)
  BY <1>3, <1>4, <1>5, GreatestOf
<1>7. ASSUME NEW i \in S PROVE 0 <= xs[i] /\ xs[i] <= hi
  <2>1. xs[i] \in R /\ xs[i] \in Nat /\ hi \in Nat
    BY <1>3, <1>6
  <2> QED  BY <1>6, <2>1
<1>8. hi \in Nat /\ 0 \in Nat
  BY <1>3, <1>6
<1>9. Between(S, Verdicts!Total(xs, S), 0, hi) /\ Cardinality(S) \in Nat /\ Cardinality(S) # 0
  BY <1>7, <1>8, TotalIs
<1>10. Verdicts!Total(xs, S) \in Nat
  BY <1>9 DEF Between
<1> QED  BY <1>1, <1>9, <1>10 DEF Fractions

LEMMA NormalizedIs ==
  ASSUME NEW xs \in Seq(Nat), xs # <<>>
  PROVE  Verdicts!NormalizedScore(xs) \in Fractions
<1>1. DOMAIN xs # {}
  <2>1. <<>> \in Seq(Nat) /\ Len(<<>>) = 0
    OBVIOUS
  <2>2. Len(xs) # 0
    BY <2>1, SameSequence
  <2>3. Len(xs) \in Nat /\ DOMAIN xs = 1 .. Len(xs)
    OBVIOUS
  <2>4. 1 \in 1 .. Len(xs)
    BY <2>2, <2>3
  <2> QED  BY <2>3, <2>4
<1>2. Verdicts!Filtered(xs) \subseteq DOMAIN xs
  BY DEF Verdicts!Filtered
<1>3. PICK S : S = IF Len(xs) < 3 \/ Verdicts!Filtered(xs) = {} THEN DOMAIN xs
                   ELSE Verdicts!Filtered(xs)
  OBVIOUS
<1>4. S \subseteq DOMAIN xs /\ S # {}
  BY <1>1, <1>2, <1>3
<1> QED  BY <1>3, <1>4, MeanIs DEF Verdicts!NormalizedScore

\* Fractions are ordered by what they stand for.
LEMMA TimesLess ==
  ASSUME NEW a \in Nat, NEW b \in Nat, NEW c \in Nat \ {0}
  PROVE  a < b <=> a * c < b * c
<1>1. ASSUME a < b PROVE a * c < b * c
  <2>1. PICK d : d = b - a
    OBVIOUS
  <2>2. d \in Nat \ {0} /\ b = a + d
    BY <1>1, <2>1
  <2>3. b * c = a * c + d * c
    BY <2>2
  <2>4. d * c >= 1 /\ a * c \in Nat /\ d * c \in Nat
    BY <2>2
  <2> QED  BY <2>3, <2>4
<1>2. ASSUME b <= a PROVE b * c <= a * c
  <2>1. PICK d : d = a - b
    OBVIOUS
  <2>2. d \in Nat /\ a = b + d
    BY <1>2, <2>1
  <2>3. a * c = b * c + d * c
    BY <2>2
  <2>4. b * c \in Nat /\ d * c \in Nat
    BY <2>2
  <2> QED  BY <2>3, <2>4
<1>3. a * c \in Nat /\ b * c \in Nat
  OBVIOUS
<1> QED  BY <1>1, <1>2, <1>3

LEMMA Turned ==
  ASSUME NEW a \in Nat, NEW b \in Nat, NEW c \in Nat
  PROVE  (a * b) * c = (a * c) * b /\ (a * b) * c = (b * c) * a /\ (a * b) * c \in Nat /\ a * b \in Nat
OBVIOUS

LEMMA HigherIsTransitive ==
  ASSUME NEW p \in Fractions, NEW q \in Fractions, NEW r \in Fractions
  PROVE  /\ Verdicts!Higher(p, q) /\ ~Verdicts!Higher(r, q) => Verdicts!Higher(p, r)
         /\ ~Verdicts!Higher(q, p) /\ Verdicts!Higher(q, r) => Verdicts!Higher(p, r)
         /\ Verdicts!Higher(p, q) => ~Verdicts!Higher(q, p)
<1>1. PICK a, b, c, d, e, f :
         a = p[1] /\ b = p[2] /\ c = q[1] /\ d = q[2] /\ e = r[1] /\ f = r[2]
  OBVIOUS
<1>2. /\ a \in Nat /\ c \in Nat /\ e \in Nat
      /\ b \in Nat \ {0} /\ d \in Nat \ {0} /\ f \in Nat \ {0}
  BY <1>1 DEF Fractions
<1>3. /\ Verdicts!Higher(p, q) <=> c * b < a * d
      /\ Verdicts!Higher(q, p) <=> a * d < c * b
      /\ Verdicts!Higher(r, q) <=> c * f < e * d
      /\ Verdicts!Higher(q, r) <=> e * d < c * f
      /\ Verdicts!Higher(p, r) <=> e * b < a * f
  <2>1. /\ a * d \in Nat /\ c * b \in Nat /\ e * d \in Nat /\ c * f \in Nat
        /\ e * b \in Nat /\ a * f \in Nat
    BY <1>2, Turned
  <2> QED  BY <1>1, <2>1 DEF Verdicts!Higher
<1>4. /\ a * d \in Nat /\ c * b \in Nat /\ e * d \in Nat /\ c * f \in Nat
      /\ e * b \in Nat /\ a * f \in Nat
  BY <1>2, Turned
<1>5. PICK x, y, z : x = (a * d) * f /\ y = (c * b) * f /\ z = (e * d) * b
  OBVIOUS
<1>6. x \in Nat /\ y \in Nat /\ z \in Nat
  BY <1>2, <1>5, Turned
<1>7. x = (a * f) * d /\ y = (c * f) * b /\ z = (e * b) * d
  BY <1>2, <1>5, Turned
<1>8. /\ c * b < a * d <=> y < x
      /\ a * d < c * b <=> x < y
  BY <1>2, <1>4, <1>5, TimesLess
<1>9. /\ c * f < e * d <=> y < z
      /\ e * d < c * f <=> z < y
  BY <1>2, <1>4, <1>5, <1>7, TimesLess
<1>10. e * b < a * f <=> z < x
  BY <1>2, <1>4, <1>7, TimesLess
<1> QED  BY <1>3, <1>6, <1>8, <1>9, <1>10

VerdictTypes ==
    /\ judgeScores \in [JudgedSubmissions -> Seq(JudgesScores)]
    /\ score \in [JudgedSubmissions -> JudgesScores \cup {Verdicts!NoScore}]
    /\ called \in 0 .. MaxScorings

LEMMA JudgesSeq ==
  ASSUME ScoringLimits, VerdictTypes, NEW s \in JudgedSubmissions
  PROVE  judgeScores[s] \in Seq(Nat)
<1>1. judgeScores[s] \in Seq(JudgesScores)
  BY DEF VerdictTypes
<1> QED  BY <1>1, LargerSeq DEF ScoringLimits

LEMMA RankedScoreIs ==
  ASSUME ScoringLimits, VerdictTypes, NEW s \in JudgedSubmissions
  PROVE  Verdicts!RankedScore(s) \in Fractions
<1>1. score[s] \in Nat \/ score[s] = Verdicts!NoScore
  BY DEF ScoringLimits, VerdictTypes
<1>2. 0 \in Nat /\ 1 \in Nat \ {0}
  OBVIOUS
<1>3. /\ <<0, 1>> \in Fractions
      /\ score[s] \in Nat => <<score[s], 1>> \in Fractions
  BY <1>2 DEF Fractions
<1>4. judgeScores[s] # <<>> => Verdicts!NormalizedScore(judgeScores[s]) \in Fractions
  BY JudgesSeq, NormalizedIs
<1> QED  BY <1>1, <1>3, <1>4 DEF Verdicts!RankedScore

\* The submissions that come before s in the ranking.
Ahead(s) ==
    {t \in JudgedSubmissions :
       \/ Verdicts!Higher(Verdicts!RankedScore(t), Verdicts!RankedScore(s))
       \/ t < s /\ ~Verdicts!Higher(Verdicts!RankedScore(s), Verdicts!RankedScore(t))}

LEMMA RankIs ==
  ASSUME NEW s PROVE Verdicts!Rank(s) = 1 + Cardinality(Ahead(s))
<1>1. \A S : Verdicts!Cardinality(S) = Cardinality(S)
  BY DEF Verdicts!Cardinality, Cardinality
<1> QED  BY <1>1 DEF Verdicts!Rank, Ahead

LEMMA AheadIsAnOrder ==
  ASSUME ScoringLimits, VerdictTypes
  PROVE  Orders([s \in JudgedSubmissions |-> Ahead(s)], JudgedSubmissions)
<1> DEFINE H(s, t) == Verdicts!Higher(Verdicts!RankedScore(s), Verdicts!RankedScore(t))
<1>1. ASSUME NEW s \in JudgedSubmissions, NEW t \in JudgedSubmissions, NEW u \in JudgedSubmissions
      PROVE  /\ H(s, t) /\ ~H(u, t) => H(s, u)
             /\ ~H(t, s) /\ H(t, u) => H(s, u)
             /\ H(s, t) => ~H(t, s)
  BY RankedScoreIs, HigherIsTransitive
<1>2. \A s, t \in JudgedSubmissions : t \in Ahead(s) <=> H(t, s) \/ (t < s /\ ~H(s, t))
  BY DEF Ahead
<1> HIDE DEF H
<1>3. JudgedSubmissions \subseteq Nat
  BY DEF ScoringLimits
<1>4. ASSUME NEW s \in JudgedSubmissions, NEW t \in Ahead(s), NEW u \in Ahead(t) PROVE u \in Ahead(s)
  <2>1. t \in JudgedSubmissions /\ u \in JudgedSubmissions
    BY DEF Ahead
  <2>2. s \in Nat /\ t \in Nat /\ u \in Nat
    BY <1>3, <2>1
  <2>3. H(t, s) \/ (t < s /\ ~H(s, t))
    BY <1>2, <1>4, <2>1
  <2>4. H(u, t) \/ (u < t /\ ~H(t, u))
    BY <1>2, <1>4, <2>1
  <2>5. CASE H(t, s) /\ H(u, t)
    BY <1>1, <1>2, <2>1, <2>5
  <2>6. CASE H(t, s) /\ ~H(t, u)
    BY <1>1, <1>2, <2>1, <2>6
  <2>7. CASE ~H(s, t) /\ H(u, t)
    BY <1>1, <1>2, <2>1, <2>7
  <2>8. CASE t < s /\ ~H(s, t) /\ u < t /\ ~H(t, u)
    <3>1. u < s
      BY <2>2, <2>8
    <3>2. ~H(s, u)
      BY <1>1, <2>1, <2>8
    <3> QED  BY <1>2, <2>1, <3>1, <3>2
  <2> QED  BY <2>3, <2>4, <2>5, <2>6, <2>7, <2>8
<1>5. ASSUME NEW s \in JudgedSubmissions PROVE s \notin Ahead(s)
  <2>1. ~(s < s) /\ ~H(s, s)
    BY <1>1, <1>3
  <2> QED  BY <1>2, <2>1
<1>6. ASSUME NEW s \in JudgedSubmissions, NEW t \in JudgedSubmissions, s # t
      PROVE  s \in Ahead(t) \/ t \in Ahead(s)
  <2>1. s < t \/ t < s
    BY <1>3, <1>6
  <2> QED  BY <1>2, <2>1
<1>7. \A s \in JudgedSubmissions : Ahead(s) \in SUBSET JudgedSubmissions
  BY DEF Ahead
<1> QED  BY <1>4, <1>5, <1>6, <1>7 DEF Orders

LEMMA RanksAreANumbering ==
  ASSUME ScoringLimits, VerdictTypes
  PROVE  {Verdicts!Rank(s) : s \in JudgedSubmissions} = 1 .. Verdicts!Cardinality(JudgedSubmissions)
<1>1. Verdicts!Cardinality(JudgedSubmissions) = Cardinality(JudgedSubmissions)
  BY DEF Verdicts!Cardinality, Cardinality
<1>2. PICK P : P = [s \in JudgedSubmissions |-> Ahead(s)]
  OBVIOUS
<1>3. Orders(P, JudgedSubmissions) /\ IsFiniteSet(JudgedSubmissions)
  BY <1>2, AheadIsAnOrder DEF ScoringLimits
<1>4. /\ \A s \in JudgedSubmissions : 1 + Cardinality(P[s]) \in 1 .. Cardinality(JudgedSubmissions)
      /\ \A i \in 1 .. Cardinality(JudgedSubmissions) :
            \E s \in JudgedSubmissions : i = 1 + Cardinality(P[s])
  BY <1>3, OrderedIsNumbered
<1>5. \A s \in JudgedSubmissions : Verdicts!Rank(s) = 1 + Cardinality(P[s])
  BY <1>2, RankIs
<1> QED  BY <1>1, <1>4, <1>5

LEMMA HigherRanksFirst ==
  ASSUME ScoringLimits, VerdictTypes, NEW s \in JudgedSubmissions, NEW t \in JudgedSubmissions,
         Verdicts!Higher(Verdicts!RankedScore(s), Verdicts!RankedScore(t))
  PROVE  Verdicts!Rank(s) < Verdicts!Rank(t)
<1>1. PICK P : P = [r \in JudgedSubmissions |-> Ahead(r)]
  OBVIOUS
<1>2. Orders(P, JudgedSubmissions) /\ IsFiniteSet(JudgedSubmissions)
  BY <1>1, AheadIsAnOrder DEF ScoringLimits
<1>3. s \in P[t]
  BY <1>1 DEF Ahead
<1>4. /\ Cardinality(P[s]) < Cardinality(P[t])
      /\ Cardinality(P[s]) \in Nat /\ Cardinality(P[t]) \in Nat
  BY <1>2, <1>3, OrderedIsNumbered
<1>5. Verdicts!Rank(s) = 1 + Cardinality(P[s]) /\ Verdicts!Rank(t) = 1 + Cardinality(P[t])
  BY <1>1, RankIs
<1> QED  BY <1>4, <1>5

LEMMA RankingPromise ==
  ASSUME ScoringLimits, VerdictTypes PROVE Verdicts!RankingFollowsScores
<1>1. ASSUME NEW s \in JudgedSubmissions, NEW t \in JudgedSubmissions,
             judgeScores[s] # <<>>, judgeScores[t] # <<>>,
             NEW a, a = Verdicts!NormalizedScore(judgeScores[s]),
             NEW b, b = Verdicts!NormalizedScore(judgeScores[t]),
             a[1] # 0, b[1] # 0, Verdicts!Higher(a, b)
      PROVE  Verdicts!Rank(s) < Verdicts!Rank(t)
  <2>1. Verdicts!RankedScore(s) = a /\ Verdicts!RankedScore(t) = b
    BY <1>1 DEF Verdicts!RankedScore
  <2> QED  BY <1>1, <2>1, HigherRanksFirst
<1> QED  BY <1>1, RanksAreANumbering DEF Verdicts!RankingFollowsScores

-----------------------------------------------------------------------------
(* One judge who differs from all others.                                  *)

\* All but the i-th of n judges gave v, he something else.
Outvoted(xs, n, i, v) ==
    /\ xs \in Seq(Nat) /\ Len(xs) = n /\ n >= 4 /\ DOMAIN xs = 1 .. n /\ n \in Nat
    /\ i \in 1 .. n /\ v \in Nat /\ xs[i] # v
    /\ \A j \in (1 .. n) \ {i} : xs[j] = v

LEMMA SmallestIs ==
  ASSUME NEW xs, NEW x, NEW k
  PROVE  Verdicts!Smallest(xs, x, k)
           <=> Cardinality(Below(xs, x)) < k /\ Cardinality(UpTo(xs, x)) >= k
<1>1. \A S : Verdicts!Cardinality(S) = Cardinality(S)
  BY DEF Verdicts!Cardinality, Cardinality
<1> QED  BY <1>1 DEF Verdicts!Smallest, Below, UpTo

\* The k-th in order is one of the scores, the first the lowest and the last the highest.
LEMMA SomeSmallest ==
  ASSUME NEW xs \in Seq(Nat), NEW k \in 1 .. Len(xs)
  PROVE  /\ Verdicts!Sorted(xs)[k] \in {xs[j] : j \in DOMAIN xs}
         /\ Verdicts!Smallest(xs, Verdicts!Sorted(xs)[k], k)
<1>1. \A x : Verdicts!Smallest(xs, x, k) <=> Measured!Ranked(xs, x, k)
  BY SmallestIs, RankedIs
<1>2. \E x \in {xs[j] : j \in DOMAIN xs} : Verdicts!Smallest(xs, x, k)
  BY <1>1, SomeRanked
<1>3. Verdicts!Sorted(xs)[k] = CHOOSE x \in {xs[j] : j \in DOMAIN xs} : Verdicts!Smallest(xs, x, k)
  <2>1. k \in DOMAIN xs
    OBVIOUS
  <2> QED  BY <2>1 DEF Verdicts!Sorted
<1> QED  BY <1>2, <1>3

LEMMA UpToNumber ==
  ASSUME NEW n \in Nat PROVE IsFiniteSet(1 .. n) /\ Cardinality(1 .. n) = n
BY FS_Interval

LEMMA EndsOfOrder ==
  ASSUME NEW xs \in Seq(Nat), NEW n \in Nat \ {0}, n = Len(xs)
  PROVE  /\ Verdicts!Sorted(xs)[1] \in Nat /\ Verdicts!Sorted(xs)[n] \in Nat
         /\ \A j \in 1 .. n : /\ Verdicts!Sorted(xs)[1] <= xs[j]
                             /\ xs[j] <= Verdicts!Sorted(xs)[n]
<1>1. DOMAIN xs = 1 .. n /\ 1 \in 1 .. Len(xs) /\ n \in 1 .. Len(xs)
  OBVIOUS
<1>2. \A j \in 1 .. n : xs[j] \in Nat
  OBVIOUS
<1>3. PICK a, b : a = Verdicts!Sorted(xs)[1] /\ b = Verdicts!Sorted(xs)[n]
  OBVIOUS
<1>4. a \in Nat /\ b \in Nat
  BY <1>1, <1>2, <1>3, SomeSmallest
<1>5. Verdicts!Smallest(xs, a, 1) /\ Verdicts!Smallest(xs, b, n)
  BY <1>1, <1>3, SomeSmallest
<1>6. Below(xs, a) = {}
  <2>1. Cardinality(Below(xs, a)) < 1
    BY <1>5, SmallestIs
  <2>2. Cardinality(Below(xs, a)) = 0
    BY <2>1, BelowAndUpTo
  <2> QED  BY <2>2, BelowAndUpTo, FS_EmptySet
<1>7. UpTo(xs, b) = 1 .. n
  <2>1. Cardinality(UpTo(xs, b)) >= n
    BY <1>5, SmallestIs
  <2>2. IsFiniteSet(1 .. n) /\ Cardinality(1 .. n) = n
    <3>1. n \in Nat
      OBVIOUS
    <3> QED  BY <3>1, UpToNumber
  <2>3. UpTo(xs, b) \subseteq 1 .. n
    BY <1>1 DEF UpTo
  <2>4. Cardinality(UpTo(xs, b)) <= n /\ (Cardinality(UpTo(xs, b)) = n => UpTo(xs, b) = 1 .. n)
    BY <2>2, <2>3, FS_Subset
  <2>5. Cardinality(UpTo(xs, b)) \in Nat
    BY BelowAndUpTo
  <2> QED  BY <2>1, <2>4, <2>5
<1>8. ASSUME NEW j \in 1 .. n PROVE a <= xs[j] /\ xs[j] <= b
  <2>1. ~(xs[j] < a)
    BY <1>1, <1>6 DEF Below
  <2>2. xs[j] <= b
    BY <1>7 DEF UpTo
  <2> QED  BY <1>2, <1>4, <2>1, <2>2
<1> QED  BY <1>3, <1>4, <1>8

\* Where the quartiles are on both sides of all scores, none is an outlier.
LEMMA NobodyLeftOut ==
  ASSUME NEW xs \in Seq(Nat), NEW n \in Nat \ {0}, n = Len(xs),
         NEW a \in Nat, NEW b \in Nat, a = Verdicts!Q1(xs), b = Verdicts!Q3(xs),
         \A j \in 1 .. n : a <= xs[j] /\ xs[j] <= b
  PROVE  Verdicts!EverybodyCounts(xs)
<1>1. DOMAIN xs = 1 .. n /\ 1 \in 1 .. n /\ \A j \in 1 .. n : xs[j] \in Nat
  OBVIOUS
<1>2. Verdicts!Filtered(xs) = {j \in 1 .. n : /\ 2 * xs[j] >= 2 * a - 3 * (b - a)
                                              /\ 2 * xs[j] <= 2 * b + 3 * (b - a)}
  BY <1>1 DEF Verdicts!Filtered
<1>3. ASSUME NEW j \in 1 .. n
      PROVE  2 * xs[j] >= 2 * a - 3 * (b - a) /\ 2 * xs[j] <= 2 * b + 3 * (b - a)
  <2>1. PICK x : x = xs[j]
    OBVIOUS
  <2>2. x \in Nat /\ a <= x /\ x <= b
    BY <1>1, <2>1
  <2>3. 2 * x >= 2 * a - 3 * (b - a) /\ 2 * x <= 2 * b + 3 * (b - a)
    BY <2>2
  <2> QED  BY <2>1, <2>3
<1>4. Verdicts!Filtered(xs) = DOMAIN xs
  BY <1>1, <1>2, <1>3
<1> QED  BY <1>4 DEF Verdicts!EverybodyCounts, Verdicts!NormalizedScore

\* Up to three scores, the quartiles are the lowest and the highest.
LEMMA FewAllCount ==
  ASSUME NEW xs \in Seq(Nat), Len(xs) <= 3
  PROVE  Verdicts!EverybodyCounts(xs)
<1>1. CASE Len(xs) < 3
  BY <1>1 DEF Verdicts!EverybodyCounts, Verdicts!NormalizedScore
<1>2. CASE Len(xs) = 3
  <2>0. PICK n : n = Len(xs)
    OBVIOUS
  <2>1. PICK a, b : a = Verdicts!Sorted(xs)[1] /\ b = Verdicts!Sorted(xs)[n]
    OBVIOUS
  <2>2. /\ n = 3 /\ n \in Nat \ {0}
        /\ a \in Nat /\ b \in Nat /\ \A j \in 1 .. n : a <= xs[j] /\ xs[j] <= b
    <3>1. n = 3 /\ n \in Nat \ {0}
      BY <1>2, <2>0
    <3> QED  BY <2>0, <2>1, <3>1, EndsOfOrder
  <2>3. 3 \div 4 + 1 = 1 /\ (3 * 3) \div 4 + 1 = 3
    OBVIOUS
  <2>4. Verdicts!Q1(xs) = a /\ Verdicts!Q3(xs) = b
    BY <1>2, <2>0, <2>1, <2>2, <2>3 DEF Verdicts!Q1, Verdicts!Q3
  <2> QED  BY <2>0, <2>2, <2>4, NobodyLeftOut
<1>3. Len(xs) < 3 \/ Len(xs) = 3
  <2>1. Len(xs) \in Nat
    OBVIOUS
  <2>2. Len(xs) <= 3
    OBVIOUS
  <2>3. \A m \in Nat : m <= 3 => m < 3 \/ m = 3
    OBVIOUS
  <2> QED  BY <2>1, <2>2, <2>3
<1> QED  BY <1>1, <1>2, <1>3

LEMMA AllButOne ==
  ASSUME NEW n \in Nat, NEW i \in 1 .. n
  PROVE  IsFiniteSet((1 .. n) \ {i}) /\ Cardinality((1 .. n) \ {i}) = n - 1
<1>1. IsFiniteSet(1 .. n) /\ Cardinality(1 .. n) = n
  BY UpToNumber
<1> QED  BY <1>1, FS_RemoveElement

LEMMA OutvotedPlace ==
  ASSUME NEW xs, NEW n, NEW i, NEW v, Outvoted(xs, n, i, v), NEW k \in 2 .. n - 1
  PROVE  Verdicts!Sorted(xs)[k] = v
<1> DEFINE R == {xs[j] : j \in DOMAIN xs}
           others == (1 .. n) \ {i}
<1>1. /\ xs \in Seq(Nat) /\ Len(xs) = n /\ n >= 4 /\ DOMAIN xs = 1 .. n /\ n \in Nat
      /\ i \in 1 .. n /\ v \in Nat /\ xs[i] # v
      /\ \A j \in others : xs[j] = v
  BY DEF Outvoted
<1>2. IsFiniteSet(others) /\ Cardinality(others) = n - 1 /\ IsFiniteSet({i}) /\ Cardinality({i}) = 1
  BY <1>1, AllButOne, FS_Singleton
<1>3. PICK w : w = xs[i]
  OBVIOUS
<1>4. w \in Nat /\ w # v
  BY <1>1, <1>3
<1>5. \A x : /\ Cardinality(Below(xs, x)) \in Nat /\ Cardinality(UpTo(xs, x)) \in Nat
             /\ IsFiniteSet(Below(xs, x)) /\ IsFiniteSet(UpTo(xs, x))
  BY <1>1, BelowAndUpTo
<1>6. Below(xs, v) \subseteq {i} /\ others \subseteq UpTo(xs, v)
  <2>1. \A j \in 1 .. n : j = i \/ xs[j] = v
    BY <1>1
  <2>2. ~(v < v) /\ v <= v
    BY <1>1
  <2> QED  BY <1>1, <2>1, <2>2 DEF Below, UpTo
<1>7. Cardinality(Below(xs, v)) <= 1 /\ Cardinality(UpTo(xs, v)) >= n - 1
  <2>1. Cardinality(Below(xs, v)) <= 1
    BY <1>2, <1>6, FS_Subset
  <2>2. Cardinality(others) <= Cardinality(UpTo(xs, v))
    BY <1>5, <1>6, FS_Subset
  <2> HIDE DEF others
  <2> QED  BY <1>2, <2>1, <2>2, <1>1, <1>5
<1>8. Verdicts!Smallest(xs, v, k)
  <2>1. Cardinality(Below(xs, v)) < k /\ Cardinality(UpTo(xs, v)) >= k
    BY <1>1, <1>5, <1>7
  <2> QED  BY <2>1, SmallestIs
<1>9. v \in R
  <2>1. PICK j \in 1 .. n : j # i
    <3>1. 1 \in 1 .. n /\ 2 \in 1 .. n
      BY <1>1
    <3> QED  BY <3>1
  <2> QED  BY <1>1, <2>1
<1>10. ~Verdicts!Smallest(xs, w, k)
  <2>1. CASE w < v
    <3>1. UpTo(xs, w) \subseteq {i}
      <4>1. \A j \in 1 .. n : j = i \/ xs[j] = v
        BY <1>1
      <4>2. ~(v <= w)
        BY <1>1, <1>4, <2>1
      <4> QED  BY <1>1, <4>1, <4>2 DEF UpTo
    <3>2. Cardinality(UpTo(xs, w)) <= 1
      BY <1>2, <3>1, FS_Subset
    <3>3. ~(Cardinality(UpTo(xs, w)) >= k)
      BY <1>1, <1>5, <3>2
    <3> QED  BY <3>3, SmallestIs
  <2>2. CASE v < w
    <3>1. others \subseteq Below(xs, w)
      BY <1>1, <2>2 DEF Below
    <3>2. Cardinality(others) <= Cardinality(Below(xs, w))
      BY <1>5, <3>1, FS_Subset
    <3> HIDE DEF others
    <3>3. ~(Cardinality(Below(xs, w)) < k)
      BY <1>1, <1>2, <1>5, <3>2
    <3> QED  BY <3>3, SmallestIs
  <2> QED  BY <1>1, <1>4, <2>1, <2>2
<1>11. ASSUME NEW x \in R, Verdicts!Smallest(xs, x, k) PROVE x = v
  <2>1. PICK j \in 1 .. n : x = xs[j]
    BY <1>1
  <2>2. j # i
    BY <1>3, <1>10, <1>11, <2>1
  <2> QED  BY <1>1, <2>1, <2>2
<1>12. Verdicts!Sorted(xs)[k] = CHOOSE x \in R : Verdicts!Smallest(xs, x, k)
  <2>1. k \in DOMAIN xs
    BY <1>1
  <2> QED  BY <2>1 DEF Verdicts!Sorted
<1> HIDE DEF R
<1> QED  BY <1>8, <1>9, <1>11, <1>12

LEMMA OutvotedMean ==
  ASSUME NEW xs, NEW n, NEW i, NEW v, Outvoted(xs, n, i, v),
         Verdicts!Q1(xs) = v, Verdicts!Q3(xs) = v
  PROVE  Verdicts!NormalizedScore(xs)[1] = v * Verdicts!NormalizedScore(xs)[2]
<1>1. /\ xs \in Seq(Nat) /\ Len(xs) = n /\ n >= 4 /\ DOMAIN xs = 1 .. n /\ n \in Nat
      /\ i \in 1 .. n /\ v \in Nat /\ xs[i] # v
      /\ \A j \in (1 .. n) \ {i} : xs[j] = v
  BY DEF Outvoted
<1>3. Verdicts!Q1(xs) = v /\ Verdicts!Q3(xs) = v
  OBVIOUS
<1>4. PICK S : S = Verdicts!Filtered(xs)
  OBVIOUS
<1>5. S = {j \in 1 .. n : xs[j] = v}
  <2>1. v - v = 0 /\ 2 * v - 3 * 0 = 2 * v /\ 2 * v + 3 * 0 = 2 * v
    BY <1>1
  <2>2. S = {j \in 1 .. n : 2 * xs[j] >= 2 * v /\ 2 * xs[j] <= 2 * v}
    BY <1>1, <1>3, <1>4, <2>1 DEF Verdicts!Filtered
  <2>3. ASSUME NEW j \in 1 .. n PROVE (2 * xs[j] >= 2 * v /\ 2 * xs[j] <= 2 * v) <=> xs[j] = v
    <3>1. PICK x : x = xs[j]
      OBVIOUS
    <3>2. x \in Nat /\ v \in Nat
      BY <1>1, <3>1
    <3>3. (2 * x >= 2 * v /\ 2 * x <= 2 * v) <=> x = v
      BY <3>2
    <3> QED  BY <3>1, <3>3
  <2> QED  BY <2>2, <2>3
<1>6. S # {} /\ S \subseteq DOMAIN xs
  <2>1. PICK j \in 1 .. n : j # i
    <3>1. 1 \in 1 .. n /\ 2 \in 1 .. n
      BY <1>1
    <3> QED  BY <3>1
  <2> QED  BY <1>1, <1>5, <2>1
<1>7. \A j \in S : v <= xs[j] /\ xs[j] <= v
  BY <1>1, <1>5
<1>8. PICK t, c : t = Verdicts!Total(xs, S) /\ c = Cardinality(S)
  OBVIOUS
<1>9. Between(S, t, v, v) /\ c \in Nat
  BY <1>1, <1>6, <1>7, <1>8, TotalIs
<1>10. Verdicts!NormalizedScore(xs) = <<t, c>>
  <2>1. ~(Len(xs) < 3)
    BY <1>1
  <2>2. Verdicts!NormalizedScore(xs) = Verdicts!Mean(xs, S)
    BY <1>4, <1>6, <2>1 DEF Verdicts!NormalizedScore
  <2> QED  BY <1>1, <1>6, <1>8, <2>2, MeanIs
<1>11. PICK p : p = c * v
  OBVIOUS
<1>12. p \in Nat /\ v * c = p
  BY <1>1, <1>9, <1>11, Turned
<1>13. t \in Nat /\ t >= p /\ t <= p
  BY <1>8, <1>9, <1>11 DEF Between
<1> QED  BY <1>10, <1>12, <1>13

\* Of four, the quartiles are the second and the last in order.
LEMMA OutvotedOfFour ==
  ASSUME NEW xs, NEW i, NEW v, Outvoted(xs, 4, i, v)
  PROVE  IF xs[i] < v
         THEN Verdicts!Q1(xs) = v /\ Verdicts!Q3(xs) = v
         ELSE Verdicts!EverybodyCounts(xs)
<1>1. /\ xs \in Seq(Nat) /\ Len(xs) = 4 /\ DOMAIN xs = 1 .. 4
      /\ i \in 1 .. 4 /\ v \in Nat /\ xs[i] # v
      /\ \A j \in (1 .. 4) \ {i} : xs[j] = v
  BY DEF Outvoted
<1>2. 4 \div 4 + 1 = 2 /\ (3 * 4) \div 4 + 1 = 4
  OBVIOUS
<1>3. PICK w, b : w = xs[i] /\ b = Verdicts!Sorted(xs)[4]
  OBVIOUS
<1>4. Verdicts!Q1(xs) = v /\ Verdicts!Q3(xs) = b
  <2>1. Verdicts!Sorted(xs)[2] = v
    BY OutvotedPlace
  <2> QED  BY <1>1, <1>2, <1>3, <2>1 DEF Verdicts!Q1, Verdicts!Q3
<1>5. b \in Nat /\ (\A j \in 1 .. 4 : xs[j] <= b) /\ b \in {xs[j] : j \in DOMAIN xs}
  <2>1. PICK n : n = Len(xs)
    OBVIOUS
  <2>2. n = 4 /\ n \in Nat \ {0} /\ n \in 1 .. Len(xs)
    BY <1>1, <2>1
  <2>3. b = Verdicts!Sorted(xs)[n]
    BY <1>3, <2>2
  <2>4. b \in {xs[j] : j \in DOMAIN xs}
    BY <1>1, <2>2, <2>3, SomeSmallest
  <2>5. b \in Nat /\ \A j \in 1 .. n : xs[j] <= b
    BY <1>1, <2>1, <2>2, <2>3, EndsOfOrder
  <2> QED  BY <2>2, <2>4, <2>5
<1>6. w \in Nat /\ w # v /\ w <= b /\ \A j \in 1 .. 4 : xs[j] = w \/ xs[j] = v
  <2>1. \A j \in 1 .. 4 : j = i \/ xs[j] = v
    BY <1>1
  <2>2. \A j \in 1 .. 4 : xs[j] = w \/ xs[j] = v
    BY <1>3, <2>1
  <2>3. w <= b
    BY <1>1, <1>3, <1>5
  <2>4. w \in Nat
    BY <1>1, <1>3
  <2> QED  BY <1>1, <1>3, <2>2, <2>3, <2>4
<1>7. v <= b
  <2>1. PICK j \in 1 .. 4 : j # i
    <3>1. 1 \in 1 .. 4 /\ 2 \in 1 .. 4
      OBVIOUS
    <3> QED  BY <3>1
  <2> QED  BY <1>1, <1>5, <2>1
<1>8. b = v \/ b = w
  BY <1>1, <1>5, <1>6
<1>9. CASE w < v
  BY <1>3, <1>4, <1>6, <1>7, <1>8, <1>9, <1>1
<1>10. CASE ~(w < v)
  <2>1. \A j \in 1 .. 4 : v <= xs[j] /\ xs[j] <= b
    BY <1>1, <1>5, <1>6, <1>10
  <2>2. PICK n : n = Len(xs)
    OBVIOUS
  <2>3. n = 4 /\ n \in Nat \ {0} /\ \A j \in 1 .. n : v <= xs[j] /\ xs[j] <= b
    BY <1>1, <2>1, <2>2
  <2>4. Verdicts!EverybodyCounts(xs)
    BY <1>1, <1>4, <1>5, <2>2, <2>3, NobodyLeftOut
  <2> QED  BY <1>3, <1>10, <2>4
<1> QED  BY <1>9, <1>10

LEMMA DissenterPromise ==
  ASSUME ScoringLimits, VerdictTypes PROVE Verdicts!DissenterIsOutvoted
<1>1. ASSUME NEW s \in JudgedSubmissions, Len(judgeScores[s]) <= 3
      PROVE  Verdicts!EverybodyCounts(judgeScores[s])
  BY <1>1, JudgesSeq, FewAllCount
<1>2. ASSUME NEW s \in JudgedSubmissions, NEW i \in DOMAIN judgeScores[s],
             NEW xs, xs = judgeScores[s], Verdicts!Dissents(xs, i)
      PROVE  IF Verdicts!LeftOut(xs, i)
             THEN \A j \in DOMAIN xs \ {i} :
                    Verdicts!NormalizedScore(xs)[1] = xs[j] * Verdicts!NormalizedScore(xs)[2]
             ELSE Verdicts!EverybodyCounts(xs)
  <2>1. PICK n : n = Len(xs)
    OBVIOUS
  <2>2. xs \in Seq(Nat)
    BY <1>2, JudgesSeq
  <2>3. n \in Nat /\ DOMAIN xs = 1 .. n /\ i \in 1 .. n
    BY <1>2, <2>1, <2>2
  <2>4. CASE n <= 3
    <3>1. ~(n >= 5) /\ ~(n = 4)
      BY <2>3, <2>4
    <3>2. ~Verdicts!LeftOut(xs, i)
      BY <2>1, <3>1 DEF Verdicts!LeftOut
    <3> QED  BY <2>1, <2>2, <2>4, <3>2, FewAllCount
  <2>5. CASE n >= 4
    <3>1. PICK j0 \in 1 .. n : j0 # i
      <4>1. 1 \in 1 .. n /\ 2 \in 1 .. n
        BY <2>3, <2>5
      <4> QED  BY <4>1
    <3>2. PICK v : v = xs[j0]
      OBVIOUS
    <3>3. v \in Nat /\ xs[i] # v /\ \A j \in (1 .. n) \ {i} : xs[j] = v
      BY <1>2, <2>2, <2>3, <3>1, <3>2 DEF Verdicts!Dissents
    <3>4. Outvoted(xs, n, i, v)
      BY <2>1, <2>2, <2>3, <2>5, <3>3 DEF Outvoted
    <3>5. Verdicts!LeftOut(xs, i) <=> n >= 5 \/ xs[i] < v
      BY <2>1, <2>3, <2>5, <3>1, <3>2, <3>3 DEF Verdicts!LeftOut
    <3>6. CASE n >= 5
      <4>1. n \div 4 + 1 \in 2 .. n - 1 /\ (3 * n) \div 4 + 1 \in 2 .. n - 1
        BY <2>3, <3>6
      <4>2. Verdicts!Q1(xs) = v /\ Verdicts!Q3(xs) = v
        BY <2>1, <3>4, <4>1, OutvotedPlace DEF Verdicts!Q1, Verdicts!Q3
      <4>3. Verdicts!NormalizedScore(xs)[1] = v * Verdicts!NormalizedScore(xs)[2]
        BY <3>4, <4>2, OutvotedMean
      <4> QED  BY <2>3, <3>3, <3>5, <3>6, <4>3
    <3>7. CASE n = 4
      <4>1. CASE xs[i] < v
        <5>1. Verdicts!Q1(xs) = v /\ Verdicts!Q3(xs) = v
          BY <3>4, <3>7, <4>1, OutvotedOfFour
        <5>2. Verdicts!NormalizedScore(xs)[1] = v * Verdicts!NormalizedScore(xs)[2]
          BY <3>4, <5>1, OutvotedMean
        <5> QED  BY <2>3, <3>3, <3>5, <4>1, <5>2
      <4>2. CASE ~(xs[i] < v)
        <5>1. Verdicts!EverybodyCounts(xs)
          BY <3>4, <3>7, <4>2, OutvotedOfFour
        <5>2. ~Verdicts!LeftOut(xs, i)
          BY <3>5, <3>7, <4>2
        <5> QED  BY <5>1, <5>2
      <4> QED  BY <4>1, <4>2
    <3> QED  BY <2>3, <2>5, <3>6, <3>7
  <2> QED  BY <2>3, <2>4, <2>5
<1> QED  BY <1>1, <1>2 DEF Verdicts!DissenterIsOutvoted

LEMMA ScoringInit == ASSUME ScoringLimits, Verdicts!Init PROVE VerdictTypes
<1>1. 0 \in 0 .. MaxScorings /\ <<>> \in Seq(JudgesScores)
  BY DEF ScoringLimits
<1> QED  BY <1>1 DEF Verdicts!Init, VerdictTypes

LEMMA ScoringStep ==
  ASSUME ScoringLimits, VerdictTypes, [Verdicts!Next]_(Verdicts!vars) PROVE VerdictTypes'
<1>1. CASE UNCHANGED Verdicts!vars
  BY <1>1 DEF Verdicts!vars, VerdictTypes
<1>2. ASSUME NEW s \in JudgedSubmissions, NEW i \in 1 .. MaxScorings, NEW x \in JudgesScores,
             Verdicts!Score(s, i, x)
      PROVE  VerdictTypes'
  <2>1. called' \in 0 .. MaxScorings
    BY <1>2 DEF Verdicts!Score, VerdictTypes, ScoringLimits
  <2>2. score' \in [JudgedSubmissions -> JudgesScores \cup {Verdicts!NoScore}]
    BY <1>2 DEF Verdicts!Score, VerdictTypes
  <2>3. PICK xs : xs = judgeScores[s]
    OBVIOUS
  <2>4. xs \in Seq(JudgesScores)
    BY <2>3 DEF VerdictTypes
  <2>5. PICK ys : ys = IF i <= Len(xs) THEN [xs EXCEPT ![i] = x] ELSE Append(xs, x)
    OBVIOUS
  <2>6. ys \in Seq(JudgesScores)
    <3>1. Append(xs, x) \in Seq(JudgesScores)
      BY <2>4
    <3>2. [xs EXCEPT ![i] = x] \in Seq(JudgesScores)
      <4>1. Len(xs) \in Nat /\ xs \in [1 .. Len(xs) -> JudgesScores]
        BY <2>4
      <4>2. [xs EXCEPT ![i] = x] \in [1 .. Len(xs) -> JudgesScores]
        BY <4>1
      <4> QED  BY <4>1, <4>2, IsSeq
    <3> QED  BY <2>5, <3>1, <3>2
  <2>7. judgeScores' = [judgeScores EXCEPT ![s] = ys]
    BY <1>2, <2>3, <2>5 DEF Verdicts!Score
  <2>8. judgeScores' \in [JudgedSubmissions -> Seq(JudgesScores)]
    BY <2>6, <2>7 DEF VerdictTypes
  <2> QED  BY <2>1, <2>2, <2>8 DEF VerdictTypes
<1>3. ASSUME NEW ss, Verdicts!ClearScores(ss) PROVE VerdictTypes'
  <2>1. <<>> \in Seq(JudgesScores)
    OBVIOUS
  <2> QED  BY <1>3, <2>1 DEF Verdicts!ClearScores, VerdictTypes
<1> QED  BY <1>1, <1>2, <1>3 DEF Verdicts!Next

LEMMA ScoringSpec == ASSUME ScoringLimits PROVE Verdicts!Spec => []VerdictTypes
<1>1. Verdicts!Init => VerdictTypes
  BY ScoringInit
<1>2. VerdictTypes /\ [Verdicts!Next]_(Verdicts!vars) => VerdictTypes'
  BY ScoringStep
<1> QED  BY <1>1, <1>2, PTL DEF Verdicts!Spec

-----------------------------------------------------------------------------
(* The readers of the submissions.                                           *)

\* The submissions of ns that have a score.
Scored(ns) == {n \in ns : submissions[n].score # Entries!NoScore}

LEMMA EntriesCount == ASSUME NEW S PROVE Entries!Cardinality(S) = Cardinality(S)
BY DEF Entries!Cardinality, Cardinality

LEMMA EntryIs ==
  ASSUME ReaderLimits, EntryDocs
  PROVE  /\ Len(submissions) \in Nat /\ DOMAIN submissions = 1 .. Len(submissions)
         /\ IsFiniteSet(DOMAIN submissions)
         /\ \A n \in DOMAIN submissions :
              /\ submissions[n].status \in Entries!SubmissionStatus
              /\ submissions[n].score \in Scores \/ submissions[n].score = Entries!NoScore
              /\ submissions[n].score # Entries!NoScore
                   => submissions[n].score \in Scores /\ submissions[n].score \in Nat
         /\ Entries!NoScore \notin Nat
<1>1. PICK E : E = [status : Entries!SubmissionStatus, score : Scores \cup {Entries!NoScore}]
  OBVIOUS
<1>2. submissions \in Seq(E)
  BY <1>1 DEF EntryDocs
<1>3. /\ Len(submissions) \in Nat /\ DOMAIN submissions = 1 .. Len(submissions)
      /\ \A n \in DOMAIN submissions : submissions[n] \in E
  BY <1>2
<1>4. IsFiniteSet(DOMAIN submissions)
  BY <1>3, FS_Interval
<1>5. Entries!NoScore \notin Nat
  BY DEF Entries!NoScore
<1> QED  BY <1>1, <1>3, <1>4, <1>5 DEF ReaderLimits

LEMMA SumOfIs ==
  ASSUME ReaderLimits, EntryDocs, NEW ns, ns \subseteq DOMAIN submissions,
         NEW lo \in Nat, NEW hi \in Nat,
         \A n \in Scored(ns) : lo <= submissions[n].score /\ submissions[n].score <= hi
  PROVE  Between(Scored(ns), Entries!SumOf(ns), lo, hi)
<1>1. PICK n, S : n = Len(submissions) /\ S = Scored(ns)
  OBVIOUS
<1>2. /\ n \in Nat /\ S \subseteq 1 .. n
      /\ \A i \in S : submissions[i].score \in Nat
  BY <1>1, EntryIs DEF Scored
<1>3. PICK a : a = [i \in 1 .. n |-> IF i \in S THEN submissions[i].score ELSE 0]
  OBVIOUS
<1> DEFINE Step(f) == [i \in 0 .. n |-> IF i = 0 THEN 0
                                        ELSE f[i - 1] + (IF i \in S THEN submissions[i].score ELSE 0)]
           f == CHOOSE g : g = Step(g)
<1>4. Entries!SumOf(ns) = f[n]
  BY <1>1 DEF Entries!SumOf, Scored
<1>5. ASSUME NEW g PROVE Step(g) = [i \in 0 .. n |-> IF i = 0 THEN 0 ELSE g[i - 1] + a[i]]
  <2> SUFFICES ASSUME NEW i \in 0 .. n, i # 0
               PROVE  a[i] = IF i \in S THEN submissions[i].score ELSE 0
    OBVIOUS
  <2>1. i \in 1 .. n
    BY <1>2
  <2> QED  BY <1>3, <2>1
<1>6. PICK g : Adding(a, n, g)
  BY <1>2, AddingExists
<1>7. g = Step(g)
  BY <1>5, <1>6 DEF Adding
<1> HIDE DEF Step
<1>8. f = Step(f)
  BY <1>7
<1>9. Adding(a, n, f)
  BY <1>5, <1>8 DEF Adding
<1> HIDE DEF f
<1>10. \A i \in S : a[i] = submissions[i].score /\ a[i] \in Nat
  BY <1>2, <1>3
<1>11. \A i \in (1 .. n) \ S : a[i] = 0
  BY <1>3
<1>12. \A i \in S : a[i] \in Nat /\ lo <= a[i] /\ a[i] <= hi
  BY <1>1, <1>10
<1>13. Between(S, f[n], lo, hi)
  BY <1>2, <1>9, <1>11, <1>12, SumBetween
<1> QED  BY <1>1, <1>4, <1>13

\* What the statistics st of the submissions ns say.
StatisticsOf(st, ns) ==
    /\ st.total = Cardinality(ns) /\ st.scored = Cardinality(Scored(ns))
    /\ st.scored \in Nat /\ st.lowestScore \in Nat /\ st.highestScore \in Nat
    /\ st.sum >= st.scored * st.lowestScore /\ st.sum <= st.scored * st.highestScore
    /\ \A n \in Scored(ns) : /\ submissions[n].score \in Nat
                             /\ st.lowestScore <= submissions[n].score
                             /\ submissions[n].score <= st.highestScore
    /\ Scored(ns) # {} =>
         /\ \E n \in Scored(ns) : submissions[n].score = st.lowestScore
         /\ \E n \in Scored(ns) : submissions[n].score = st.highestScore
    /\ IsFiniteSet(Scored(ns))

LEMMA StatisticsAre ==
  ASSUME ReaderLimits, EntryDocs, NEW ns, ns \subseteq DOMAIN submissions
  PROVE  StatisticsOf(Entries!Statistics(ns), ns)
<1>1. PICK st, S : st = Entries!Statistics(ns) /\ S = Scored(ns)
  OBVIOUS
<1>2. /\ st.total = Cardinality(ns) /\ st.scored = Cardinality(S) /\ st.sum = Entries!SumOf(ns)
      /\ st.highestScore = IF S = {} THEN 0 ELSE Entries!Max(Entries!ScoresOf(ns))
      /\ st.lowestScore = IF S = {} THEN 0 ELSE Entries!Min(Entries!ScoresOf(ns))
  BY <1>1, EntriesCount DEF Entries!Statistics, Scored
<1>3. S \subseteq DOMAIN submissions /\ IsFiniteSet(S) /\ Cardinality(S) \in Nat
  <2>1. S \subseteq DOMAIN submissions
    BY <1>1 DEF Scored
  <2> QED  BY <2>1, EntryIs, FS_Subset, FS_CardinalityType
<1>4. \A n \in S : submissions[n].score \in Nat
  BY <1>1, <1>3, EntryIs DEF Scored
<1>5. PICK R : R = {submissions[n].score : n \in S}
  OBVIOUS
<1>6. Entries!ScoresOf(ns) = R
  BY <1>1, <1>5 DEF Entries!ScoresOf, Scored
<1>7. R \subseteq Nat /\ IsFiniteSet(R) /\ (S # {} => R # {})
  <2>1. PICK f : f = [n \in S |-> submissions[n].score]
    OBVIOUS
  <2>2. R = {f[n] : n \in S}
    BY <1>5, <2>1
  <2>3. IsFiniteSet({f[n] : n \in S})
    BY <1>3, ValuesAreFinite
  <2>4. R \subseteq Nat /\ (S # {} => R # {})
    BY <1>4, <1>5
  <2> QED  BY <2>2, <2>3, <2>4
<1>8. \A n \in S : submissions[n].score \in R
  BY <1>5
<1>9. CASE S = {}
  <2>1. st.lowestScore = 0 /\ st.highestScore = 0 /\ 0 \in Nat
    BY <1>2, <1>9
  <2>2. Between(S, st.sum, 0, 0)
    BY <1>1, <1>2, <1>9, <2>1, SumOfIs
  <2> QED  BY <1>1, <1>2, <1>3, <1>9, <2>1, <2>2 DEF StatisticsOf, Between
<1>10. CASE S # {}
  <2>1. PICK hi \in R : \A x \in R : ~(x > hi)
    BY <1>7, <1>10, GreatestOf
  <2>2. PICK lo \in R : \A x \in R : lo <= x
    BY <1>7, <1>10, LeastNumber
  <2>3. PICK h, l : h = st.highestScore /\ l = st.lowestScore
    OBVIOUS
  <2>4. h \in R /\ \A x \in R : h >= x
    <3>1. h = CHOOSE x \in R : \A y \in R : x >= y
      BY <1>2, <1>6, <1>10, <2>3 DEF Entries!Max
    <3>2. \A x \in R : hi >= x
      BY <1>7, <2>1
    <3> QED  BY <2>1, <3>1, <3>2
  <2>5. l \in R /\ \A x \in R : l <= x
    <3>1. l = CHOOSE x \in R : \A y \in R : x =< y
      BY <1>2, <1>6, <1>10, <2>3 DEF Entries!Min
    <3> QED  BY <2>2, <3>1
  <2>6. l \in Nat /\ h \in Nat
    BY <1>7, <2>4, <2>5
  <2>7. ASSUME NEW n \in S
        PROVE  submissions[n].score \in Nat /\ l <= submissions[n].score /\ submissions[n].score <= h
    <3>1. submissions[n].score \in R /\ submissions[n].score \in Nat
      BY <1>4, <1>8
    <3> QED  BY <2>4, <2>5, <2>6, <3>1
  <2>8. Between(S, st.sum, l, h)
    BY <1>1, <1>2, <2>6, <2>7, SumOfIs
  <2>9. (\E n \in S : submissions[n].score = l) /\ \E n \in S : submissions[n].score = h
    BY <1>5, <2>4, <2>5
  <2> QED  BY <1>1, <1>2, <1>3, <2>3, <2>6, <2>7, <2>8, <2>9 DEF StatisticsOf, Between
<1> QED  BY <1>9, <1>10

LEMMA ApartAddUp ==
  ASSUME NEW S, IsFiniteSet(S), NEW T, IsFiniteSet(T), S \cap T = {}
  PROVE  IsFiniteSet(S \cup T) /\ Cardinality(S \cup T) = Cardinality(S) + Cardinality(T)
<1>1. Cardinality({}) = 0 /\ Cardinality(S) \in Nat /\ Cardinality(T) \in Nat
  BY FS_EmptySet, FS_CardinalityType
<1>2. IsFiniteSet(S \cup T)
  BY FS_Union
<1>3. Cardinality(S \cup T) = Cardinality(S) + Cardinality(T) - Cardinality(S \cap T)
  BY FS_Union
<1>4. Cardinality(S \cap T) = 0
  BY <1>1
<1> QED  BY <1>1, <1>2, <1>3, <1>4

\* Every submission has one status.
LEMMA StatusesAddUp ==
  ASSUME ReaderLimits, EntryDocs
  PROVE  Cardinality(DOMAIN submissions)
           = Entries!countByStatus("submitted") + Entries!countByStatus("accepted")
             + Entries!countByStatus("rejected") + Entries!countByStatus("winner")
<1> DEFINE Of4(x) == {n \in DOMAIN submissions : submissions[n].status = x}
<1>1. \A x : Entries!countByStatus(x) = Cardinality(Of4(x))
  BY EntriesCount DEF Entries!countByStatus, Entries!findByEventAndStatus
<1>2. \A x : IsFiniteSet(Of4(x)) /\ Cardinality(Of4(x)) \in Nat
  <2>1. \A x : Of4(x) \in SUBSET DOMAIN submissions
    OBVIOUS
  <2> HIDE DEF Of4
  <2> QED  BY <2>1, EntryIs, FS_Subset, FS_CardinalityType
<1>3. \A x, y : x # y => Of4(x) \cap Of4(y) = {}
  OBVIOUS
<1>4. DOMAIN submissions = ((Of4("submitted") \cup Of4("accepted")) \cup Of4("rejected")) \cup Of4("winner")
  BY EntryIs DEF Entries!SubmissionStatus
<1> HIDE DEF Of4
<1>5. PICK a, b, c, d : a = Of4("submitted") /\ b = Of4("accepted")
                        /\ c = Of4("rejected") /\ d = Of4("winner")
  OBVIOUS
<1>6. /\ IsFiniteSet(a) /\ IsFiniteSet(b) /\ IsFiniteSet(c) /\ IsFiniteSet(d)
      /\ Cardinality(a) \in Nat /\ Cardinality(b) \in Nat /\ Cardinality(c) \in Nat
      /\ Cardinality(d) \in Nat
  BY <1>2, <1>5
<1>7. a \cap b = {} /\ (a \cup b) \cap c = {} /\ ((a \cup b) \cup c) \cap d = {}
  <2>1. a \cap b = {} /\ a \cap c = {} /\ b \cap c = {}
    BY <1>3, <1>5
  <2>2. a \cap d = {} /\ b \cap d = {} /\ c \cap d = {}
    BY <1>3, <1>5
  <2> QED  BY <2>1, <2>2
<1>9. IsFiniteSet(a \cup b) /\ Cardinality(a \cup b) = Cardinality(a) + Cardinality(b)
  BY <1>6, <1>7, ApartAddUp
<1>10. /\ IsFiniteSet((a \cup b) \cup c)
       /\ Cardinality((a \cup b) \cup c) = Cardinality(a) + Cardinality(b) + Cardinality(c)
  BY <1>6, <1>7, <1>9, ApartAddUp
<1>11. Cardinality(((a \cup b) \cup c) \cup d)
         = Cardinality(a) + Cardinality(b) + Cardinality(c) + Cardinality(d)
  BY <1>6, <1>7, <1>10, ApartAddUp
<1> QED  BY <1>1, <1>4, <1>5, <1>11

\* The submissions with a score that come before n in the list of the best.
Above(n) == {m \in Scored(DOMAIN submissions) : Entries!Better(m, n)}

LEMMA AboveIsAnOrder ==
  ASSUME ReaderLimits, EntryDocs, NEW S, S = Scored(DOMAIN submissions)
  PROVE  Orders([n \in S |-> Above(n)], S)
<1>1. ASSUME NEW n \in S PROVE n \in Nat /\ submissions[n].score \in Nat
  BY EntryIs DEF Scored
<1>2. \A m, n : m \in Above(n)
        <=> /\ m \in S
            /\ \/ submissions[m].score > submissions[n].score
               \/ submissions[m].score = submissions[n].score /\ m < n
  BY DEF Above, Entries!Better
<1>3. \A n \in S : Above(n) \in SUBSET S
  BY <1>2
<1>4. \A n \in S : n \notin Above(n)
  BY <1>1, <1>2
<1>5. ASSUME NEW n \in S, NEW m \in Above(n), NEW l \in Above(m) PROVE l \in Above(n)
  <2>1. PICK x, y, z : x = submissions[l].score /\ y = submissions[m].score /\ z = submissions[n].score
    OBVIOUS
  <2>2. m \in S /\ l \in S
    BY <1>2, <1>5
  <2>3. x \in Nat /\ y \in Nat /\ z \in Nat /\ l \in Nat /\ m \in Nat /\ n \in Nat
    BY <1>1, <2>1, <2>2
  <2>4. (x > y \/ (x = y /\ l < m)) /\ (y > z \/ (y = z /\ m < n))
    BY <1>2, <1>5, <2>1
  <2>5. x > z \/ (x = z /\ l < n)
    BY <2>3, <2>4
  <2> QED  BY <1>2, <2>1, <2>2, <2>5
<1>6. ASSUME NEW m \in S, NEW n \in S, m # n PROVE m \in Above(n) \/ n \in Above(m)
  <2>1. m \in Nat /\ n \in Nat /\ submissions[m].score \in Nat /\ submissions[n].score \in Nat
    BY <1>1
  <2> QED  BY <1>2, <1>6, <2>1
<1> QED  BY <1>3, <1>4, <1>5, <1>6 DEF Orders

TopOf(S) ==
    [i \in 1 .. (IF Entries!Cardinality(S) < topLimit THEN Entries!Cardinality(S) ELSE topLimit) |->
       CHOOSE n \in S : i = 1 + Entries!Cardinality({m \in S : Entries!Better(m, n)})]

\* The list t of the best of S, of which k fit: each has its place in the order P.
BestOf(t, S, P, k) ==
    /\ k \in Nat /\ t \in [1 .. k -> S] /\ Len(t) = k /\ k <= Cardinality(S)
    /\ \A i \in 1 .. k : t[i] \in S /\ i = 1 + Cardinality(P[t[i]])

LEMMA TopIs ==
  ASSUME ReaderLimits, EntryDocs, NEW S, S = Scored(DOMAIN submissions),
         NEW P, P = [n \in S |-> Above(n)]
  PROVE  \E k : BestOf(Entries!getTopSubmissions, S, P, k)
<1>1. Orders(P, S) /\ IsFiniteSet(S)
  <2>1. S \subseteq DOMAIN submissions
    BY DEF Scored
  <2> QED  BY <2>1, AboveIsAnOrder, EntryIs, FS_Subset
<1>2. PICK c : c = Cardinality(S)
  OBVIOUS
<1>3. c \in Nat /\ topLimit \in Nat
  BY <1>1, <1>2, FS_CardinalityType DEF ReaderLimits
<1>4. PICK k : k = IF c < topLimit THEN c ELSE topLimit
  OBVIOUS
<1>5. k \in Nat /\ k <= c
  BY <1>3, <1>4
<1> DEFINE Placed(n, i) == i = 1 + Entries!Cardinality({m \in S : Entries!Better(m, n)})
<1>6. \A n \in S : \A i : Placed(n, i) <=> i = 1 + Cardinality(P[n])
  BY EntriesCount DEF Above
<1>7. PICK t : t = TopOf(S)
  OBVIOUS
<1>8. ASSUME NEW i \in 1 .. k PROVE t[i] \in S /\ i = 1 + Cardinality(P[t[i]])
  <2>1. i \in 1 .. c
    BY <1>3, <1>5, <1>8
  <2>2. \E n \in S : Placed(n, i)
    <3>1. \E n \in S : i = 1 + Cardinality(P[n])
      BY <1>1, <1>2, <2>1, OrderedIsNumbered
    <3> HIDE DEF Placed
    <3> QED  BY <1>6, <3>1
  <2>3. t[i] = CHOOSE n \in S : Placed(n, i)
    BY <1>2, <1>4, <1>7, <1>8, EntriesCount DEF TopOf
  <2> HIDE DEF Placed
  <2> QED  BY <1>6, <2>2, <2>3
<1>9. t \in [1 .. k -> S]
  <2>1. t = [i \in DOMAIN t |-> t[i]]
    <3> DEFINE all == IF Entries!Cardinality(S) < topLimit THEN Entries!Cardinality(S) ELSE topLimit
               Best(i) == CHOOSE n \in S : Placed(n, i)
    <3>1. t = [i \in 1 .. all |-> Best(i)]
      BY <1>7, Zenon DEF TopOf
    <3> HIDE DEF Best, all
    <3> QED  BY <3>1
  <2>2. DOMAIN t = 1 .. k
    BY <1>2, <1>4, <1>7, EntriesCount DEF TopOf
  <2> QED  BY <1>8, <2>1, <2>2
<1>10. Len(t) = k
  BY <1>5, <1>9, IsSeq
<1>11. Entries!getTopSubmissions = t
  <2>1. Entries!getTopSubmissions = TopOf(Scored(DOMAIN submissions))
    BY DEF Entries!getTopSubmissions, TopOf, Scored
  <2> QED  BY <1>7, <2>1
<1>12. BestOf(t, S, P, k)
  <2> HIDE DEF Placed
  <2> QED  BY <1>2, <1>5, <1>8, <1>9, <1>10 DEF BestOf
<1> QED  BY <1>11, <1>12

LEMMA TopIsTheBest ==
  ASSUME ReaderLimits, EntryDocs, NEW t, t = Entries!getTopSubmissions, t # <<>>,
         NEW st, st = Entries!Statistics(DOMAIN submissions)
  PROVE  /\ submissions[t[1]].score = st.highestScore
         /\ \A n \in Entries!filterSubmissions(submissions[t[Len(t)]].score + 1, st.highestScore) :
               \E i \in DOMAIN t : t[i] = n
<1>1. PICK S, P : S = Scored(DOMAIN submissions) /\ P = [n \in S |-> Above(n)]
  OBVIOUS
<1>2. PICK k : BestOf(t, S, P, k)
  BY <1>1, TopIs
<1>3. /\ k \in Nat /\ t \in [1 .. k -> S] /\ DOMAIN t = 1 .. k /\ Len(t) = k /\ k <= Cardinality(S)
      /\ \A i \in 1 .. k : t[i] \in S /\ i = 1 + Cardinality(P[t[i]])
  BY <1>2 DEF BestOf
<1>4. k # 0
  <2>1. SUFFICES ASSUME k = 0 PROVE FALSE
    OBVIOUS
  <2>2. t \in [1 .. 0 -> S]
    BY <1>3, <2>1
  <2>3. t \in Seq(S) /\ Len(t) = 0 /\ <<>> \in Seq(S) /\ Len(<<>>) = 0
    BY <2>2, IsSeq
  <2> QED  BY <2>3, SameSequence
<1>5. 1 \in 1 .. k /\ k \in 1 .. k
  BY <1>3, <1>4
<1>6. Orders(P, S) /\ IsFiniteSet(S) /\ S \subseteq DOMAIN submissions
  <2>1. S \subseteq DOMAIN submissions
    BY <1>1 DEF Scored
  <2> QED  BY <1>1, <2>1, AboveIsAnOrder, EntryIs, FS_Subset
<1>7. /\ \A n \in S : IsFiniteSet(P[n]) /\ Cardinality(P[n]) \in Nat
      /\ \A n \in S : \A m \in P[n] : Cardinality(P[m]) < Cardinality(P[n])
      /\ \A n \in S : 1 + Cardinality(P[n]) \in 1 .. Cardinality(S)
  BY <1>6, OrderedIsNumbered
<1>8. StatisticsOf(st, DOMAIN submissions)
  BY StatisticsAre
<1>9. PICK h : h = st.highestScore
  OBVIOUS
<1>10. /\ h \in Nat /\ \A n \in S : submissions[n].score \in Nat /\ submissions[n].score <= h
       /\ S # {} => \E n \in S : submissions[n].score = h
  BY <1>1, <1>8, <1>9 DEF StatisticsOf
<1>11. submissions[t[1]].score = h
  <2>1. PICK b : b = t[1]
    OBVIOUS
  <2>2. b \in S /\ Cardinality(P[b]) = 0
    <3>1. t[1] \in S /\ 1 = 1 + Cardinality(P[t[1]]) /\ Cardinality(P[t[1]]) \in Nat
      BY <1>3, <1>5, <1>7
    <3> QED  BY <2>1, <3>1
  <2>3. P[b] = {}
    BY <1>7, <2>2, FS_EmptySet
  <2>4. PICK n \in S : submissions[n].score = h
    BY <1>10, <2>2
  <2>5. CASE n = b
    BY <2>1, <2>4, <2>5
  <2>6. CASE n # b
    <3>1. b \in P[n]
      BY <1>6, <2>2, <2>3, <2>6 DEF Orders
    <3>2. Entries!Better(b, n)
      BY <1>1, <3>1 DEF Above
    <3>3. submissions[b].score >= submissions[n].score
      BY <1>10, <2>2, <3>2 DEF Entries!Better
    <3> QED  BY <1>10, <2>1, <2>2, <2>4, <3>3
  <2> QED  BY <2>5, <2>6
<1>12. ASSUME NEW n \in Entries!filterSubmissions(submissions[t[Len(t)]].score + 1, h)
       PROVE  \E i \in DOMAIN t : t[i] = n
  <2>1. PICK l : l = t[k]
    OBVIOUS
  <2>2. l \in S /\ k = 1 + Cardinality(P[l]) /\ submissions[l].score \in Nat
    BY <1>3, <1>5, <1>10, <2>1
  <2>3. /\ n \in DOMAIN submissions /\ submissions[n].score \in Scores
        /\ submissions[n].score >= submissions[l].score + 1
    BY <1>3, <2>1 DEF Entries!filterSubmissions
  <2>4. n \in S /\ submissions[n].score \in Nat
    <3>1. submissions[n].score \in Nat /\ Entries!NoScore \notin Nat
      BY <2>3, EntryIs DEF ReaderLimits
    <3> QED  BY <1>1, <2>3, <3>1 DEF Scored
  <2>5. n \in P[l]
    <3>1. Entries!Better(n, l)
      BY <2>2, <2>3, <2>4 DEF Entries!Better
    <3> QED  BY <1>1, <2>2, <2>4, <3>1 DEF Above
  <2>6. PICK i : i = 1 + Cardinality(P[n])
    OBVIOUS
  <2>7. i \in 1 .. k
    <3>1. Cardinality(P[n]) < Cardinality(P[l]) /\ Cardinality(P[n]) \in Nat /\ Cardinality(P[l]) \in Nat
      BY <1>7, <2>2, <2>4, <2>5
    <3> QED  BY <1>3, <2>2, <2>6, <3>1
  <2>8. PICK m : m = t[i]
    OBVIOUS
  <2>9. m \in S /\ i = 1 + Cardinality(P[m])
    BY <1>3, <2>7, <2>8
  <2>10. Cardinality(P[m]) = Cardinality(P[n])
    BY <1>7, <2>4, <2>6, <2>9
  <2>11. m \notin P[n] /\ n \notin P[m]
    BY <1>7, <2>4, <2>9, <2>10
  <2>12. m = n
    BY <1>6, <2>4, <2>9, <2>11 DEF Orders
  <2> QED  BY <1>3, <2>7, <2>8, <2>12
<1> QED  BY <1>9, <1>11, <1>12

LEMMA ReadersPromise ==
  ASSUME ReaderLimits, EntryDocs PROVE Entries!ReadersAgree
<1>1. PICK D, W : D = DOMAIN submissions /\ W = Entries!getWinners
  OBVIOUS
<1>2. PICK all, won, top : /\ all = Entries!getStatistics /\ won = Entries!getJudgingAnalytics
                           /\ top = Entries!getTopSubmissions
  OBVIOUS
<1>3. all = Entries!Statistics(DOMAIN submissions) /\ won = Entries!Statistics(W)
  BY <1>1, <1>2 DEF Entries!getStatistics, Entries!getJudgingAnalytics
<1>4. W \subseteq DOMAIN submissions
  BY <1>1 DEF Entries!getWinners, Entries!findByEventAndStatus
<1>5. StatisticsOf(all, D) /\ StatisticsOf(won, W)
  BY <1>1, <1>3, <1>4, StatisticsAre
<1>6. all.total = Entries!countByStatus("submitted") + Entries!countByStatus("accepted")
                  + Entries!countByStatus("rejected") + Entries!countByStatus("winner")
  BY <1>1, <1>5, StatusesAddUp DEF StatisticsOf
<1>7. all.sum >= all.scored * all.lowestScore /\ all.sum <= all.scored * all.highestScore
  BY <1>5 DEF StatisticsOf
<1>8. Entries!filterSubmissions(all.lowestScore, all.highestScore)
        = {n \in DOMAIN submissions : submissions[n].score # Entries!NoScore}
  <2>1. ASSUME NEW n \in DOMAIN submissions
        PROVE  (/\ submissions[n].score \in Scores
                /\ submissions[n].score >= all.lowestScore /\ submissions[n].score <= all.highestScore)
               <=> submissions[n].score # Entries!NoScore
    <3>1. CASE submissions[n].score # Entries!NoScore
      <4>1. n \in Scored(D) /\ submissions[n].score \in Scores
        BY <1>1, <3>1, EntryIs DEF Scored
      <4>2. /\ submissions[n].score \in Nat /\ all.lowestScore \in Nat /\ all.highestScore \in Nat
            /\ all.lowestScore <= submissions[n].score /\ submissions[n].score <= all.highestScore
        BY <1>5, <4>1 DEF StatisticsOf
      <4> QED  BY <3>1, <4>1, <4>2
    <3>2. CASE submissions[n].score = Entries!NoScore
      <4>1. submissions[n].score \notin Scores
        BY <3>2, EntryIs DEF ReaderLimits
      <4> QED  BY <3>2, <4>1
    <3> QED  BY <3>1, <3>2
  <2> QED  BY <2>1 DEF Entries!filterSubmissions
<1>9. top # <<>> =>
        /\ submissions[top[1]].score = all.highestScore
        /\ \A n \in Entries!filterSubmissions(submissions[top[Len(top)]].score + 1, all.highestScore) :
              \E i \in DOMAIN top : top[i] = n
  BY <1>2, <1>3, TopIsTheBest
<1>10. Scored(W) \subseteq Scored(D)
  BY <1>1, <1>4 DEF Scored
<1>11. won.scored <= all.scored
  BY <1>5, <1>10, FS_Subset DEF StatisticsOf
<1>12. won.scored > 0 => won.lowestScore >= all.lowestScore /\ won.highestScore <= all.highestScore
  <2>1. SUFFICES ASSUME won.scored > 0
                 PROVE  won.lowestScore >= all.lowestScore /\ won.highestScore <= all.highestScore
    OBVIOUS
  <2>2. Scored(W) # {}
    <3>1. won.scored = Cardinality(Scored(W)) /\ Cardinality({}) = 0
      BY <1>5, FS_EmptySet DEF StatisticsOf
    <3> QED  BY <2>1, <3>1
  <2>3. PICK n \in Scored(W) : submissions[n].score = won.lowestScore
    BY <1>5, <2>2 DEF StatisticsOf
  <2>4. PICK m \in Scored(W) : submissions[m].score = won.highestScore
    BY <1>5, <2>2 DEF StatisticsOf
  <2>5. n \in Scored(D) /\ m \in Scored(D)
    BY <1>10
  <2>6. all.lowestScore <= submissions[n].score /\ submissions[m].score <= all.highestScore
    BY <1>5, <2>5 DEF StatisticsOf
  <2>7. all.lowestScore \in Nat /\ won.lowestScore \in Nat
    BY <1>5 DEF StatisticsOf
  <2> QED  BY <2>3, <2>4, <2>6, <2>7
<1> QED  BY <1>2, <1>6, <1>7, <1>8, <1>9, <1>11, <1>12 DEF Entries!ReadersAgree

-----------------------------------------------------------------------------
\* For any judges, scores and submissions: one judge who differs from four or more has no
\* part in the normalized score, ranks number the submissions and follow the scores, a
\* suspected judge differs from another one (judging.service.ts); and totals, statistics,
\* filters and the list of the best agree (submissions.service.ts).
THEOREM ScoresStayRight ==
  ASSUME ScoringLimits, ReaderLimits
  PROVE  Verdicts!Spec /\ Entries!Spec => []ScoresAreRight
<1>1. VerdictTypes => Verdicts!DissenterIsOutvoted /\ Verdicts!RankingFollowsScores
  BY DissenterPromise, RankingPromise
<1>2. EntriesInv => Entries!ReadersAgree
  BY ReadersPromise DEF EntriesInv
<1>3. VerdictTypes /\ EntriesInv => ScoresAreRight
  BY <1>1, <1>2 DEF ScoresAreRight
<1> QED  BY <1>3, ScoringSpec, EntriesSpec, PTL

\* The judges' scores keep their types, however often judges score again (judging.service.ts).
THEOREM ScoresTypeCorrect == ASSUME ScoringLimits PROVE Verdicts!Spec => []Verdicts!TypeOK
<1>1. VerdictTypes => Verdicts!TypeOK
  BY DEF VerdictTypes, Verdicts!TypeOK
<1> QED  BY <1>1, ScoringSpec, PTL
=============================================================================
