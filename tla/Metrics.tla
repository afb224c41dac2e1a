------------------------------- MODULE Metrics -------------------------------
(***************************************************************************)
(* common/services/metrics.service.ts, for one name: its counter, gauge,   *)
(* histogram and timings.  A failed call is timed under a key of its own,  *)
(* the one with the tag error:true.  Calls of time overlap, and a reset    *)
(* may come while they are under way.                                      *)
(***************************************************************************)
EXTENDS Integers, Sequences, FiniteSets

CONSTANTS
    keep,                          \* the last 1000 values
    Calls, MaxValues, MaxTime      \* calls of time at once; bounds

VARIABLES
    counter, gauge,    \* at most one each
    values,            \* by key: histograms, timings
    calls,             \* calls of time: when each began, at most one
    recorded,          \* history: by key, all that was recorded since the last reset
    now

vars == <<counter, gauge, values, calls, recorded, now>>

Timings == {"timing", "timing error"}
Keys == {"histogram"} \cup Timings

Init ==
    /\ counter = {} /\ gauge = {}
    /\ values = [k \in Keys |-> <<>>] /\ recorded = [k \in Keys |-> <<>>]
    /\ calls = [c \in Calls |-> {}] /\ now = 0

-----------------------------------------------------------------------------
getCounter == IF counter = {} THEN 0 ELSE CHOOSE n \in 0 .. 1 : counter = {n}

\* incrementCounter, decrementCounter
incrementCounter(n) ==
    /\ getCounter + n \in 0 .. 1 /\ counter' = {getCounter + n}
    /\ UNCHANGED <<gauge, values, calls, recorded, now>>

setGauge(v) == gauge' = {v} /\ UNCHANGED <<counter, values, calls, recorded, now>>

\* Pushed, and the first one shifted out when there are too many.
Record(k, v) ==
    /\ values' = [values EXCEPT ![k] = IF Len(@) < keep THEN Append(@, v) ELSE Append(Tail(@), v)]
    /\ Len(recorded[k]) < MaxValues
    /\ recorded' = [recorded EXCEPT ![k] = Append(@, v)]

recordHistogram(v) == Record("histogram", v) /\ UNCHANGED <<counter, gauge, calls, now>>

recordTiming(d) == Record("timing", d) /\ UNCHANGED <<counter, gauge, calls, now>>

time(c) ==
    /\ calls[c] = {} /\ calls' = [calls EXCEPT ![c] = {now}]
    /\ UNCHANGED <<counter, gauge, values, recorded, now>>

\* The function is fulfilled or rejected; timeSync does all of it in one step.
Timed(c, k) ==
    /\ \E start \in calls[c] : Record(k, now - start)
    /\ calls' = [calls EXCEPT ![c] = {}]
    /\ UNCHANGED <<counter, gauge, now>>

timeSync(k) == Record(k, 0) /\ UNCHANGED <<counter, gauge, calls, now>>

\* reset; resetMetric, which leaves the timings of failures, whose key has another tag.
Reset(keys) ==
    /\ counter' = {} /\ gauge' = {}
    /\ values' = [k \in Keys |-> IF k \in keys THEN <<>> ELSE values[k]]
    /\ recorded' = [k \in Keys |-> IF k \in keys THEN <<>> ELSE recorded[k]]
    /\ UNCHANGED <<calls, now>>

Tick == now < MaxTime /\ now' = now + 1 /\ UNCHANGED <<counter, gauge, values, calls, recorded>>

Next ==
    \/ \E n \in {-1, 1} : incrementCounter(n)
    \/ setGauge(1) \/ \E v \in 0 .. 1 : recordHistogram(v)
    \/ \E d \in 0 .. 1 : recordTiming(d)
    \/ \E k \in Timings : timeSync(k) \/ \E c \in Calls : Timed(c, k)
    \/ \E c \in Calls : time(c)
    \/ \E keys \in {Keys, Keys \ {"timing error"}} : Reset(keys)
    \/ Tick

Spec == Init /\ [][Next]_vars

-----------------------------------------------------------------------------
\* calculateHistogramStats: what the getters return of a list that is not empty.
Ranked(vs, v, i) ==
    /\ Cardinality({j \in DOMAIN vs : vs[j] < v}) < i
    /\ Cardinality({j \in DOMAIN vs : vs[j] <= v}) >= i
Sorted(vs) == [i \in DOMAIN vs |-> CHOOSE v \in {vs[j] : j \in DOMAIN vs} : Ranked(vs, v, i)]
Percentile(vs, p) == Sorted(vs)[(Len(vs) * p) \div 100 + 1]

TypeOK ==
    /\ counter \subseteq 0 .. 1 /\ gauge \subseteq {1}
    /\ \A k \in Keys : Len(values[k]) <= keep /\ values[k] \in Seq(0 .. MaxTime)
    /\ \A c \in Calls : calls[c] \subseteq 0 .. now

\* The lists hold the last values recorded since the reset, also of the calls that a reset
\* found under way, and their statistics are of values that are there, in order.
StatsAreOfTheLast ==
    \A k \in Keys :
        LET vs == values[k]
            n == Len(recorded[k])
        IN  /\ vs = SubSeq(recorded[k], (IF n > keep THEN n - keep ELSE 0) + 1, n)
            /\ vs # <<>> =>
                 /\ Sorted(vs)[1] <= Percentile(vs, 50) /\ Percentile(vs, 50) <= Percentile(vs, 95)
                 /\ Percentile(vs, 95) <= Percentile(vs, 99)
                 /\ Percentile(vs, 99) <= Sorted(vs)[Len(vs)]
=============================================================================
