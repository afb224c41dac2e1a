--------------------------- MODULE CircuitBreaker ---------------------------
(***************************************************************************)
(* createCircuitBreaker of common/utils/retry-handler.ts: three variables  *)
(* of a closure that every call of it shares.  Calls overlap, since fn is  *)
(* awaited between the test of isOpen and the count of the outcome.        *)
(***************************************************************************)
EXTENDS Integers, Sequences

CONSTANTS
    threshold, timeout,
    MaxInFlight, MaxLog, MaxTime     \* bounds

VARIABLES
    failures, lastFailureTime, isOpen,
    inFlight,    \* calls that await fn
    log,         \* history: "ok", "fail" and "close", in their order
    now

vars == <<failures, lastFailureTime, isOpen, inFlight, log, now>>

Init ==
    /\ failures = 0 /\ lastFailureTime = 0 /\ isOpen = FALSE
    /\ inFlight = 0 /\ log = <<>> /\ now = 0

-----------------------------------------------------------------------------
Logged(e) == log' = Append(log, e)

\* Mutant: the failures counted before the circuit opened still count.
CloseOnly == isOpen' = FALSE /\ Logged("close") /\ UNCHANGED failures
\* The first call after the timeout; every later one goes through as well.
Close == isOpen' = FALSE /\ failures' = 0 /\ Logged("close")

Begin ==
    /\ inFlight < MaxInFlight /\ inFlight' = inFlight + 1
    /\ Len(log) + inFlight + 2 <= MaxLog
    /\ \/ ~isOpen /\ UNCHANGED <<failures, isOpen, log>>
       \/ isOpen /\ now - lastFailureTime >= timeout /\ Close
    /\ UNCHANGED <<lastFailureTime, now>>

\* A call that began before the circuit opened may still succeed or fail.
Succeed ==
    /\ inFlight > 0 /\ inFlight' = inFlight - 1
    /\ failures' = 0 /\ Logged("ok")
    /\ UNCHANGED <<lastFailureTime, isOpen, now>>
Fail ==
    /\ inFlight > 0 /\ inFlight' = inFlight - 1
    /\ failures' = failures + 1 /\ lastFailureTime' = now
    /\ isOpen' = (isOpen \/ failures' >= threshold)
    /\ Logged("fail") /\ UNCHANGED now

Tick ==
    /\ now < MaxTime /\ now' = now + 1
    /\ UNCHANGED <<failures, lastFailureTime, isOpen, inFlight, log>>

Next == Begin \/ Succeed \/ Fail \/ Tick

Spec == Init /\ [][Next]_vars

-----------------------------------------------------------------------------
TypeOK ==
    /\ failures \in 0 .. MaxLog /\ lastFailureTime \in 0 .. now
    /\ isOpen \in BOOLEAN /\ inFlight \in 0 .. MaxInFlight
    /\ log \in Seq({"ok", "fail", "close"}) /\ now \in 0 .. MaxTime

\* However the calls overlap, the circuit is open exactly when threshold failures
\* came one after the other, with no success between, since it was last closed: a
\* late success does not close it, and failures from before a close do not open it.
OpenAfterRunOfFailures ==
    isOpen <=>
        \E i \in 0 .. Len(log) - threshold :
            /\ \A j \in i + 1 .. i + threshold : log[j] = "fail"
            /\ \A j \in i + 1 .. Len(log) : log[j] # "close"
=============================================================================
