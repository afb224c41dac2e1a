---------------------------- MODULE RetryHandler ----------------------------
(***************************************************************************)
(* One call of common/utils/retry-handler.ts: execute, executeWithResult,  *)
(* executeWithJitter or retryOnError; or of the two other retry loops,     *)
(* BaseService.retry and ContractService.withRetry.  Its steps are the     *)
(* promises of fn and of sleep.  Calls share nothing: one is enough.       *)
(***************************************************************************)
EXTENDS Integers

CONSTANTS maxAttempts, initialDelay, maxDelay, backoffMultiplier   \* RetryConfig

VARIABLES
    method,     \* which of the methods was called
    attempt, delay,
    pc,         \* "fn" and "sleep" are awaited; "returned" and "thrown" are its ends
    onRetry,    \* what the callback of executeWithResult was last told
    retryable,  \* history: whether the last error is one to retry
    slept       \* history: the time slept in all

vars == <<method, attempt, delay, pc, onRetry, retryable, slept>>

\* The fifth is BaseService.retry, the last ContractService.withRetry, whose maxAttempts
\* are its retries.
Methods ==
    {"execute", "executeWithResult", "executeWithJitter", "retryOnError", "retry", "withRetry"}

Init ==
    /\ method \in Methods
    /\ attempt = 1 /\ delay = initialDelay /\ pc = "fn"
    /\ onRetry = 0 /\ retryable = TRUE /\ slept = 0

-----------------------------------------------------------------------------
Least(a, b) == IF a < b THEN a ELSE b

fnReturns ==
    /\ pc = "fn" /\ pc' = "returned"
    /\ UNCHANGED <<method, attempt, delay, onRetry, retryable, slept>>

\* initialDelay * 2^n
Doubled(n) ==
    LET delays[i \in 0 .. n] == IF i = 0 THEN initialDelay ELSE 2 * delays[i - 1]
    IN  delays[n]

\* retryOnError and withRetry wait longer by themselves, the others with exponential
\* backoff; that of retry has no cap.
Pause ==
    CASE method \in {"retryOnError", "withRetry"} -> initialDelay * attempt
      [] method = "retry" -> Doubled(attempt - 1)
      [] OTHER -> delay

Sleeps(j) == pc' = "sleep" /\ onRetry' = attempt /\ slept' = slept + Pause + j

Jitter == IF method = "executeWithJitter" THEN 0 .. (3 * delay) \div 10 ELSE {0}

Limit == IF method = "withRetry" THEN maxAttempts + 1 ELSE maxAttempts

\* executeWithJitter, retry and withRetry take every error for one to retry.
fnThrows(again) ==
    /\ pc = "fn"
    /\ retryable' = (again \/ method \in {"executeWithJitter", "retry", "withRetry"})
    /\ \/ /\ ~retryable' \/ attempt >= Limit
          /\ pc' = "thrown" /\ UNCHANGED <<onRetry, slept>>
       \/ /\ retryable' /\ attempt < Limit
          /\ \E j \in Jitter : Sleeps(j)
    /\ UNCHANGED <<method, attempt, delay>>

Wake ==
    /\ pc = "sleep" /\ pc' = "fn"
    /\ attempt' = attempt + 1
    /\ delay' = Least(delay * backoffMultiplier, maxDelay)
    /\ UNCHANGED <<method, onRetry, retryable, slept>>

Next == fnReturns \/ (\E again \in BOOLEAN : fnThrows(again)) \/ Wake

Spec == Init /\ [][Next]_vars

-----------------------------------------------------------------------------
TypeOK ==
    /\ attempt \in 1 .. Limit /\ delay \in Nat /\ slept \in Nat
    /\ pc \in {"fn", "sleep", "returned", "thrown"}
    /\ onRetry \in 0 .. Limit /\ retryable \in BOOLEAN

\* RetryResult.attempts; Limit says after how many the other loops may give up.
attempts == IF pc = "returned" THEN onRetry + 1 ELSE Limit

\* What a caller of executeWithResult is told on success is the number of calls made;
\* on failure it is that number too, unless the error was not one to retry: then fewer
\* calls were made than it says.  No loop gives up on a retryable error early, and what
\* it slept in all is at least what it would with the shortest pause.
AttemptsAddUp ==
    /\ pc = "returned" => attempts = attempt
    /\ pc = "thrown" => attempt <= attempts /\ (retryable => attempt = attempts)
    /\ slept >= onRetry * initialDelay
=============================================================================
