------------------------------ MODULE Webhooks ------------------------------
(***************************************************************************)
(* Webhook delivery, webhooks/services/webhook.service.ts.  One            *)
(* processQueue at a time works on the head of the queue: it awaits the    *)
(* POST, then a short timer.  When every queued delivery waits for its     *)
(* retry the loop turns without an await, and until one is due nothing     *)
(* else of the process runs.                                               *)
(***************************************************************************)
EXTENDS Integers, Sequences, FiniteSets, SequencesExt

CONSTANTS
    Endpoints, maxRetries, retryDelay,
    MaxDeliveries, MaxTime      \* bounds

VARIABLES
    endpoints,      \* id -> active, for the event that is triggered
    deliveries,     \* every delivery made; "known" while the map has it
    deliveryQueue,  \* their numbers
    pc,             \* processQueue: "idle" (not isProcessing), "fetch", "wait" or "spin"
    now

vars == <<endpoints, deliveries, deliveryQueue, pc, now>>

WebhookDelivery ==
    [endpointId : Endpoints, status : {"pending", "success", "failed", "retrying"},
     attempts : 0 .. maxRetries, nextRetryAt : Int, known : BOOLEAN]

Init ==
    /\ endpoints = <<>> /\ deliveries = <<>> /\ deliveryQueue = <<>>
    /\ pc = "idle" /\ now = 0

-----------------------------------------------------------------------------
\* The loop from its head to its next await, on the queue q of the deliveries ds:
\* what is not due goes to the back, without an await in between.
Run(q, ds) ==
    LET due  == {i \in DOMAIN q : ds[q[i]].nextRetryAt <= now}
        i    == CHOOSE j \in due : \A k \in due : j <= k
        next == SubSeq(q, i, Len(q)) \o SubSeq(q, 1, i - 1)
    IN  IF q = <<>> THEN /\ pc' = "idle"
                         /\ deliveryQueue' = q /\ deliveries' = ds
        ELSE IF due = {} THEN /\ pc' = "spin"
                              /\ deliveryQueue' = q /\ deliveries' = ds
        ELSE IF ds[q[i]].endpointId \in DOMAIN endpoints
        THEN /\ pc' = "fetch" /\ deliveryQueue' = next
             /\ deliveries' = [ds EXCEPT ![q[i]].attempts = @ + 1, ![q[i]].status = "retrying"]
        ELSE /\ pc' = "wait" /\ deliveryQueue' = Tail(next)
             /\ deliveries' = ds

\* A push, and processQueue if it is not running.
Enqueue(ids, ds) ==
    IF pc = "idle" THEN Run(deliveryQueue \o ids, ds)
    ELSE /\ deliveryQueue' = deliveryQueue \o ids
         /\ deliveries' = ds /\ pc' = pc

\* createDelivery for each of the endpoints.
CreateDeliveries(es) ==
    LET order == SetToSeq(es)
        new == [i \in DOMAIN order |->
                  [endpointId |-> order[i], status |-> "pending", attempts |-> 0,
                   nextRetryAt |-> 0, known |-> TRUE]]
    IN  /\ Len(deliveries) + Len(new) <= MaxDeliveries
        /\ Enqueue([i \in DOMAIN new |-> Len(deliveries) + i], deliveries \o new)
        /\ UNCHANGED <<endpoints, now>>

trigger ==
    LET subscribed == {e \in DOMAIN endpoints : endpoints[e]}
    IN  subscribed # {} /\ CreateDeliveries(subscribed)
\* testEndpoint sends to an endpoint that is disabled, too.
testEndpoint(e) == e \in DOMAIN endpoints /\ CreateDeliveries({e})

retryDelivery(d) ==
    /\ d \in DOMAIN deliveries /\ deliveries[d].known /\ deliveries[d].status = "failed"
    /\ Enqueue(<<d>>, [deliveries EXCEPT ![d].status = "pending", ![d].attempts = 0,
                                         ![d].nextRetryAt = 0])
    /\ UNCHANGED <<endpoints, now>>

Delivery == Head(deliveryQueue)

\* An answer with an ok status.
fetchOk ==
    /\ pc = "fetch" /\ pc' = "wait"
    /\ deliveries' = [deliveries EXCEPT ![Delivery].status = "success"]
    /\ deliveryQueue' = Tail(deliveryQueue)
    /\ UNCHANGED <<endpoints, now>>

RetryAt(d) == now + retryDelay * 2 ^ (deliveries[d].attempts - 1)

\* handleDeliveryError: no answer, or one that is not ok.  If the endpoint was taken
\* away meanwhile the delivery leaves the queue with the status it has.
handleDeliveryError ==
    /\ pc = "fetch" /\ pc' = "wait"
    /\ \/ /\ deliveries[Delivery].endpointId \notin DOMAIN endpoints
          /\ deliveryQueue' = Tail(deliveryQueue) /\ UNCHANGED deliveries
       \/ /\ deliveries[Delivery].endpointId \in DOMAIN endpoints
          /\ IF deliveries[Delivery].attempts >= maxRetries
             THEN /\ deliveries' = [deliveries EXCEPT ![Delivery].status = "failed"]
                  /\ deliveryQueue' = Tail(deliveryQueue)
             ELSE /\ deliveries' = [deliveries EXCEPT ![Delivery].nextRetryAt = RetryAt(Delivery)]
                  /\ deliveryQueue' = Append(Tail(deliveryQueue), Delivery)
    /\ UNCHANGED <<endpoints, now>>

\* The loop goes on after its pause, or when a retry has become due.
Continue == pc \in {"wait", "spin"} /\ Run(deliveryQueue, deliveries) /\ UNCHANGED <<endpoints, now>>

SetEndpoint(e, active) ==
    /\ endpoints' = [x \in DOMAIN endpoints \cup {e} |-> IF x = e THEN active ELSE endpoints[x]]
    /\ UNCHANGED <<deliveries, deliveryQueue, pc, now>>
registerEndpoint(e) == SetEndpoint(e, TRUE)
\* updateEndpoint, enableEndpoint and disableEndpoint.
updateEndpoint(e, active) == e \in DOMAIN endpoints /\ SetEndpoint(e, active)
unregisterEndpoint(e) ==
    /\ endpoints' = [x \in DOMAIN endpoints \ {e} |-> endpoints[x]]
    /\ UNCHANGED <<deliveries, deliveryQueue, pc, now>>

\* Those old enough, of all that are not pending: the queue keeps them.
clearOldDeliveries(ds) ==
    /\ \A d \in ds : deliveries[d].status # "pending"
    /\ deliveries' = [d \in DOMAIN deliveries |->
                        IF d \in ds THEN [deliveries[d] EXCEPT !.known = FALSE] ELSE deliveries[d]]
    /\ UNCHANGED <<endpoints, deliveryQueue, pc, now>>

Tick == now < MaxTime /\ now' = now + 1 /\ UNCHANGED <<endpoints, deliveries, deliveryQueue, pc>>

Next ==
    \/ Continue \/ Tick
    \/ /\ pc # "spin"
       /\ \/ fetchOk \/ handleDeliveryError \/ trigger
          \/ \E d \in 1 .. MaxDeliveries : retryDelivery(d)
          \/ \E ds \in SUBSET DOMAIN deliveries : clearOldDeliveries(ds)
          \/ \E e \in Endpoints :
                \/ registerEndpoint(e) \/ unregisterEndpoint(e) \/ testEndpoint(e)
                \/ \E active \in BOOLEAN : updateEndpoint(e, active)

Spec == Init /\ [][Next]_vars

-----------------------------------------------------------------------------
TypeOK ==
    /\ DOMAIN endpoints \subseteq Endpoints
    /\ deliveries \in Seq(WebhookDelivery)
    /\ deliveryQueue \in Seq(DOMAIN deliveries)
    /\ pc \in {"idle", "fetch", "wait", "spin"} /\ now \in 0 .. MaxTime

\* Nothing waits in a queue that nobody works on; no delivery is queued twice, so none
\* is sent twice at a time; none that succeeded or failed for good is sent again
\* unless it is retried by hand; and what is being sent is the head of the queue,
\* which is what the end of the POST takes off.
QueueIsServed ==
    /\ deliveryQueue # <<>> => pc # "idle"
    /\ \A i, j \in DOMAIN deliveryQueue : i # j => deliveryQueue[i] # deliveryQueue[j]
    /\ \A i \in DOMAIN deliveryQueue : deliveries[deliveryQueue[i]].status \in {"pending", "retrying"}
    /\ pc = "fetch" => /\ deliveryQueue # <<>>
                       /\ deliveries[Delivery].status = "retrying"
=============================================================================
