--------------------------- MODULE EventStatuses ---------------------------
(***************************************************************************)
(* The status of one event and its registrations (events/events.service.ts)*)
(* under requests that overlap: each finds the event, and some save it.    *)
(* A save writes the fields that differ from what was found, and fails if  *)
(* the event has gone.                                                     *)
(*                                                                         *)
(* EventStatus has no ACTIVE and no COMPLETED, so what asks for an active  *)
(* event asks for one without a status, which there is not; participants   *)
(* and registrationOpen are not in the schema, and are never stored.       *)
(***************************************************************************)
EXTENDS Integers, FiniteSets

CONSTANTS Calls     \* the requests

VARIABLES
    event,       \* the status in the document; at most one
    calls,       \* [op, step, host, status, found]
    overtaken    \* history: calls since whose find another one has written

vars == <<event, calls, overtaken>>

EventStatus == {"draft", "live", "closed"}
ACTIVE == "undefined"
Ops ==
    {"updateStatus", "closeRegistration", "publishResults", "addParticipant",
     "removeParticipant", "isOpenForSubmissions", "delete"}
OfTheHost == Ops \ {"addParticipant", "isOpenForSubmissions"}

Init ==
    /\ event = {"draft"} /\ overtaken = {}
    /\ calls = [c \in Calls |-> [op |-> "delete", step |-> "new", host |-> FALSE,
                                 status |-> "draft", found |-> "draft"]]

-----------------------------------------------------------------------------
Goto(c, step) == calls' = [calls EXCEPT ![c].step = step]

\* A request of the host, or of somebody else; status is updateStatus's.
Request(c, op, host, status) ==
    /\ calls[c].step = "new"
    /\ calls' = [calls EXCEPT ![c] = [op |-> op, step |-> "findById", host |-> host,
                                      status |-> status, found |-> status]]
    /\ UNCHANGED <<event, overtaken>>

\* What each does with the event it has found: removeParticipant finds no participant and
\* returns the event, the others are refused, answered, or go on to their await.
updateStatus == "save"
closeRegistration == "save"
publishResults(status) == IF status # ACTIVE THEN "refused" ELSE "save"
addParticipant(status) == IF status # ACTIVE THEN "refused" ELSE "save"
removeParticipant == "done"
isOpenForSubmissions(status) == IF status = ACTIVE THEN "open" ELSE "done"
delete == "deleteOne"

AfterFind(c, status) ==
    CASE calls[c].op \in OfTheHost /\ ~calls[c].host -> "refused"
      [] calls[c].op = "updateStatus" -> updateStatus
      [] calls[c].op = "closeRegistration" -> closeRegistration
      [] calls[c].op = "publishResults" -> publishResults(status)
      [] calls[c].op = "addParticipant" -> addParticipant(status)
      [] calls[c].op = "removeParticipant" -> removeParticipant
      [] calls[c].op = "isOpenForSubmissions" -> isOpenForSubmissions(status)
      [] calls[c].op = "delete" -> delete

findById(c) ==
    /\ calls[c].step = "findById"
    /\ \/ event = {} /\ Goto(c, "notFound")
       \/ \E status \in event :
            calls' = [calls EXCEPT ![c].step = AfterFind(c, status), ![c].found = status]
    /\ UNCHANGED <<event, overtaken>>

Write(c, new) ==
    /\ event' = new
    /\ overtaken' = overtaken \cup {d \in Calls \ {c} : calls[d].step \notin {"new", "findById"}}

\* closeRegistration has changed nothing that is stored.
save(c) ==
    /\ calls[c].step = "save"
    /\ \/ event = {} /\ Goto(c, "failed") /\ UNCHANGED <<event, overtaken>>
       \/ /\ event # {} /\ Goto(c, "done")
          /\ IF calls[c].op = "updateStatus" /\ calls[c].status # calls[c].found
             THEN Write(c, {calls[c].status}) ELSE UNCHANGED <<event, overtaken>>

deleteOne(c) == calls[c].step = "deleteOne" /\ Goto(c, "done") /\ Write(c, {})

Next ==
    \E c \in Calls :
        \/ \E op \in Ops, host \in BOOLEAN, status \in EventStatus : Request(c, op, host, status)
        \/ findById(c) \/ save(c) \/ deleteOne(c)

Spec == Init /\ [][Next]_vars

-----------------------------------------------------------------------------
TypeOK ==
    /\ event \subseteq EventStatus /\ Cardinality(event) <= 1 /\ overtaken \subseteq Calls
    /\ \A c \in Calls :
         /\ calls[c].op \in Ops /\ calls[c].status \in EventStatus /\ calls[c].found \in EventStatus
         /\ calls[c].step \in {"new", "findById", "notFound", "refused", "save", "deleteOne",
                               "failed", "done"}

\* Once a host's request has ended well the event is as it asked, unless another request
\* has written since it read the event: also when it saved nothing, having found the
\* status it asks for.  A deleted event stays deleted, nobody is ever registered, no
\* results are published, and no event is open for submissions.
StatusIsAsAsked ==
    /\ \A c \in Calls : calls[c].step = "done" =>
         /\ calls[c].op = "updateStatus" /\ c \notin overtaken => event = {calls[c].status}
         /\ calls[c].op = "delete" => event = {}
         /\ calls[c].op \notin {"publishResults", "addParticipant"}
    /\ \A c \in Calls : calls[c].step # "open"
=============================================================================
