------------------------------ MODULE Sponsors ------------------------------
(***************************************************************************)
(* One sponsor's document and the concurrent requests of                   *)
(* sponsors/services/sponsors.service.ts on it.  Each loads the document,  *)
(* changes its copy and saves: a push is sent as $push, which counts the   *)
(* document's version on; a replaced array is sent as $set on condition    *)
(* that the version is still the one loaded, and a save that does not find *)
(* its document rejects.                                                   *)
(***************************************************************************)
EXTENDS Integers, Sequences, FiniteSets

CONSTANTS Events, MaxRequests       \* MaxRequests is a bound

VARIABLES
    doc,          \* the stored sponsor, [exists, eventIds, version]
    requests,     \* requests between load and save, with the copy they loaded
    asked,        \* requests so far
    promised      \* history: events whose addition was confirmed and whose removal was not

vars == <<doc, requests, asked, promised>>

Listed(s) == {s[i] : i \in DOMAIN s}
Absent == [exists |-> FALSE, eventIds |-> <<>>, version |-> 0]

Init == doc = Absent /\ requests = {} /\ asked = 0 /\ promised = {}

-----------------------------------------------------------------------------
\* createSponsor, with the events of its DTO.
CreateSponsor(events) ==
    /\ asked = 0 /\ asked' = 1
    /\ doc' = [exists |-> TRUE, eventIds |-> events, version |-> 0]
    /\ promised' = Listed(events)
    /\ UNCHANGED requests

\* findById of a request; without the document it answers 404.
Load(kind, e) ==
    /\ doc.exists /\ asked < MaxRequests /\ asked' = asked + 1
    /\ requests' = requests \cup {[no |-> asked', kind |-> kind, event |-> e, copy |-> doc]}
    /\ UNCHANGED <<doc, promised>>

Done(r) == requests' = requests \ {r} /\ UNCHANGED asked
Rejected == UNCHANGED <<doc, promised>>

\* addEventToSponsor: an event its copy has already is not saved again.
AddEvent(r) ==
    /\ r.kind = "add" /\ Done(r)
    /\ IF r.event \in Listed(r.copy.eventIds) \/ ~doc.exists THEN Rejected
       ELSE /\ doc' = [doc EXCEPT !.eventIds = Append(@, r.event), !.version = @ + 1]
            /\ promised' = promised \cup {r.event}

\* ids.filter((id) => id !== e).
Without(ids, e) ==
    LET kept[i \in 0 .. Len(ids)] ==
          IF i = 0 THEN <<>>
          ELSE IF ids[i] = e THEN kept[i - 1] ELSE Append(kept[i - 1], ids[i])
    IN  kept[Len(ids)]

\* Mutant: the array is saved whatever the version is.
SavedBlindly(r) ==
    LET kept == Without(r.copy.eventIds, r.event)
    IN  /\ doc' = [doc EXCEPT !.eventIds = kept, !.version = @ + 1]
        /\ promised' = promised \ {r.event}
\* The save of removeEventFromSponsor; an array that was not changed is not sent.
Saved(r) ==
    LET kept == Without(r.copy.eventIds, r.event)
    IN  IF kept = r.copy.eventIds THEN Rejected
        ELSE IF doc.version # r.copy.version THEN Rejected
        ELSE /\ doc' = [doc EXCEPT !.eventIds = kept, !.version = @ + 1]
             /\ promised' = promised \ {r.event}
RemoveEvent(r) ==
    r.kind = "remove" /\ Done(r) /\ IF doc.exists THEN Saved(r) ELSE Rejected

\* updateSponsor: its DTO has no eventIds, so only other fields are sent.
UpdateSponsor(r) == r.kind = "update" /\ Done(r) /\ Rejected

DeleteSponsor ==
    /\ doc.exists /\ doc' = Absent /\ promised' = {}
    /\ UNCHANGED <<requests, asked>>

Next ==
    \/ \E events \in {<<>>} \cup {<<e>> : e \in Events} : CreateSponsor(events)
    \/ \E e \in Events, kind \in {"add", "remove", "update"} : Load(kind, e)
    \/ \E r \in requests : AddEvent(r) \/ RemoveEvent(r) \/ UpdateSponsor(r)
    \/ DeleteSponsor

Spec == Init /\ [][Next]_vars

-----------------------------------------------------------------------------
TypeOK ==
    /\ doc \in [exists : BOOLEAN, eventIds : Seq(Events), version : 0 .. MaxRequests]
    /\ requests \subseteq [no : 1 .. MaxRequests, kind : {"add", "remove", "update"},
                           event : Events, copy : [exists : BOOLEAN, eventIds : Seq(Events),
                                                   version : 0 .. MaxRequests]]
    /\ asked \in 0 .. MaxRequests /\ promised \subseteq Events

\* Requests work on copies that may be old, but an event whose addition to the sponsor
\* was confirmed stays there until its own removal is: no request for another event, and
\* no other update of the sponsor, takes it away.
AddedEventStays == promised \subseteq Listed(doc.eventIds)

=============================================================================
