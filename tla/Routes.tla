------------------------------- MODULE Routes -------------------------------
(***************************************************************************)
(* From a request to its answer: which handler the application gives it    *)
(* to, what the guards and the validation pipe let through, what the       *)
(* handler finds when it comes to the database, and the status it is       *)
(* answered with.  A controller is a table of routes in the order of their *)
(* declaration, in which they are tried.                                   *)
(*                                                                         *)
(* There are one event, the users, and the escrow's wallet.  They change   *)
(* while the request waits for the database.                               *)
(***************************************************************************)
EXTENDS Integers, Sequences, SequencesExt, FiniteSetsExt

CONSTANTS
    Accounts, Host,     \* addresses, and event.host
    MaxChanges          \* a bound

VARIABLES
    users,          \* the role in each user's document, "none" without a document
    exists, judges, \* the event's document, and event.judges
    wallet,         \* the escrow's WalletConfig: "none", "active" or "inactive"
    configured,     \* whether WalletConnect has a client
    request,        \* [asked, route, caller, id, valid, judge, step, isJudge, fresh, status]
    held,           \* history: the roles the caller has had since the request came
    wasJudge,       \* history: whether the caller was a judge at some time since then
    undisturbed,    \* history: the event's document has been the same since then
    changes         \* for the bound

documents == <<users, exists, judges, wallet, configured>>
history == <<held, wasJudge, undisturbed, changes>>
vars == <<documents, request, history>>

UserRole == {"participant", "judge", "host"}
Nobody == "nobody"      \* no token, or one that does not verify
Ids == {"event", "unknown", "malformed"}

-----------------------------------------------------------------------------
(* The controllers.  A route has its method and path, the roles its guards   *)
(* ask for, the status of its success, and what its handler needs.           *)

Public == {}                    \* no guard
SignedIn == UserRole            \* JwtAuthGuard alone
ForHost == {"host"}             \* JwtAuthGuard, RolesGuard and @Roles
ForHostOrJudge == {"host", "judge"}

Param == {":id", ":eventId", ":submissionId", ":userAddress", ":participantAddress",
          ":topic", ":address", ":jobId"}

R(method, path, guard, ok, needs) ==
    [method |-> method, path |-> path, guard |-> guard, ok |-> ok, needs |-> needs]

HealthRoutes == <<R("GET", <<"health">>, Public, 200, "memory")>>

SignInRoutes == <<
    R("GET", <<"auth", "nonce">>, Public, 200, "valid"),
    R("POST", <<"auth", "login">>, Public, 200, "signature")>>

SessionReads == <<
    R("GET", <<"auth", "walletconnect", "status">>, Public, 200, "memory"),
    R("GET", <<"auth", "walletconnect", "sessions">>, Public, 200, "client"),
    R("GET", <<"auth", "walletconnect", "sessions", ":topic">>, Public, 200, "session"),
    R("GET", <<"auth", "walletconnect", "sessions", "address", ":address">>, Public, 200, "verify")>>

SessionRoutes == <<
    R("DELETE", <<"auth", "walletconnect", "sessions", ":topic">>, Public, 200, "session"),
    R("POST", <<"auth", "walletconnect", "sessions", ":topic", "ping">>, Public, 200, "session"),
    R("POST", <<"auth", "walletconnect", "sessions", "verify">>, Public, 200, "verify"),
    R("GET", <<"auth", "walletconnect", "stats">>, Public, 200, "client"),
    R("POST", <<"auth", "walletconnect", "sessions", "cleanup">>, Public, 200, "client")>>

UserRoutes == <<R("GET", <<"users", "me">>, SignedIn, 200, "profile")>>

EventRoutes == <<
    R("POST", <<"events">>, ForHost, 201, "valid"),
    R("GET", <<"events">>, Public, 200, "valid"),
    R("GET", <<"events", ":id">>, Public, 200, "event"),
    R("POST", <<"events", ":id", "judges", "invite">>, ForHost, 201, "invite")>>

JudgeRoutes == <<
    R("DELETE", <<"events", ":id", "judges">>, ForHost, 200, "remove"),
    R("GET", <<"events", ":id", "judges">>, Public, 200, "event"),
    R("PUT", <<"events", ":id">>, ForHost, 200, "update"),
    R("DELETE", <<"events", ":id">>, ForHost, 204, "delete")>>

EventListRoutes == <<
    R("GET", <<"events", ":id", "statistics">>, Public, 200, "event"),
    R("GET", <<"events", "filter", "upcoming">>, Public, 200, "query"),
    R("GET", <<"events", "filter", "past">>, Public, 200, "query"),
    R("GET", <<"events", "user", ":userAddress">>, Public, 200, "query"),
    R("POST", <<"events", ":id", "participants">>, SignedIn, 201, "active"),
    R("DELETE", <<"events", ":id", "participants", ":participantAddress">>, ForHost, 200, "own"),
    R("GET", <<"events", ":id", "participants">>, Public, 200, "event")>>

EventStatusRoutes == <<
    R("PATCH", <<"events", ":id", "status">>, ForHost, 200, "status"),
    R("POST", <<"events", ":id", "publish-results">>, ForHost, 201, "publish"),
    R("POST", <<"events", ":id", "close-registration">>, ForHost, 201, "close"),
    R("GET", <<"events", "search">>, Public, 200, "query")>>

SubmissionRoutes == <<
    R("POST", <<"events", ":eventId", "submissions">>, SignedIn, 201, "projectTitle"),
    R("GET", <<"events", ":eventId", "submissions">>, Public, 200, "event")>>

JudgingRoutes == <<
    R("POST", <<"events", ":eventId", "submissions", ":submissionId", "score">>, SignedIn, 201,
      "judge")>>

JobRoutes == <<
    R("POST", <<"events", ":eventId", "payout">>, ForHost, 201, "winners"),
    R("POST", <<"jobs", "process-payouts">>, ForHost, 201, "query"),
    R("GET", <<"jobs", ":jobId">>, SignedIn, 200, "job")>>

WalletRoutes == <<
    R("GET", <<"wallet", "escrow", "address">>, Public, 200, "address"),
    R("GET", <<"wallet", "escrow", "balance">>, ForHostOrJudge, 200, "balance"),
    R("POST", <<"wallet", "deposit", "record">>, ForHost, 201, "deposit"),
    R("POST", <<"wallet", "payout", "execute">>, ForHost, 201, "funds"),
    R("GET", <<"wallet", "transactions">>, ForHostOrJudge, 200, "ObjectId"),
    R("GET", <<"wallet", "events", ":eventId", "deposits">>, SignedIn, 200, "ObjectId")>>

\* No path of one controller fits one of another.
Table ==
    HealthRoutes \o SignInRoutes \o SessionReads \o SessionRoutes \o UserRoutes \o EventRoutes
    \o JudgeRoutes \o EventListRoutes \o EventStatusRoutes \o SubmissionRoutes
    \o JudgingRoutes \o JobRoutes \o WalletRoutes

\* What depends on the event that is named, what edits it, and what its input may be wrong
\* for; Piped are those whose input the validation pipe, or the handler, refuses first.
Edits == {"invite", "remove", "update", "status", "close", "delete"}
Own == Edits \cup {"own", "publish", "winners"}
OfEvent == Own \cup {"event", "active", "judge", "deposit", "funds", "ObjectId"}
Piped == {"valid", "signature", "verify", "invite", "remove", "update", "judge", "deposit", "funds"}
Checked == Piped \cup {"status", "winners"}
Local == {"memory", "client", "verify", "session"}      \* no query

\* The path of route r, with values for its parameters, fits that of route q.
Fits(r, q) ==
    /\ q.method = r.method /\ Len(q.path) = Len(r.path)
    /\ \A i \in DOMAIN q.path : q.path[i] \in Param \cup {r.path[i]}
Served(r) == Table[Min({n \in DOMAIN Table : Fits(r, Table[n])})]

-----------------------------------------------------------------------------
\* HttpExceptionFilter: an HttpException has its status, any other error none.
HttpException ==
    [BadRequest |-> 400, Unauthorized |-> 401, Forbidden |-> 403, NotFound |-> 404]
catch(e) == IF e \in DOMAIN HttpException THEN HttpException[e] ELSE 500

Needs == request.route.needs
At(step, needs) == request.step = step /\ Needs \in needs
Goto(step) == request' = [request EXCEPT !.step = step]
Answered(r, status) == [r EXCEPT !.step = "answered", !.status = status]
Succeed == request' = Answered(request, request.route.ok)
Throw(e) == request' = Answered(request, catch(e))

Request(asked, route, caller, id, valid, judge) ==
    [asked |-> asked, route |-> route, caller |-> caller, id |-> id, valid |-> valid,
     judge |-> judge, step |-> "none", isJudge |-> FALSE, fresh |-> TRUE, status |-> 0]
NoRequest == Request(Table[1], Table[1], Nobody, "event", TRUE, Host)

Init ==
    /\ users \in [Accounts -> UserRole \cup {"none"}]
    /\ exists = TRUE /\ judges \in SUBSET Accounts
    /\ wallet \in {"none", "active", "inactive"} /\ configured \in BOOLEAN
    /\ request = NoRequest
    /\ held = {} /\ wasJudge = FALSE /\ undisturbed = TRUE /\ changes = 0

-----------------------------------------------------------------------------
(* On the way to the handler.                                                *)

\* The validation pipe, which comes after the guards.
PastPipe(r) ==
    IF ~r.valid /\ r.route.needs \in Piped THEN Answered(r, catch("BadRequest"))
    ELSE [r EXCEPT !.step = "handler"]

\* A request for a route; judge is an address in its body.  An id that is really a word of
\* the path is no ObjectId.
Ask(asked, caller, id, valid, judge) ==
    /\ request.step = "none"
    /\ asked.needs \notin OfEvent => id = "event"
    /\ asked.needs \notin Checked => valid
    /\ asked.needs \notin {"invite", "remove", "update"} => judge = Host
    /\ LET route == Served(asked)
           r == Request(asked, route, caller, IF route = asked THEN id ELSE "malformed",
                        valid, judge)
       IN request' = IF route.guard = Public THEN PastPipe(r)
                     ELSE IF caller = Nobody THEN Answered(r, catch("Unauthorized"))
                     ELSE [r EXCEPT !.step = "validate"]
    /\ held' = IF caller = Nobody THEN {} ELSE {users[caller]}
    /\ wasJudge' = (caller \in judges)
    /\ UNCHANGED <<documents, undisturbed, changes>>

\* JwtStrategy asks for the user, whose role RolesGuard compares.
Validate ==
    /\ request.step = "validate"
    /\ LET role == users[request.caller]
       IN request' = IF role = "none" THEN Answered(request, catch("Unauthorized"))
                     ELSE IF role \notin request.route.guard
                          THEN Answered(request, catch("Forbidden"))
                     ELSE PastPipe(request)
    /\ UNCHANGED <<documents, history>>

-----------------------------------------------------------------------------
(* Handlers, up to the next await each.                                      *)

Unwritten == UNCHANGED <<documents, history>>

\* EventsService.findById, and what follows it.
findById(next) ==
    IF request.id = "malformed" THEN Throw("CastError")
    ELSE IF request.id = "unknown" \/ ~exists THEN Throw("NotFound")
    ELSE next

\* Nothing the request names can be missing.
ServeAlways == At("handler", {"memory", "query", "valid"}) /\ Succeed /\ Unwritten

login == At("handler", {"signature"}) /\ (Succeed \/ Throw("Unauthorized")) /\ Unwritten

\* Of WalletConnect; a session is there, and answers, or not.
ServeSessions ==
    /\ At("handler", {"client", "verify", "session"})
    /\ IF ~configured THEN Throw("BadRequest")
       ELSE Succeed \/ (Needs = "session" /\ Throw("NotFound"))
    /\ Unwritten

getProfile ==
    /\ At("handler", {"profile"})
    /\ IF users[request.caller] = "none" THEN Throw("NotFound") ELSE Succeed
    /\ Unwritten

ServeEvent == At("handler", {"event"}) /\ findById(Succeed) /\ Unwritten

\* EventStatus has no ACTIVE, which no status equals.
addParticipant == At("handler", {"active"}) /\ findById(Throw("Forbidden")) /\ Unwritten

\* An edit by the host that changes nothing is not saved; nor is the list of participants,
\* which the schema does not have.
IsIdle ==
    \/ Needs = "own"
    \/ Needs = "invite" /\ request.judge \in judges
    \/ Needs = "remove" /\ request.judge \notin judges
ServeOwn ==
    /\ At("handler", Own \ {"winners"})
    /\ findById(IF request.caller # Host \/ Needs = "publish" THEN Throw("Forbidden")
                ELSE IF IsIdle THEN Succeed ELSE Goto("save"))
    /\ Unwritten

\* Its errors are no HttpExceptions.
triggerPayout ==
    /\ At("handler", {"winners"})
    /\ findById(IF request.caller # Host \/ ~request.valid THEN Throw("Error") ELSE Succeed)
    /\ Unwritten

\* The body of updateStatus is checked by the schema alone, when it is saved.  A list of
\* judges is saved over the list it was made from, and over no other.
SaveFails ==
    /\ request.step = "save"
    /\ \/ Needs = "status" /\ ~request.valid /\ Throw("ValidationError")
       \/ Needs # "delete" /\ ~exists /\ Throw("DocumentNotFoundError")
       \/ Needs \in {"invite", "remove", "update"} /\ ~request.fresh /\ Throw("VersionError")
    /\ Unwritten

\* An update may name judges or not.
SavedJudges ==
    CASE Needs = "invite" -> {judges \cup {request.judge}}
      [] Needs = "remove" -> {judges \ {request.judge}}
      [] Needs = "update" -> {judges, {request.judge}}
      [] OTHER -> {judges}
SaveEvent ==
    /\ At("save", Edits \ {"delete"}) /\ exists /\ (Needs = "status" => request.valid)
    /\ judges' \in SavedJudges /\ (judges' # judges => request.fresh)
    /\ Succeed
    /\ UNCHANGED <<users, exists, wallet, configured, history>>

deleteOne ==
    /\ At("save", {"delete"}) /\ exists' = FALSE /\ Succeed
    /\ UNCHANGED <<users, judges, wallet, configured, history>>

\* Without the projectTitle that the DTO does not have, and with which the pipe refuses it.
validateSubmissionData == At("handler", {"projectTitle"}) /\ Throw("BadRequest") /\ Unwritten

\* scoreSubmission reads the event twice; module Judging has what comes then.
isJudge ==
    /\ At("handler", {"judge"})
    /\ findById(request' = [request EXCEPT !.step = "isHost",
                                           !.isJudge = request.caller \in judges])
    /\ Unwritten
isHost ==
    /\ request.step = "isHost"
    /\ findById(IF ~request.isJudge /\ request.caller # Host THEN Throw("Forbidden")
                ELSE Goto("submission"))
    /\ Unwritten
FindSubmission ==
    /\ request.step = "submission"
    /\ Succeed \/ Throw("NotFound") \/ Throw("CastError")
    /\ Unwritten

getJobStatus == At("handler", {"job"}) /\ (Succeed \/ Throw("Error")) /\ Unwritten

\* getEscrowAddress makes the wallet, unless one of its name has been deactivated.
getEscrowAddress ==
    /\ At("handler", {"address", "deposit"})
    /\ IF wallet = "inactive" THEN Throw("Error") /\ UNCHANGED wallet
       ELSE /\ wallet' = "active"
            /\ IF Needs = "address" THEN Succeed ELSE Goto("event")
    /\ UNCHANGED <<users, exists, judges, configured, history>>
recordDeposit == At("event", {"deposit"}) /\ findById(Succeed) /\ Unwritten
getEscrowBalance ==
    /\ At("handler", {"balance"})
    /\ IF wallet = "active" THEN Succeed ELSE Throw("NotFound")
    /\ Unwritten

\* A key that does not decrypt, and a balance that does not suffice; an id that is none is
\* met when the first payment is recorded.
executePayout ==
    /\ At("handler", {"funds"})
    /\ IF wallet # "active" THEN Throw("NotFound")
       ELSE \/ Throw("Error") \/ Throw("BadRequest")
            \/ IF request.id = "malformed" THEN Throw("BSONError") ELSE Succeed
    /\ Unwritten

\* new Types.ObjectId; nobody asks whether there is such an event.
ServeByObjectId ==
    /\ At("handler", {"ObjectId"})
    /\ IF request.id = "malformed" THEN Throw("BSONError") ELSE Succeed
    /\ Unwritten

-----------------------------------------------------------------------------
(* Meanwhile.  No route changes a role; an administrator does, in the        *)
(* database, and a first login makes a user.                                 *)

Waiting == request.step \notin {"none", "answered"}

DatabaseFails ==
    /\ Waiting /\ (request.step # "validate" => Needs \notin Local)
    /\ Throw("MongoError") /\ Unwritten

Change ==
    Waiting /\ changes < MaxChanges /\ changes' = changes + 1 /\ UNCHANGED <<wallet, configured>>

ChangeRole(a, role) ==
    /\ Change /\ users' = [users EXCEPT ![a] = role]
    /\ held' = IF a = request.caller THEN held \cup {role} ELSE held
    /\ UNCHANGED <<exists, judges, request, wasJudge, undisturbed>>

EditJudges(new) ==
    /\ Change /\ exists /\ new # judges /\ judges' = new
    /\ request' = [request EXCEPT !.fresh = @ /\ request.step # "save"]
    /\ wasJudge' = (wasJudge \/ request.caller \in new) /\ undisturbed' = FALSE
    /\ UNCHANGED <<users, exists, held>>

DeleteEvent ==
    /\ Change /\ exists /\ exists' = FALSE /\ undisturbed' = FALSE
    /\ UNCHANGED <<users, judges, request, held, wasJudge>>

Next ==
    \/ \E asked \in ToSet(Table), caller \in Accounts \cup {Nobody}, id \in Ids, valid \in BOOLEAN,
          judge \in Accounts : Ask(asked, caller, id, valid, judge)
    \/ Validate
    \/ ServeAlways \/ login \/ ServeSessions \/ getProfile \/ ServeEvent \/ addParticipant
    \/ ServeOwn \/ triggerPayout \/ SaveFails \/ SaveEvent \/ deleteOne
    \/ validateSubmissionData \/ isJudge \/ isHost \/ FindSubmission \/ getJobStatus
    \/ getEscrowAddress \/ recordDeposit \/ getEscrowBalance \/ executePayout \/ ServeByObjectId
    \/ DatabaseFails \/ DeleteEvent
    \/ \E a \in Accounts, role \in UserRole \cup {"none"} : ChangeRole(a, role)
    \/ \E new \in SUBSET Accounts : EditJudges(new)

Spec == Init /\ [][Next]_vars

-----------------------------------------------------------------------------
TypeOK ==
    /\ users \in [Accounts -> UserRole \cup {"none"}] /\ judges \subseteq Accounts
    /\ exists \in BOOLEAN /\ wallet \in {"none", "active", "inactive"} /\ configured \in BOOLEAN
    /\ request.step \in {"none", "validate", "handler", "save", "isHost", "submission", "event",
                         "answered"}
    /\ request.step = "answered" =>
         request.status \in {200, 201, 204, 400, 401, 403, 404, 500}
    /\ held \subseteq UserRole \cup {"none"} /\ changes \in 0 .. MaxChanges

Answer(statuses) == request.step = "answered" /\ request.status \in statuses
Success == 200 .. 299

\* Every URL reaches the route that was declared for it, in whatever order routes were
\* declared, except GET events/search: GET events/:id comes before it.
OwnRouteServes ==
    request.route # request.asked => request.asked.path = <<"events", "search">>

\* What is behind a guard is done only for a caller who has had one of its roles since the
\* request came; what an event's host may do only for its host, and a score is given only
\* by the host or by somebody who has been a judge since.
DoneForTheEntitled ==
    Answer(Success) =>
        /\ request.route.guard # Public => held \cap request.route.guard # {}
        /\ Needs \in Own => request.caller = Host
        /\ Needs = "judge" => request.caller = Host \/ wasJudge

\* Who has not had a role of the guard is told no more than that, whatever the event is
\* like; and who has had one all along is never told so by the guards.
OthersLearnNothing ==
    /\ request.route.guard # Public /\ held \cap request.route.guard = {}
         => ~Answer(Success \cup {400, 404})
    /\ held # {} /\ held \subseteq request.route.guard
         => ~Answer({401}) /\ (Needs \notin OfEvent => ~Answer({403}))

\* The host who has had the role all along, and asks for what can be done with a valid body,
\* succeeds when nobody has changed the event meanwhile, unless a query fails.
HostIsServed ==
    /\ request.caller = Host /\ held = {"host"} /\ request.id = "event" /\ request.valid
    /\ undisturbed /\ Needs \in Edits \cup {"own", "winners"} /\ request.step = "answered"
    => Answer(Success \cup {500})

\* Success says that there was such an event, and NotFound that there is none now.
AnswersAreTrue ==
    /\ Answer(Success) /\ Needs \in OfEvent \ {"funds", "ObjectId"} => request.id = "event"
    /\ Answer({404}) /\ Needs \in OfEvent \ {"judge", "funds"} => request.id # "event" \/ ~exists
=============================================================================
