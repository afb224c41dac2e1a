------------------------------- MODULE Tokens -------------------------------
(***************************************************************************)
(* What a token is good for after it was given: the tokens of one user     *)
(* (auth/auth.service.ts), the user's document, which may change or go     *)
(* (users/users.service.ts), and the guards that look at them.  JwtStrategy*)
(* with the roles guard of auth/ asks the database for the role; AuthGuard *)
(* and AuthMiddleware of common/ take the one that is in the token.        *)
(***************************************************************************)
EXTENDS Integers

CONSTANTS
    Roles, default,         \* UserRole, and the one a new user has
    TOKEN_EXPIRY,           \* TOKEN_EXPIRY_SECONDS
    Requests,               \* requests handled at once
    MaxChanges, MaxTime     \* bounds

VARIABLES
    users,      \* the role in the user's document; at most one
    tokens,     \* [role, iat]
    login,      \* a login or refreshToken that has the document: its role; at most one
    requests,   \* [step, guard, required, role]
    held,       \* history: for each request, the roles the user had since it came
    last,       \* history: when the user last had each role; 0 for never
    changes,    \* for the bound
    now

vars == <<users, tokens, login, requests, held, last, changes, now>>

Guards == {"JwtStrategy", "AuthGuard"}
NoRequest == [step |-> "none", guard |-> "AuthGuard", required |-> default, role |-> default]

Init ==
    /\ users = {} /\ tokens = {} /\ login = {}
    /\ requests = [r \in Requests |-> NoRequest] /\ held = [r \in Requests |-> {}]
    /\ last = [x \in Roles |-> 0] /\ changes = 0 /\ now = 1

-----------------------------------------------------------------------------
\* The document is written: new is its role from now on, and {} if it is deleted.
Write(new) ==
    /\ users' = new
    /\ held' = [r \in Requests |-> held[r] \cup new]
    /\ last' = [x \in Roles |-> IF x \in users \cup new THEN now ELSE last[x]]

Unwritten == UNCHANGED <<users, held, last>>

\* upsertByAddress; the role of a user who exists stays.
Upsert ==
    /\ login = {}
    /\ Write(IF users = {} THEN {default} ELSE users)
    /\ login' = users'
    /\ UNCHANGED <<tokens, requests, changes, now>>

\* refreshToken: findByAddress; it ends here when there is no user.
FindByAddress ==
    /\ login = {} /\ users # {} /\ login' = users
    /\ Unwritten /\ UNCHANGED <<tokens, requests, changes, now>>

Sign ==
    /\ login # {} /\ login' = {}
    /\ tokens' = tokens \cup {[role |-> x, iat |-> now] : x \in login}
    /\ Unwritten /\ UNCHANGED <<requests, changes, now>>

Update(new) ==
    /\ users # {} /\ users # new /\ changes < MaxChanges /\ changes' = changes + 1
    /\ Write(new)
    /\ UNCHANGED <<tokens, login, requests, now>>

updateRole(x) == Update({x})     \* and updateProfile, with a role among its updates
deleteUser == Update({})

\* jwtService.verify
IsValid(t) == now < t.iat + TOKEN_EXPIRY

\* some of requiredRoles; a route without roles lets any user in.
HasRole(x, required) == x = required

\* The roles guard of common/, which is not asynchronous.
PastRoles(x, required) == IF HasRole(x, required) THEN "handler" ELSE "none"

\* A request with token t comes to a route for required.
Request(r, t, g, required) ==
    /\ requests[r].step = "none" /\ IsValid(t)
    /\ requests' = [requests EXCEPT ![r] =
         [guard |-> g, required |-> required, role |-> t.role,
          step |-> IF g = "JwtStrategy" THEN "findByAddress" ELSE PastRoles(t.role, required)]]
    /\ held' = [held EXCEPT ![r] = users]
    /\ UNCHANGED <<users, tokens, login, last, changes, now>>

\* JwtStrategy.validate, and the roles guard after it.
Validate(r) ==
    /\ requests[r].step = "findByAddress"
    /\ requests' = [requests EXCEPT ![r].step =
         IF \E x \in users : HasRole(x, requests[r].required) THEN "handler" ELSE "none"]
    /\ Unwritten /\ UNCHANGED <<tokens, login, changes, now>>

Answer(r) ==
    /\ requests[r].step = "handler" /\ requests' = [requests EXCEPT ![r].step = "none"]
    /\ Unwritten /\ UNCHANGED <<tokens, login, changes, now>>

\* In units that are long next to a query: none is under way between two.
Tick ==
    /\ now < MaxTime /\ login = {} /\ \A r \in Requests : requests[r].step = "none"
    /\ now' = now + 1
    /\ last' = [x \in Roles |-> IF x \in users THEN now' ELSE last[x]]
    /\ UNCHANGED <<users, tokens, login, requests, held, changes>>

Next ==
    \/ Upsert \/ FindByAddress \/ Sign
    \/ deleteUser \/ \E x \in Roles : updateRole(x)
    \/ \E r \in Requests :
         \/ \E t \in tokens, g \in Guards, required \in Roles : Request(r, t, g, required)
         \/ Validate(r) \/ Answer(r)
    \/ Tick

Spec == Init /\ [][Next]_vars

-----------------------------------------------------------------------------
TypeOK ==
    /\ users \in {{x} : x \in Roles} \cup {{}} /\ login \subseteq Roles
    /\ tokens \subseteq [role : Roles, iat : 1 .. now]
    /\ \A r \in Requests : requests[r].step \in {"none", "findByAddress", "handler"}
    /\ \A x \in Roles : last[x] <= now

\* A handler behind JwtStrategy runs only for a user who has had the role since the request
\* came, whatever the token says and however old it is; behind AuthGuard, for one who had
\* it when the token was new: a role that was taken away, or a user who was deleted, lives
\* on for less than the lifetime of a token.
RolesAreNotOutlived ==
    \A r \in Requests : requests[r].step = "handler" =>
        LET x == requests[r].required IN
        IF requests[r].guard = "JwtStrategy" THEN x \in held[r]
        ELSE last[x] > 0 /\ now - last[x] < TOKEN_EXPIRY
=============================================================================
