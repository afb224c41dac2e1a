------------------------------- MODULE Teams -------------------------------
(***************************************************************************)
(* The teams of the events (teams/services/teams.service.ts).  A team is   *)
(* created in two steps, with a unique index behind them; whatever else    *)
(* is done to a team is done by its owner, or by a user with an            *)
(* invitation.  The schema keeps ownerId as an ObjectId, which is never    *)
(* identical (!==) to the string a request comes with: nobody is the       *)
(* owner and no invitation is ever made, though the service's comments and *)
(* the routes say that owners update and invite.  What would follow the    *)
(* check (the step "edit") is not modelled; TypeOK says that no request    *)
(* gets there.  findAllTeams is in module Pages.                           *)
(***************************************************************************)
EXTENDS Integers, Sequences, FiniteSets

CONSTANTS
    Users,              \* ids that are 24 hexadecimal digits; others the schema refuses
    Names,              \* of teams, each in its event
    Calls,              \* requests handled at once
    MaxTeams            \* a bound: teams are asked for while so many can still be made

VARIABLES
    teams,      \* in the order of their creation: [name, ownerId, members, invitations]
    calls       \* [op, user, name, team, step], of nobody while it is new

vars == <<teams, calls>>

\* The two kinds of ids; the members' are Mixed and stay strings.
Text(u) == <<"string", u>>
ObjectId(u) == <<"ObjectId", u>>

Team == [name : Names, ownerId : {ObjectId(u) : u \in Users},
         members : SUBSET {Text(u) : u \in Users}, invitations : SUBSET Users]

OwnersOps == {"updateTeam", "deleteTeam", "inviteMember", "removeMember"}
InvitedOps == {"acceptInvitation", "declineInvitation"}

Init ==
    /\ teams = <<>>
    /\ calls = [c \in Calls |-> [op |-> "createTeam", user |-> 0, name |-> 0, team |-> 0,
                                 step |-> "new"]]

-----------------------------------------------------------------------------
At(c, op, step) == calls[c].op = op /\ calls[c].step = step
Goto(c, step) == calls' = [calls EXCEPT ![c].step = step]
Named(k) == {n \in DOMAIN teams : teams[n].name = k}

Request(c, op, u, k, n) ==
    /\ calls[c].step \in {"new", "saved", "refused"}
    /\ calls' = [calls EXCEPT ![c] = [op |-> op, user |-> u, name |-> k, team |-> n, step |-> "find"]]
    /\ UNCHANGED teams

Creating == {c \in Calls : At(c, "createTeam", "find") \/ At(c, "createTeam", "save")}

createTeam(c, u, k) ==
    /\ Len(teams) + Cardinality(Creating) < MaxTeams
    /\ Request(c, "createTeam", u, k, 0)

\* A team that does not exist yet has an id that nobody can ask for.
ForTeam(c, op, u) == \E n \in DOMAIN teams : Request(c, op, u, teams[n].name, n)
updateTeam(c, u) == ForTeam(c, "updateTeam", u)
deleteTeam(c, u) == ForTeam(c, "deleteTeam", u)
inviteMember(c, u) == ForTeam(c, "inviteMember", u)
removeMember(c, u) == ForTeam(c, "removeMember", u)
acceptInvitation(c, u) == ForTeam(c, "acceptInvitation", u)
declineInvitation(c, u) == ForTeam(c, "declineInvitation", u)

\* createTeam: findOne.
FindByName(c) ==
    /\ At(c, "createTeam", "find")
    /\ Goto(c, IF Named(calls[c].name) = {} THEN "save" ELSE "refused")
    /\ UNCHANGED teams

\* The index on eventId and name is unique.
Fits(k) == Named(k) = {}

\* createTeam: save, which the index may refuse.
Save(c) ==
    /\ At(c, "createTeam", "save")
    /\ IF Fits(calls[c].name)
       THEN /\ teams' = Append(teams, [name |-> calls[c].name, ownerId |-> ObjectId(calls[c].user),
                                       members |-> {Text(calls[c].user)}, invitations |-> {}])
            /\ calls' = [calls EXCEPT ![c].step = "saved", ![c].team = Len(teams) + 1]
       ELSE Goto(c, "refused") /\ UNCHANGED teams

\* team.ownerId !== userId
IsOwner(n, u) == teams[n].ownerId = Text(u)

\* The owner's operations: findById and the check of the owner, before any other.
FindForOwner(c) ==
    /\ calls[c].op \in OwnersOps /\ calls[c].step = "find"
    /\ Goto(c, IF IsOwner(calls[c].team, calls[c].user) THEN "edit" ELSE "refused")
    /\ UNCHANGED teams

\* Those of a user who was invited.
FindInvitation(c) ==
    /\ calls[c].op \in InvitedOps /\ calls[c].step = "find"
    /\ Goto(c, IF calls[c].user \in teams[calls[c].team].invitations THEN "edit" ELSE "refused")
    /\ UNCHANGED teams

Next ==
    \E c \in Calls :
        \/ \E u \in Users, k \in Names : createTeam(c, u, k)
        \/ \E u \in Users :
             \/ updateTeam(c, u) \/ deleteTeam(c, u) \/ inviteMember(c, u) \/ removeMember(c, u)
             \/ acceptInvitation(c, u) \/ declineInvitation(c, u)
        \/ FindByName(c) \/ Save(c) \/ FindForOwner(c) \/ FindInvitation(c)

Spec == Init /\ [][Next]_vars

-----------------------------------------------------------------------------
getTeamsForUser(u) == {n \in DOMAIN teams : Text(u) \in teams[n].members}

TypeOK ==
    /\ teams \in Seq(Team)
    /\ \A c \in Calls :
         /\ calls[c].step \in {"new", "find", "save", "saved", "refused"}
         /\ calls[c].team \in 0 .. Len(teams)

\* However many calls have found a name free, at most one of them makes a team of it; and
\* one that was told so finds its team, of that name, among its user's.
NamesAreUnique ==
    /\ \A m, n \in DOMAIN teams : teams[m].name = teams[n].name => m = n
    /\ \A c \in Calls : At(c, "createTeam", "saved") =>
         /\ teams[calls[c].team].name = calls[c].name
         /\ calls[c].team \in getTeamsForUser(calls[c].user)
=============================================================================
