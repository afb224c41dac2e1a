------------------------------- MODULE Pages -------------------------------
(***************************************************************************)
(* Paginated reads: findAll of events and of users, findByHost and         *)
(* findByJudge, findWithOptimization, findAllSponsors and findAllTeams.    *)
(* Each runs the find of a page and the count of all documents side by     *)
(* side, so that the two may see different moments, and a client that      *)
(* wants everything asks for page after page while documents come and go.  *)
(* No two documents have the same createdAt, and the position of a         *)
(* document in a listing, newest first, is that of its number.             *)
(***************************************************************************)
EXTENDS Integers, FiniteSets

CONSTANTS limit, MaxDocs, MaxChanges     \* the size of a page; bounds

VARIABLES
    listing,   \* which of the listings is read
    docs,      \* the documents that match its filter
    newest,    \* the number of the newest document there has been
    page,      \* what the client asked for last; 0 once it has had the last page
    data,      \* the documents find has returned; at most one result
    total,     \* what countDocuments has returned; at most one result
    got,       \* history: all the client has been given
    repeated,  \* history: whether it was given a document twice
    atStart,   \* history: what matched when the client began
    came, went, \* history: how many documents have begun, and have ceased, to match since
    torn        \* history: how many came after the count of a page and before its find

vars == <<listing, docs, newest, page, data, total, got, repeated, atStart, came, went,
          torn>>

Listings == {"events", "users", "host", "judge", "optimizer", "sponsors", "teams"}

\* Those whose filter an old document may come to match, and may cease to match.
Filtered == {"events", "judge", "optimizer", "sponsors"}

Init ==
    /\ listing \in Listings
    /\ newest \in 0 .. MaxDocs /\ docs = 1 .. newest /\ atStart = docs
    /\ page = 1 /\ data = {} /\ total = {}
    /\ got = {} /\ repeated = FALSE /\ came = 0 /\ went = 0 /\ torn = 0

-----------------------------------------------------------------------------
\* How many of the documents are listed before d.
Before(d) == Cardinality({e \in docs : e > d})

\* sort, skip and limit.  The pages of sponsors and of teams are counted from 0, the others
\* from 1: page is the number of the page among them.
Page == {d \in docs : Before(d) \in (page - 1) * limit .. page * limit - 1}

find(l) ==
    /\ listing = l /\ page > 0 /\ data = {} /\ data' = {Page}
    /\ UNCHANGED <<listing, docs, newest, page, total, got, repeated, atStart, came, went, torn>>

\* In the same Promise.all, so before it or after it.
countDocuments ==
    /\ page > 0 /\ total = {} /\ total' = {Cardinality(docs)}
    /\ UNCHANGED <<listing, docs, newest, page, data, got, repeated, atStart, came, went, torn>>

findAllEvents == find("events")
findAllUsers == find("users")
findByHost == find("host")
findByJudge == find("judge")
findWithOptimization == find("optimizer")
findAllSponsors == find("sponsors")
findAllTeams == find("teams")

totalPages(n) == (n + limit - 1) \div limit

\* Both queries have answered, and so does the service; the client asks for the next page
\* while there is one.
Answer ==
    /\ \E d \in data, n \in total :
         /\ got' = got \cup d
         /\ repeated' = (repeated \/ got \cap d # {})
         /\ page' = IF page < totalPages(n) THEN page + 1 ELSE 0
    /\ data' = {} /\ total' = {}
    /\ UNCHANGED <<listing, docs, newest, atStart, came, went, torn>>

Change ==
    /\ page > 0 /\ came + went < MaxChanges
    /\ UNCHANGED <<listing, page, data, total, got, repeated, atStart>>

\* A new document, or an old one whose status, judges or events now match.
Matches ==
    /\ Change
    /\ \/ newest < MaxDocs /\ newest' = newest + 1 /\ docs' = docs \cup {newest'}
       \/ /\ listing \in Filtered /\ UNCHANGED newest
          /\ \E d \in (1 .. newest) \ docs : docs' = docs \cup {d}
    /\ came' = came + 1 /\ UNCHANGED went
    /\ torn' = IF total # {} /\ data = {} THEN torn + 1 ELSE torn

\* A document is deleted, or no longer matches.
Ceases ==
    /\ Change
    /\ \E d \in docs : docs' = docs \ {d}
    /\ went' = went + 1 /\ UNCHANGED <<newest, came, torn>>

Next ==
    \/ findAllEvents \/ findAllUsers \/ findByHost \/ findByJudge
    \/ findWithOptimization \/ findAllSponsors \/ findAllTeams
    \/ countDocuments \/ Answer \/ Matches \/ Ceases

Spec == Init /\ [][Next]_vars

-----------------------------------------------------------------------------
TypeOK ==
    /\ listing \in Listings /\ newest \in 0 .. MaxDocs
    /\ docs \subseteq 1 .. newest /\ atStart \subseteq 1 .. newest /\ got \subseteq 1 .. newest
    /\ page \in 0 .. totalPages(MaxDocs) + 1 /\ repeated \in BOOLEAN
    /\ Cardinality(data) <= 1 /\ \A d \in data : Cardinality(d) <= limit
    /\ total \subseteq 0 .. MaxDocs

\* A client that has read to the last page has been given every document that was there all
\* along, but for one at most for each that ceased to match while it read, and for each that
\* came between the count and the find of a page; if nothing has come or gone, exactly what
\* there was.  It is given a document twice only if one has come.
WalkSeesAll ==
    /\ page = 0 =>
         /\ Cardinality((atStart \cap docs) \ got) <= went + torn
         /\ came + went = 0 => got = docs
    /\ repeated => came > 0
=============================================================================
