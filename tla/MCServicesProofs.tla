-------------------------- MODULE MCServicesProofs --------------------------
(***************************************************************************)
(* What TLAPS proves of MCServices, in which one part runs: its share of a *)
(* behaviour is a behaviour of the part's own specification, so that what  *)
(* is proved of each part holds of the whole.                              *)
(***************************************************************************)
EXTENDS MCServices, DeliveryProofs, RecordsProofs

-----------------------------------------------------------------------------
(* Every part's share of a behaviour of the whole is a behaviour of the part.*)

LEMMA OneRuns == ASSUME Next PROVE Only(part)
BY DEF Next

LEMMA QueueRun == Spec => Queue!Spec
<1>1. Init => Queue!Init
  BY DEF Init
<1>2. [Next]_vars => [Queue!Next]_(Queue!vars)
  <2>1. Next /\ part = "job queue" => Queue!Next
    BY DEF Next
  <2>2. Next /\ part # "job queue" => UNCHANGED queueVars
    BY OneRuns DEF Only
  <2> QED  BY <2>1, <2>2 DEF vars, queueVars, Queue!vars
<1> QED  BY <1>1, <1>2, PTL DEF Spec, Queue!Spec

LEMMA TasksRun == Spec => Tasks!Spec
<1>1. Init => Tasks!Init
  BY DEF Init
<1>2. [Next]_vars => [Tasks!Next]_(Tasks!vars)
  <2>1. Next /\ part = "scheduler" => Tasks!Next
    BY DEF Next
  <2>2. Next /\ part # "scheduler" => UNCHANGED tasksVars
    BY OneRuns DEF Only
  <2> QED  BY <2>1, <2>2 DEF vars, tasksVars, Tasks!vars
<1> QED  BY <1>1, <1>2, PTL DEF Spec, Tasks!Spec

LEMMA CachedRun == Spec => Cached!Spec
<1>1. Init => Cached!Init
  BY DEF Init
<1>2. [Next]_vars => [Cached!Next]_(Cached!vars)
  <2>1. Next /\ part = "cache" => Cached!Next
    BY DEF Next
  <2>2. Next /\ part # "cache" => UNCHANGED cachedVars
    BY OneRuns DEF Only
  <2> QED  BY <2>1, <2>2 DEF vars, cachedVars, Cached!vars
<1> QED  BY <1>1, <1>2, PTL DEF Spec, Cached!Spec

LEMMA LoginsRun == Spec => Logins!Spec
<1>1. Init => Logins!Init
  BY DEF Init
<1>2. [Next]_vars => [Logins!Next]_(Logins!vars)
  <2>1. Next /\ part = "sessions" => Logins!Next
    BY DEF Next
  <2>2. Next /\ part # "sessions" => UNCHANGED loginsVars
    BY OneRuns DEF Only
  <2> QED  BY <2>1, <2>2 DEF vars, loginsVars, Logins!vars
<1> QED  BY <1>1, <1>2, PTL DEF Spec, Logins!Spec

LEMMA LimitsRun == Spec => Limits!Spec
<1>1. Init => Limits!Init
  BY DEF Init
<1>2. [Next]_vars => [Limits!Next]_(Limits!vars)
  <2>1. Next /\ part = "rate limiter" => Limits!Next
    BY DEF Next
  <2>2. Next /\ part # "rate limiter" => UNCHANGED limitsVars
    BY OneRuns DEF Only
  <2> QED  BY <2>1, <2>2 DEF vars, limitsVars, Limits!vars
<1> QED  BY <1>1, <1>2, PTL DEF Spec, Limits!Spec

LEMMA RetriesRun == Spec => Retries!Spec
<1>1. Init => Retries!Init
  BY DEF Init
<1>2. [Next]_vars => [Retries!Next]_(Retries!vars)
  <2>1. Next /\ part = "retries" => Retries!Next
    BY DEF Next
  <2>2. Next /\ part # "retries" => UNCHANGED retriesVars
    BY OneRuns DEF Only
  <2> QED  BY <2>1, <2>2 DEF vars, retriesVars, Retries!vars
<1> QED  BY <1>1, <1>2, PTL DEF Spec, Retries!Spec

LEMMA BreakerRun == Spec => Breaker!Spec
<1>1. Init => Breaker!Init
  BY DEF Init
<1>2. [Next]_vars => [Breaker!Next]_(Breaker!vars)
  <2>1. Next /\ part = "breaker" => Breaker!Next
    BY DEF Next
  <2>2. Next /\ part # "breaker" => UNCHANGED breakerVars
    BY OneRuns DEF Only
  <2> QED  BY <2>1, <2>2 DEF vars, breakerVars, Breaker!vars
<1> QED  BY <1>1, <1>2, PTL DEF Spec, Breaker!Spec

LEMMA SocketsRun == Spec => Sockets!Spec
<1>1. Init => Sockets!Init
  BY DEF Init
<1>2. [Next]_vars => [Sockets!Next]_(Sockets!vars)
  <2>1. Next /\ part = "reconnection" => Sockets!Next
    BY DEF Next
  <2>2. Next /\ part # "reconnection" => UNCHANGED socketsVars
    BY OneRuns DEF Only
  <2> QED  BY <2>1, <2>2 DEF vars, socketsVars, Sockets!vars
<1> QED  BY <1>1, <1>2, PTL DEF Spec, Sockets!Spec

LEMMA HooksRun == Spec => Hooks!Spec
<1>1. Init => Hooks!Init
  BY DEF Init
<1>2. [Next]_vars => [Hooks!Next]_(Hooks!vars)
  <2>1. Next /\ part = "webhooks" => Hooks!Next
    BY DEF Next
  <2>2. Next /\ part # "webhooks" => UNCHANGED hooksVars
    BY OneRuns DEF Only
  <2> QED  BY <2>1, <2>2 DEF vars, hooksVars, Hooks!vars
<1> QED  BY <1>1, <1>2, PTL DEF Spec, Hooks!Spec

LEMMA WalletsRun == Spec => Wallets!Spec
<1>1. Init => Wallets!Init
  BY DEF Init
<1>2. [Next]_vars => [Wallets!Next]_(Wallets!vars)
  <2>1. Next /\ part = "escrow wallet" => Wallets!Next
    BY DEF Next
  <2>2. Next /\ part # "escrow wallet" => UNCHANGED walletsVars
    BY OneRuns DEF Only
  <2> QED  BY <2>1, <2>2 DEF vars, walletsVars, Wallets!vars
<1> QED  BY <1>1, <1>2, PTL DEF Spec, Wallets!Spec

LEMMA EmailsRun == Spec => Emails!Spec
<1>1. Init => Emails!Init
  BY DEF Init
<1>2. [Next]_vars => [Emails!Next]_(Emails!vars)
  <2>1. Next /\ part = "email queue" => Emails!Next
    BY DEF Next
  <2>2. Next /\ part # "email queue" => UNCHANGED emailsVars
    BY OneRuns DEF Only
  <2> QED  BY <2>1, <2>2 DEF vars, emailsVars, Emails!vars
<1> QED  BY <1>1, <1>2, PTL DEF Spec, Emails!Spec

LEMMA SmtpRun == Spec => Smtp!Spec
<1>1. Init => Smtp!Init
  BY DEF Init
<1>2. [Next]_vars => [Smtp!Next]_(Smtp!vars)
  <2>1. Next /\ part = "mail" => Smtp!Next
    BY DEF Next
  <2>2. Next /\ part # "mail" => UNCHANGED smtpVars
    BY OneRuns DEF Only
  <2> QED  BY <2>1, <2>2 DEF vars, smtpVars, Smtp!vars
<1> QED  BY <1>1, <1>2, PTL DEF Spec, Smtp!Spec

LEMMA AuditRun == Spec => Audit!Spec
<1>1. Init => Audit!Init
  BY DEF Init
<1>2. [Next]_vars => [Audit!Next]_(Audit!vars)
  <2>1. Next /\ part = "audit" => Audit!Next
    BY DEF Next
  <2>2. Next /\ part # "audit" => UNCHANGED auditVars
    BY OneRuns DEF Only
  <2> QED  BY <2>1, <2>2 DEF vars, auditVars, Audit!vars
<1> QED  BY <1>1, <1>2, PTL DEF Spec, Audit!Spec

LEMMA FilesRun == Spec => Files!Spec
<1>1. Init => Files!Init
  BY DEF Init
<1>2. [Next]_vars => [Files!Next]_(Files!vars)
  <2>1. Next /\ part = "uploads" => Files!Next
    BY DEF Next
  <2>2. Next /\ part # "uploads" => UNCHANGED filesVars
    BY OneRuns DEF Only
  <2> QED  BY <2>1, <2>2 DEF vars, filesVars, Files!vars
<1> QED  BY <1>1, <1>2, PTL DEF Spec, Files!Spec

LEMMA DumpsRun == Spec => Dumps!Spec
<1>1. Init => Dumps!Init
  BY DEF Init
<1>2. [Next]_vars => [Dumps!Next]_(Dumps!vars)
  <2>1. Next /\ part = "backups" => Dumps!Next
    BY DEF Next
  <2>2. Next /\ part # "backups" => UNCHANGED dumpsVars
    BY OneRuns DEF Only
  <2> QED  BY <2>1, <2>2 DEF vars, dumpsVars, Dumps!vars
<1> QED  BY <1>1, <1>2, PTL DEF Spec, Dumps!Spec

LEMMA FeaturesRun == Spec => Features!Spec
<1>1. Init => Features!Init
  BY DEF Init
<1>2. [Next]_vars => [Features!Next]_(Features!vars)
  <2>1. Next /\ part = "features" => Features!Next
    BY DEF Next
  <2>2. Next /\ part # "features" => UNCHANGED featuresVars
    BY OneRuns DEF Only
  <2> QED  BY <2>1, <2>2 DEF vars, featuresVars, Features!vars
<1> QED  BY <1>1, <1>2, PTL DEF Spec, Features!Spec

LEMMA TopicsRun == Spec => Topics!Spec
<1>1. Init => Topics!Init
  BY DEF Init
<1>2. [Next]_vars => [Topics!Next]_(Topics!vars)
  <2>1. Next /\ part = "WalletConnect" => Topics!Next
    BY DEF Next
  <2>2. Next /\ part # "WalletConnect" => UNCHANGED topicsVars
    BY OneRuns DEF Only
  <2> QED  BY <2>1, <2>2 DEF vars, topicsVars, Topics!vars
<1> QED  BY <1>1, <1>2, PTL DEF Spec, Topics!Spec

LEMMA SponsorRun == Spec => Sponsor!Spec
<1>1. Init => Sponsor!Init
  BY DEF Init
<1>2. [Next]_vars => [Sponsor!Next]_(Sponsor!vars)
  <2>1. Next /\ part = "sponsors" => Sponsor!Next
    BY DEF Next
  <2>2. Next /\ part # "sponsors" => UNCHANGED sponsorVars
    BY OneRuns DEF Only
  <2> QED  BY <2>1, <2>2 DEF vars, sponsorVars, Sponsor!vars
<1> QED  BY <1>1, <1>2, PTL DEF Spec, Sponsor!Spec

LEMMA VerdictsRun == Spec => Verdicts!Spec
<1>1. Init => Verdicts!Init
  BY DEF Init
<1>2. [Next]_vars => [Verdicts!Next]_(Verdicts!vars)
  <2>1. Next /\ part = "scores" => Verdicts!Next
    BY DEF Next
  <2>2. Next /\ part # "scores" => UNCHANGED verdictsVars
    BY OneRuns DEF Only
  <2> QED  BY <2>1, <2>2 DEF vars, verdictsVars, Verdicts!vars
<1> QED  BY <1>1, <1>2, PTL DEF Spec, Verdicts!Spec

LEMMA SignersRun == Spec => Signers!Spec
<1>1. Init => Signers!Init
  BY DEF Init
<1>2. [Next]_vars => [Signers!Next]_(Signers!vars)
  <2>1. Next /\ part = "tokens" => Signers!Next
    BY DEF Next
  <2>2. Next /\ part # "tokens" => UNCHANGED signersVars
    BY OneRuns DEF Only
  <2> QED  BY <2>1, <2>2 DEF vars, signersVars, Signers!vars
<1> QED  BY <1>1, <1>2, PTL DEF Spec, Signers!Spec

LEMMA ListedRun == Spec => Listed!Spec
<1>1. Init => Listed!Init
  BY DEF Init
<1>2. [Next]_vars => [Listed!Next]_(Listed!vars)
  <2>1. Next /\ part = "pages" => Listed!Next
    BY DEF Next
  <2>2. Next /\ part # "pages" => UNCHANGED listedVars
    BY OneRuns DEF Only
  <2> QED  BY <2>1, <2>2 DEF vars, listedVars, Listed!vars
<1> QED  BY <1>1, <1>2, PTL DEF Spec, Listed!Spec

LEMMA StatusesRun == Spec => Statuses!Spec
<1>1. Init => Statuses!Init
  BY DEF Init
<1>2. [Next]_vars => [Statuses!Next]_(Statuses!vars)
  <2>1. Next /\ part = "event statuses" => Statuses!Next
    BY DEF Next
  <2>2. Next /\ part # "event statuses" => UNCHANGED statusesVars
    BY OneRuns DEF Only
  <2> QED  BY <2>1, <2>2 DEF vars, statusesVars, Statuses!vars
<1> QED  BY <1>1, <1>2, PTL DEF Spec, Statuses!Spec

LEMMA EntriesRun == Spec => Entries!Spec
<1>1. Init => Entries!Init
  BY DEF Init
<1>2. [Next]_vars => [Entries!Next]_(Entries!vars)
  <2>1. Next /\ part = "submissions" => Entries!Next
    BY DEF Next
  <2>2. Next /\ part # "submissions" => UNCHANGED entriesVars
    BY OneRuns DEF Only
  <2> QED  BY <2>1, <2>2 DEF vars, entriesVars, Entries!vars
<1> QED  BY <1>1, <1>2, PTL DEF Spec, Entries!Spec

LEMMA MeasuredRun == Spec => Measured!Spec
<1>1. Init => Measured!Init
  BY DEF Init
<1>2. [Next]_vars => [Measured!Next]_(Measured!vars)
  <2>1. Next /\ part = "metrics" => Measured!Next
    BY DEF Next
  <2>2. Next /\ part # "metrics" => UNCHANGED measuredVars
    BY OneRuns DEF Only
  <2> QED  BY <2>1, <2>2 DEF vars, measuredVars, Measured!vars
<1> QED  BY <1>1, <1>2, PTL DEF Spec, Measured!Spec

LEMMA LogsRun == Spec => Logs!Spec
<1>1. Init => Logs!Init
  BY DEF Init
<1>2. [Next]_vars => [Logs!Next]_(Logs!vars)
  <2>1. Next /\ part = "log files" => Logs!Next
    BY DEF Next
  <2>2. Next /\ part # "log files" => UNCHANGED logsVars
    BY OneRuns DEF Only
  <2> QED  BY <2>1, <2>2 DEF vars, logsVars, Logs!vars
<1> QED  BY <1>1, <1>2, PTL DEF Spec, Logs!Spec

LEMMA TeamRun == Spec => Team!Spec
<1>1. Init => Team!Init
  BY DEF Init
<1>2. [Next]_vars => [Team!Next]_(Team!vars)
  <2>1. Next /\ part = "teams" => Team!Next
    BY DEF Next
  <2>2. Next /\ part # "teams" => UNCHANGED teamVars
    BY OneRuns DEF Only
  <2> QED  BY <2>1, <2>2 DEF vars, teamVars, Team!vars
<1> QED  BY <1>1, <1>2, PTL DEF Spec, Team!Spec

LEMMA RoutedRun == Spec => Routed!Spec
<1>1. Init => Routed!Init
  BY DEF Init
<1>2. [Next]_vars => [Routed!Next]_(Routed!vars)
  <2>1. Next /\ part = "routes" => Routed!Next
    BY DEF Next
  <2>2. Next /\ part # "routes" => UNCHANGED routedVars
    BY OneRuns DEF Only
  <2> QED  BY <2>1, <2>2 DEF vars, routedVars, Routed!vars, Routed!documents, Routed!history
<1> QED  BY <1>1, <1>2, PTL DEF Spec, Routed!Spec

LEMMA ContractRun == Spec => Contract!Spec
<1>1. Init => Contract!Init
  BY DEF Init
<1>2. [Next]_vars => [Contract!Next]_(Contract!vars)
  <2>1. Next /\ part \in {"contract service", "network info"} => Contract!Next
    BY DEF Next
  <2>2. Next /\ part \notin {"contract service", "network info"}
          => UNCHANGED <<chainVars, contractVars, networkVars>>
    BY OneRuns DEF Only
  <2> QED  BY <2>1, <2>2 DEF vars, chainVars, contractVars, networkVars, Contract!vars
<1> QED  BY <1>1, <1>2, PTL DEF Spec, Contract!Spec

-----------------------------------------------------------------------------
(* The types of the backups.                                                 *)

DumpLimits ==
    maxBackups \in Nat /\ retention \in Nat /\ MaxCreated \in Nat /\ MaxBackupTime \in Nat

\* Backups up to the bound, of times there have been.
DumpsTyped ==
    /\ Len(metadata) <= MaxCreated /\ backupTime \in 0 .. MaxBackupTime
    /\ \A id \in DOMAIN metadata : metadata[id].timestamp \in 0 .. MaxBackupTime
    /\ archives \subseteq Dumps!Ids /\ backupDeletes \subseteq Dumps!Ids
    /\ restoring \subseteq Dumps!Ids
    /\ creating.step \in {"idle", "dump", "compress", "cleanup", "remove"}
    /\ creating.id \in 0 .. MaxCreated
    /\ creating.listed \in Seq(Dumps!Ids) /\ creating.todo \in Seq(Dumps!Ids)
    /\ creating.step = "remove" => creating.todo # <<>>

LEMMA DumpsCount == ASSUME NEW S PROVE Dumps!Cardinality(S) = Cardinality(S)
BY DEF Dumps!Cardinality, Cardinality

LEMMA DumpsFacts ==
  ASSUME DumpLimits, DumpsInv, DumpsTyped
  PROVE  /\ metadata \in Seq(BackupMeta) /\ Len(metadata) \in Nat /\ Len(metadata) <= MaxCreated
         /\ DOMAIN metadata = 1 .. Len(metadata) /\ DOMAIN metadata \subseteq Dumps!Ids
         /\ backups \subseteq DOMAIN metadata /\ backups \subseteq Dumps!Ids /\ IsFiniteSet(backups)
         /\ MaxCreated \in Nat /\ Dumps!Ids = 1 .. MaxCreated /\ Dumps!Ids \subseteq Nat
<1>1. PICK n : n = Len(metadata)
  OBVIOUS
<1>2. n \in Nat /\ DOMAIN metadata = 1 .. n /\ metadata \in Seq(BackupMeta) /\ n <= MaxCreated
  BY <1>1 DEF DumpsInv, DumpsTyped
<1>3. MaxCreated \in Nat /\ Dumps!Ids = 1 .. MaxCreated
  BY DEF Dumps!Ids, DumpLimits
<1>4. 1 .. n \subseteq Dumps!Ids
  BY <1>2, <1>3
<1>5. IsFiniteSet(1 .. n)
  BY <1>2, FS_Interval
<1>6. backups \in SUBSET (1 .. n)
  BY <1>2 DEF DumpsInv
<1>7. IsFiniteSet(backups)
  BY <1>5, <1>6, FS_Subset
<1> QED  BY <1>1, <1>2, <1>3, <1>4, <1>6, <1>7

\* What is listed before each backup, in the order of listBackups.
ListedBefore(b) == {a \in backups : Dumps!IsListedBefore(a, b)}

LEMMA ListedIsAnOrder ==
  ASSUME DumpLimits, DumpsInv, DumpsTyped
  PROVE  Orders([b \in backups |-> ListedBefore(b)], backups)
<1>1. ASSUME NEW n \in backups PROVE n \in Nat /\ metadata[n].timestamp \in Nat
  <2>1. n \in Nat /\ n \in DOMAIN metadata /\ MaxBackupTime \in Nat
    BY DumpsFacts DEF DumpLimits
  <2>2. metadata[n].timestamp \in 0 .. MaxBackupTime
    BY <2>1 DEF DumpsTyped
  <2> QED  BY <2>1, <2>2
<1>2. \A m, n : m \in ListedBefore(n)
        <=> /\ m \in backups
            /\ \/ metadata[m].timestamp > metadata[n].timestamp
               \/ metadata[m].timestamp = metadata[n].timestamp /\ m < n
  BY DEF ListedBefore, Dumps!IsListedBefore
<1>3. \A n \in backups : ListedBefore(n) \in SUBSET backups
  BY <1>2
<1>4. \A n \in backups : n \notin ListedBefore(n)
  BY <1>1, <1>2
<1>5. ASSUME NEW n \in backups, NEW m \in ListedBefore(n), NEW l \in ListedBefore(m)
      PROVE  l \in ListedBefore(n)
  <2>1. PICK x, y, z :
          x = metadata[l].timestamp /\ y = metadata[m].timestamp /\ z = metadata[n].timestamp
    OBVIOUS
  <2>2. m \in backups /\ l \in backups
    BY <1>2, <1>5
  <2>3. x \in Nat /\ y \in Nat /\ z \in Nat /\ l \in Nat /\ m \in Nat /\ n \in Nat
    BY <1>1, <2>1, <2>2
  <2>4. (x > y \/ (x = y /\ l < m)) /\ (y > z \/ (y = z /\ m < n))
    BY <1>2, <1>5, <2>1
  <2>5. x > z \/ (x = z /\ l < n)
    BY <2>3, <2>4
  <2> QED  BY <1>2, <2>1, <2>2, <2>5
<1>6. ASSUME NEW m \in backups, NEW n \in backups, m # n
      PROVE  m \in ListedBefore(n) \/ n \in ListedBefore(m)
  <2>1. m \in Nat /\ n \in Nat /\ metadata[m].timestamp \in Nat /\ metadata[n].timestamp \in Nat
    BY <1>1
  <2> QED  BY <1>2, <1>6, <2>1
<1> QED  BY <1>3, <1>4, <1>5, <1>6 DEF Orders

LEMMA ListedIs ==
  ASSUME DumpLimits, DumpsInv, DumpsTyped PROVE Dumps!Listed \in Seq(Dumps!Ids)
<1>1. PICK S, P : S = backups /\ P = [b \in backups |-> ListedBefore(b)]
  OBVIOUS
<1>2. Orders(P, S) /\ IsFiniteSet(S) /\ S \subseteq Dumps!Ids
  BY <1>1, ListedIsAnOrder, DumpsFacts
<1>3. PICK c : c = Cardinality(S)
  OBVIOUS
<1>4. c \in Nat /\ \A i \in 1 .. c : \E s \in S : i = 1 + Cardinality(P[s])
  BY <1>2, <1>3, OrderedIsNumbered
<1> DEFINE Placed(b, i) == i = 1 + Dumps!Cardinality({a \in backups : Dumps!IsListedBefore(a, b)})
           ChosenAt(i) == CHOOSE b \in S : Placed(b, i)
<1>5. ASSUME NEW i \in 1 .. c PROVE ChosenAt(i) \in S
  <2>1. PICK s \in S : i = 1 + Cardinality(P[s])
    BY <1>4
  <2>2. Placed(s, i)
    BY <1>1, <2>1, DumpsCount DEF ListedBefore
  <2> HIDE DEF Placed
  <2> QED  BY <2>2
<1>6. PICK t : t = Dumps!Listed
  OBVIOUS
<1>7. t = [i \in 1 .. c |-> ChosenAt(i)]
  <2> DEFINE all == Dumps!Cardinality(backups)
             Best(i) == CHOOSE b \in backups : Placed(b, i)
  <2>1. t = [i \in 1 .. all |-> Best(i)]
    BY <1>6, Zenon DEF Dumps!Listed
  <2>2. all = c /\ \A i : Best(i) = ChosenAt(i)
    BY <1>1, <1>3, DumpsCount
  <2> HIDE DEF Best, all, ChosenAt
  <2> QED  BY <2>1, <2>2
<1>8. t \in [1 .. c -> Dumps!Ids]
  <2> HIDE DEF ChosenAt
  <2> QED  BY <1>2, <1>5, <1>7
<1> QED  BY <1>4, <1>6, <1>8, IsSeq

LEMMA TooOldIs ==
  ASSUME NEW A, NEW s \in Seq(A) PROVE Dumps!TooOld(s) \in Seq(A)
<1> DEFINE S == {id \in DOMAIN metadata : metadata[id].timestamp < backupTime - retention}
<1>1. Dumps!TooOld(s) = Emails!Kept(s, S)
  BY DEF Dumps!TooOld, Emails!Kept
<1>2. PICK T : T = S
  OBVIOUS
<1> HIDE DEF S
<1> QED  BY <1>1, <1>2, MailsKept

LEMMA TooManyIs ==
  ASSUME DumpLimits, NEW A, NEW s \in Seq(A) PROVE Dumps!TooMany(s) \in Seq(A)
<1>1. Len(s) \in Nat /\ maxBackups \in Nat
  BY DEF DumpLimits
<1>2. SubSeq(s, maxBackups + 1, Len(s)) \in Seq(A)
  BY <1>1
<1> QED  BY <1>2 DEF Dumps!TooMany

\* Most steps leave the bounded parts alone, or shorten what the cleanup has to do.
LEMMA DumpsTypedNext ==
  ASSUME DumpLimits, DumpsInv, DumpsTyped, [Dumps!Next]_(Dumps!vars) PROVE DumpsTyped'
<1>0. /\ creating = [step |-> creating.step, id |-> creating.id, listed |-> creating.listed,
                     todo |-> creating.todo]
      /\ creating.step # "idle" => creating.id \in DOMAIN metadata
  BY DEF DumpsInv
<1>k. Dumps!Ids' = Dumps!Ids
  BY DEF Dumps!Ids
<1>1. ASSUME UNCHANGED <<metadata, backupTime>>, NEW c, creating' = c,
             c.step \in {"idle", "dump", "compress", "cleanup", "remove"},
             c.id \in 0 .. MaxCreated, c.listed \in Seq(Dumps!Ids), c.todo \in Seq(Dumps!Ids),
             c.step = "remove" => c.todo # <<>>,
             archives' \subseteq Dumps!Ids, backupDeletes' \subseteq Dumps!Ids,
             restoring' \subseteq Dumps!Ids
      PROVE  DumpsTyped'
  BY <1>1, <1>k DEF DumpsTyped
<1>2. ASSUME NEW s \in {"dump", "compress", "cleanup", "remove"}, NEW i \in 0 .. MaxCreated,
             NEW l \in Seq(Dumps!Ids), NEW t \in Seq(Dumps!Ids), s = "remove" => t # <<>>,
             creating' = [step |-> s, id |-> i, listed |-> l, todo |-> t],
             UNCHANGED <<metadata, backupTime, backupDeletes, restoring>>,
             archives' \subseteq Dumps!Ids
      PROVE  DumpsTyped'
  <2>1. PICK c : c = [step |-> s, id |-> i, listed |-> l, todo |-> t]
    OBVIOUS
  <2>2. c.step = s /\ c.id = i /\ c.listed = l /\ c.todo = t
    BY <2>1
  <2> QED  BY <1>1, <1>2, <2>1, <2>2 DEF DumpsTyped
<1>3. CASE Dumps!CreateBackup
  <2>1. PICK m, n : m = [status |-> "in_progress", timestamp |-> backupTime]
                    /\ n = Len(metadata)
    OBVIOUS
  <2>2. n \in Nat /\ n < MaxCreated /\ metadata \in Seq(BackupMeta) /\ DOMAIN metadata = 1 .. n
        /\ MaxCreated \in Nat
    BY <1>3, <2>1, DumpsFacts DEF Dumps!CreateBackup
  <2>3. backupTime \in 0 .. MaxBackupTime /\ MaxBackupTime \in Nat
    BY DEF DumpsTyped, DumpLimits
  <2>4. m \in BackupMeta /\ m.timestamp = backupTime
    BY <2>1, <2>3 DEF BackupMeta
  <2>5. metadata' = Append(metadata, m)
    BY <1>3, <2>1 DEF Dumps!CreateBackup
  <2>6. /\ Len(metadata') = n + 1 /\ DOMAIN metadata' = 1 .. n + 1 /\ metadata'[n + 1] = m
        /\ \A i \in 1 .. n : metadata'[i] = metadata[i]
    BY <2>1, <2>2, <2>4, <2>5
  <2>7. \A i \in DOMAIN metadata' : metadata'[i].timestamp \in 0 .. MaxBackupTime
    <3> SUFFICES ASSUME NEW i \in 1 .. n + 1
                 PROVE  metadata'[i].timestamp \in 0 .. MaxBackupTime
      BY <2>6
    <3>1. i = n + 1 \/ i \in 1 .. n
      BY <2>2
    <3>2. i \in 1 .. n => metadata[i].timestamp \in 0 .. MaxBackupTime
      BY <2>2 DEF DumpsTyped
    <3> QED  BY <2>3, <2>4, <2>6, <3>1, <3>2
  <2>8. creating' = [step |-> "dump", id |-> n + 1, listed |-> <<>>, todo |-> <<>>]
    BY <1>3, <2>6 DEF Dumps!CreateBackup, Dumps!Idle
  <2>9. /\ creating'.step = "dump" /\ creating'.id = n + 1 /\ creating'.listed = <<>>
        /\ creating'.todo = <<>>
    BY <2>8
  <2>10. n + 1 \in 0 .. MaxCreated /\ Len(metadata') <= MaxCreated
    BY <2>2, <2>6
  <2>11. UNCHANGED <<archives, backupDeletes, restoring, backupTime>>
    BY <1>3 DEF Dumps!CreateBackup
  <2>12. <<>> \in Seq(Dumps!Ids)
    OBVIOUS
  <2> QED  BY <1>k, <2>7, <2>9, <2>10, <2>11, <2>12 DEF DumpsTyped
<1>4. CASE Dumps!Dumped
  <2>1. creating' = [step |-> "compress", id |-> creating.id, listed |-> creating.listed,
                     todo |-> creating.todo]
    BY <1>0, <1>4 DEF Dumps!Dumped
  <2> QED  BY <1>2, <1>4, <2>1 DEF Dumps!Dumped, DumpsTyped
\* What an ending makes of the metadata.
<1>m. ASSUME NEW s \in {"completed", "failed"}, creating.step # "idle",
             metadata' = [metadata EXCEPT ![creating.id].status = s]
      PROVE  /\ Len(metadata') <= MaxCreated
             /\ \A i \in DOMAIN metadata' : metadata'[i].timestamp \in 0 .. MaxBackupTime
  <2>1. PICK k, m : k = creating.id /\ m = metadata[k]
    OBVIOUS
  <2>2. k \in DOMAIN metadata /\ m \in BackupMeta /\ metadata \in Seq(BackupMeta)
    BY <1>0, <1>m, <2>1, DumpsFacts
  <2>3. PICK r : r = [m EXCEPT !.status = s]
    OBVIOUS
  <2>4. r \in BackupMeta /\ r.timestamp = m.timestamp
    BY <2>2, <2>3 DEF BackupMeta
  <2>5. metadata' = [metadata EXCEPT ![k] = r]
    BY <1>m, <2>1, <2>3
  <2>6. Len(metadata') = Len(metadata) /\ DOMAIN metadata' = DOMAIN metadata
        /\ \A i \in DOMAIN metadata : metadata'[i].timestamp = metadata[i].timestamp
    BY <2>1, <2>2, <2>4, <2>5
  <2> QED  BY <2>6 DEF DumpsTyped
<1>5. CASE Dumps!Compressed
  <2>1. PICK l, t : l = Dumps!Listed /\ t = Dumps!TooMany(l)
    OBVIOUS
  <2>2. l \in Seq(Dumps!Ids) /\ t \in Seq(Dumps!Ids)
    BY <2>1, ListedIs, TooManyIs
  <2>3. creating' = [creating EXCEPT !.step = "cleanup", !.listed = l, !.todo = t]
    BY <1>5, <2>1 DEF Dumps!Compressed
  <2>4. creating' = [step |-> "cleanup", id |-> creating.id, listed |-> l, todo |-> t]
    BY <1>0, <2>3
  <2>5. /\ creating'.step = "cleanup" /\ creating'.id = creating.id /\ creating'.listed = l
        /\ creating'.todo = t
    BY <2>4
  <2>6. /\ creating.step = "compress" /\ archives' = archives \cup {creating.id}
        /\ UNCHANGED <<backupDeletes, restoring, backupTime>>
    BY <1>5 DEF Dumps!Compressed
  <2>7. archives' \subseteq Dumps!Ids
    BY <1>0, <2>6, DumpsFacts DEF DumpsTyped
  <2>8. /\ Len(metadata') <= MaxCreated
        /\ \A i \in DOMAIN metadata' : metadata'[i].timestamp \in 0 .. MaxBackupTime
    BY <1>5, <1>m, <2>6 DEF Dumps!Compressed
  <2> QED  BY <1>k, <2>2, <2>5, <2>6, <2>7, <2>8 DEF DumpsTyped
<1>6. CASE creating.step # "idle" /\ Dumps!Failed
  <2>1. /\ Len(metadata') <= MaxCreated
        /\ \A i \in DOMAIN metadata' : metadata'[i].timestamp \in 0 .. MaxBackupTime
    BY <1>6, <1>m DEF Dumps!Failed
  <2>2. creating' = [step |-> "idle", id |-> 0, listed |-> <<>>, todo |-> <<>>]
    BY <1>6 DEF Dumps!Failed, Dumps!Idle
  <2>3. /\ creating'.step = "idle" /\ creating'.id = 0 /\ creating'.listed = <<>>
        /\ creating'.todo = <<>>
    BY <2>2
  <2>4. UNCHANGED <<archives, backupDeletes, restoring, backupTime>>
    BY <1>6 DEF Dumps!Failed
  <2>5. <<>> \in Seq(Dumps!Ids) /\ 0 \in 0 .. MaxCreated
    BY DumpsFacts
  <2> QED  BY <1>k, <2>1, <2>3, <2>4, <2>5 DEF DumpsTyped
<1>7. CASE Dumps!CleanupDeletes /\ ~Dumps!Failed
  <2>1. /\ creating' = [creating EXCEPT !.step = "remove"] /\ creating.todo # <<>>
        /\ archives' = archives \ {Head(creating.todo)}
        /\ UNCHANGED <<backups, metadata, backupDeletes, restoring, backupTime>>
    BY <1>7 DEF Dumps!CleanupDeletes
  <2>2. creating' = [step |-> "remove", id |-> creating.id, listed |-> creating.listed,
                     todo |-> creating.todo]
    BY <1>0, <2>1
  <2> QED  BY <1>2, <2>1, <2>2 DEF DumpsTyped
<1>8. CASE Dumps!CleanupDeleted
  <2>1. /\ creating' = [creating EXCEPT !.step = "cleanup", !.todo = Tail(@)]
        /\ creating.step = "remove"
        /\ UNCHANGED <<metadata, archives, backupDeletes, restoring, backupTime>>
    BY <1>8 DEF Dumps!CleanupDeleted
  <2>2. PICK t : t = Tail(creating.todo)
    OBVIOUS
  <2>3. creating.todo \in Seq(Dumps!Ids) /\ creating.todo # <<>>
    BY <2>1 DEF DumpsTyped
  <2>4. t \in Seq(Dumps!Ids)
    BY <2>2, <2>3
  <2>5. creating' = [step |-> "cleanup", id |-> creating.id, listed |-> creating.listed,
                     todo |-> t]
    BY <1>0, <2>1, <2>2
  <2> QED  BY <1>2, <2>1, <2>4, <2>5 DEF DumpsTyped
<1>9. CASE Dumps!CleanupAge
  <2>1. PICK t : t = Dumps!TooOld(creating.listed)
    OBVIOUS
  <2>2. t \in Seq(Dumps!Ids)
    BY <2>1, TooOldIs DEF DumpsTyped
  <2>3. /\ creating' = IF t = <<>> THEN Dumps!Idle
                       ELSE [creating EXCEPT !.todo = t, !.listed = <<>>]
        /\ creating.step = "cleanup"
        /\ UNCHANGED <<metadata, archives, backupDeletes, restoring, backupTime>>
    BY <1>9, <2>1 DEF Dumps!CleanupAge
  <2>4. CASE t = <<>>
    <3>1. creating' = [step |-> "idle", id |-> 0, listed |-> <<>>, todo |-> <<>>]
      BY <2>3, <2>4 DEF Dumps!Idle
    <3>2. /\ creating'.step = "idle" /\ creating'.id = 0 /\ creating'.listed = <<>>
          /\ creating'.todo = <<>>
      BY <3>1
    <3>3. <<>> \in Seq(Dumps!Ids) /\ 0 \in 0 .. MaxCreated
      BY DumpsFacts
    <3> QED  BY <1>k, <2>3, <3>2, <3>3 DEF DumpsTyped
  <2>5. CASE t # <<>>
    <3>1. creating' = [step |-> "cleanup", id |-> creating.id, listed |-> <<>>, todo |-> t]
      BY <1>0, <2>3, <2>5
    <3>2. <<>> \in Seq(Dumps!Ids)
      OBVIOUS
    <3> QED  BY <1>2, <2>2, <2>3, <3>1, <3>2 DEF DumpsTyped
  <2> QED  BY <2>4, <2>5
<1>10. ASSUME NEW id \in Dumps!Ids,
              \/ Dumps!DeleteBackup(id) \/ Dumps!Deleted(id)
              \/ Dumps!RestoreBackup(id) \/ Dumps!Restored(id)
       PROVE  DumpsTyped'
  <2>1. /\ UNCHANGED <<metadata, creating, backupTime>>
        /\ archives' \subseteq archives \cup {id} /\ backupDeletes' \subseteq backupDeletes \cup {id}
        /\ restoring' \subseteq restoring \cup {id}
    BY <1>10 DEF Dumps!DeleteBackup, Dumps!Deleted, Dumps!RestoreBackup, Dumps!Restored
  <2> QED  BY <1>k, <2>1 DEF DumpsTyped
<1>11. CASE Dumps!Tick
  <2>1. /\ UNCHANGED <<metadata, creating, archives, backupDeletes, restoring>>
        /\ backupTime < MaxBackupTime /\ backupTime' = backupTime + 1
    BY <1>11 DEF Dumps!Tick
  <2>2. backupTime' \in 0 .. MaxBackupTime
    <3>1. backupTime \in 0 .. MaxBackupTime /\ MaxBackupTime \in Nat
      BY DEF DumpsTyped, DumpLimits
    <3> QED  BY <2>1, <3>1
  <2> QED  BY <1>k, <2>1, <2>2 DEF DumpsTyped
<1>12. CASE UNCHANGED Dumps!vars
  BY <1>k, <1>12 DEF Dumps!vars, DumpsTyped
<1> QED
  BY <1>3, <1>4, <1>5, <1>6, <1>7, <1>8, <1>9, <1>10, <1>11, <1>12
  DEF Dumps!Next, Dumps!CommandFailed, Dumps!CleanupDeletes

LEMMA DumpsTypes == ASSUME DumpLimits PROVE Dumps!Spec => []Dumps!TypeOK
<1>1. Dumps!Init => DumpsTyped
  BY DEF Dumps!Init, Dumps!Idle, DumpsTyped, DumpLimits
<1>2. DumpsInv /\ DumpsTyped /\ [Dumps!Next]_(Dumps!vars) => DumpsTyped'
  BY DumpsTypedNext
<1>3. ASSUME DumpsInv, DumpsTyped PROVE Dumps!TypeOK
  <2> DEFINE R == [status : {"in_progress", "completed", "failed"}, timestamp : 0 .. MaxBackupTime]
  <2>1. PICK n : n = Len(metadata)
    OBVIOUS
  <2>2. n \in Nat /\ metadata \in Seq(BackupMeta) /\ DOMAIN metadata = 1 .. n
    BY <1>3, <2>1, DumpsFacts
  <2>3. ASSUME NEW i \in 1 .. n PROVE metadata[i] \in R
    <3>1. metadata[i] \in BackupMeta /\ metadata[i].timestamp \in 0 .. MaxBackupTime
      BY <1>3, <2>2 DEF DumpsTyped
    <3> QED  BY <3>1 DEF BackupMeta
  <2>4. metadata \in Seq(R)
    <3>1. metadata = [i \in 1 .. n |-> metadata[i]]
      BY <2>2
    <3>2. metadata \in [1 .. n -> R]
      <4> HIDE DEF R
      <4> QED  BY <2>3, <3>1
    <3> HIDE DEF R
    <3> QED  BY <2>2, <3>2, IsSeq
  <2>5. backups \subseteq Dumps!Ids
    BY <1>3, DumpsFacts
  <2> QED  BY <1>3, <2>4, <2>5 DEF Dumps!TypeOK, DumpsTyped
<1> QED  BY <1>1, <1>2, <1>3, DumpsSpec, PTL DEF Dumps!Spec


-----------------------------------------------------------------------------
(* The theorems.                                                             *)

\* What the parts ask of their configuration and of the bounds, the delays and numbers of
\* the code being natural numbers.
WorkLimits == JobLimits /\ SmtpLimits /\ AuditLimits /\ SchedulerLimits
StoreLimits == CacheLimits /\ CacheTimes /\ SessionLimits
AccessLimits == TokenLimits /\ RouteLimits /\ ScoringLimits /\ ReaderLimits
RequestLimits ==
    /\ LimiterLimits /\ RetryLimits /\ BreakerLimits /\ ReconnectLimits
    /\ FeatureLimits /\ MetricLimits
MessageLimits == HookLimits /\ MailQueueLimits /\ mailRetries \in Nat
ChainLimits ==
    PayoutsAreLists /\ ContractLimits /\ TopicLimits /\ MaxTopicTime \in Nat
FileLimits == LogLimits /\ DumpLimits /\ MaxUploads \in Nat /\ MaxUploadTime \in Nat
RecordLimits == PageLimits /\ MaxSponsorRequests \in Nat \ {0}
ServicesLimits ==
    /\ WorkLimits /\ StoreLimits /\ AccessLimits /\ RequestLimits /\ MessageLimits
    /\ ChainLimits /\ FileLimits /\ RecordLimits

\* Every service keeps its types, whichever of them runs.
THEOREM ServicesTypeCorrect == ASSUME ServicesLimits PROVE Spec => []TypeOK
<1> DEFINE WorkTyped == Queue!TypeOK /\ Smtp!TypeOK /\ Audit!TypeOK
           CountsTyped == Retries!TypeOK /\ Features!TypeOK /\ Measured!TypeOK
           AccessTyped == Cached!TypeOK /\ Tasks!TypeOK /\ Logins!TypeOK /\ Signers!TypeOK
                          /\ Entries!TypeOK /\ Routed!TypeOK /\ Verdicts!TypeOK
           CallsTyped == Limits!TypeOK /\ Breaker!TypeOK /\ Sockets!TypeOK /\ Hooks!TypeOK
                         /\ Emails!TypeOK
           BooksTyped == Wallets!TypeOK /\ Contract!TypeOK /\ Topics!TypeOK
                         /\ Files!TypeOK /\ Dumps!TypeOK /\ Logs!TypeOK
           DocumentsTyped == Sponsor!TypeOK /\ Statuses!TypeOK /\ Listed!TypeOK /\ Team!TypeOK
<1>1. Spec => []WorkTyped
  <2>1. JobLimits /\ SmtpLimits /\ AuditLimits
    BY DEF ServicesLimits, WorkLimits
  <2>2. Queue!Spec /\ Smtp!Spec /\ Audit!Spec => []WorkTyped
    BY <2>1, WorkTypeCorrect
  <2> QED  BY <2>2, QueueRun, SmtpRun, AuditRun
<1>2. Spec => []CountsTyped
  <2>1. RetryLimits /\ FeatureLimits /\ MetricLimits
    BY DEF ServicesLimits, RequestLimits
  <2>2. Retries!Spec /\ Features!Spec /\ Measured!Spec => []CountsTyped
    BY <2>1, CountersTypeCorrect
  <2> QED  BY <2>2, RetriesRun, FeaturesRun, MeasuredRun
<1>3. Spec => []AccessTyped
  <2>1. /\ CacheLimits /\ CacheTimes /\ SchedulerLimits /\ SessionLimits /\ TokenLimits
        /\ RouteLimits /\ ScoringLimits
    BY DEF ServicesLimits, StoreLimits, WorkLimits, AccessLimits
  <2>2. Cached!Spec => []Cached!TypeOK
    BY <2>1, CacheTypeCorrect
  <2>3. Tasks!Spec => []Tasks!TypeOK
    BY <2>1, SchedulerTypeCorrect
  <2>4. Logins!Spec => []Logins!TypeOK
    BY <2>1, SessionsTypeCorrect
  <2>5. Signers!Spec => []Signers!TypeOK
    BY <2>1, TokensTypeCorrect
  <2>6. Routed!Spec => []Routed!TypeOK
    BY <2>1, RoutesTypeCorrect
  <2>7. Verdicts!Spec => []Verdicts!TypeOK
    BY <2>1, ScoresTypeCorrect
  <2> QED  BY <2>2, <2>3, <2>4, <2>5, <2>6, <2>7, EntriesTypeCorrect, CachedRun, TasksRun,
              LoginsRun, SignersRun, EntriesRun, RoutedRun, VerdictsRun, PTL
<1>4. Spec => []CallsTyped
  <2>1. /\ LimiterLimits /\ BreakerLimits /\ ReconnectLimits /\ HookLimits /\ MailQueueLimits
        /\ mailRetries \in Nat
    BY DEF ServicesLimits, RequestLimits, MessageLimits
  <2>2. Limits!Spec => []Limits!TypeOK
    BY <2>1, LimitersTypeCorrect
  <2>3. Breaker!Spec => []Breaker!TypeOK
    BY <2>1, BreakerTypeCorrect
  <2>4. Sockets!Spec => []Sockets!TypeOK
    BY <2>1, ReconnectionTypeCorrect
  <2>5. Hooks!Spec => []Hooks!TypeOK
    BY <2>1, HooksTypeCorrect
  <2>6. Emails!Spec => []Emails!TypeOK
    BY <2>1, MailQueueTypeCorrect
  <2> QED  BY <2>2, <2>3, <2>4, <2>5, <2>6, LimitsRun, BreakerRun, SocketsRun, HooksRun,
              EmailsRun, PTL
<1>5. Spec => []BooksTyped
  <2>1. /\ PayoutsAreLists /\ ContractLimits /\ TopicLimits /\ MaxTopicTime \in Nat
        /\ LogLimits /\ DumpLimits /\ MaxUploads \in Nat /\ MaxUploadTime \in Nat
    BY DEF ServicesLimits, ChainLimits, FileLimits
  <2>2. Wallets!Spec => []Wallets!TypeOK
    BY <2>1, WalletsTypeCorrect
  <2>3. Contract!Spec => []Contract!TypeOK
    BY <2>1, ContractTypes
  <2>4. Topics!Spec => []Topics!TypeOK
    BY <2>1, TopicsTypes
  <2>5. Files!Spec => []Files!TypeOK
    BY <2>1, UploadsTypes
  <2>6. Dumps!Spec => []Dumps!TypeOK
    BY <2>1, DumpsTypes
  <2>7. Logs!Spec => []Logs!TypeOK
    BY <2>1, LogsTypes
  <2> QED  BY <2>2, <2>3, <2>4, <2>5, <2>6, <2>7, WalletsRun, ContractRun, TopicsRun,
              FilesRun, DumpsRun, LogsRun, PTL
<1>6. Spec => []DocumentsTyped
  <2>1. PageLimits /\ MaxSponsorRequests \in Nat \ {0}
    BY DEF ServicesLimits, RecordLimits
  <2>2. Sponsor!Spec => []Sponsor!TypeOK
    BY <2>1, SponsorTypes
  <2>3. Listed!Spec => []Listed!TypeOK
    BY <2>1, PagesAreTyped
  <2>4. Team!Spec => []Team!TypeOK
    BY TeamsTypes
  <2> QED  BY <2>2, <2>3, <2>4, StatusesTypes, SponsorRun, StatusesRun, ListedRun, TeamRun, PTL
<1>7. WorkTyped /\ CountsTyped /\ AccessTyped /\ CallsTyped /\ BooksTyped /\ DocumentsTyped => TypeOK
  BY DEF TypeOK
<1> HIDE DEF WorkTyped, CountsTyped, AccessTyped, CallsTyped, BooksTyped, DocumentsTyped
<1> QED  BY <1>1, <1>2, <1>3, <1>4, <1>5, <1>6, <1>7, PTL

\* Every safety property of the services holds of the whole, whichever of them runs.
THEOREM ServicesKeepTheirPromises ==
  ASSUME ServicesLimits
  PROVE  Spec => [](/\ NoWorkIsLost /\ ActiveTaskHasTimer /\ StoppedIsQuiet
                    /\ OnlyImportsOverfill /\ AccessIsRight /\ AllowedRate /\ CountsAddUp
                    /\ OpenAfterRunOfFailures /\ ReconnectsHadAttempts /\ QueuesAreServed
                    /\ BooksMatchTheChain /\ FilesMatchRecords /\ DocumentsAreAsAsked
                    /\ WalletSessionsAreRight /\ ScoresAreRight)
<1>1. Spec => []NoWorkIsLost /\ []ActiveTaskHasTimer /\ []StoppedIsQuiet
  <2>1. JobLimits /\ SmtpLimits /\ AuditLimits /\ SchedulerLimits
    BY DEF ServicesLimits, WorkLimits
  <2>2. Queue!Spec /\ Smtp!Spec /\ Audit!Spec => []NoWorkIsLost
    BY <2>1, WorkIsNotLost
  <2>3. Tasks!Spec => []ActiveTaskHasTimer
    BY <2>1, ActiveTasksHaveTimers
  <2>4. Tasks!Spec => []StoppedIsQuiet
    BY <2>1, StoppedTasksAreQuiet
  <2> QED  BY <2>2, <2>3, <2>4, QueueRun, SmtpRun, AuditRun, TasksRun
<1>2. Spec => []OnlyImportsOverfill /\ []AccessIsRight /\ []ScoresAreRight
  <2>1. /\ CacheLimits /\ SessionLimits /\ TokenLimits /\ RouteLimits
        /\ ScoringLimits /\ ReaderLimits
    BY DEF ServicesLimits, StoreLimits, AccessLimits
  <2>2. Cached!Spec => []OnlyImportsOverfill
    BY <2>1, CacheStaysWithinSize
  <2>3. Logins!Spec /\ Signers!Spec /\ Entries!Spec /\ Routed!Spec => []AccessIsRight
    BY <2>1, AccessStaysRight
  <2>4. Verdicts!Spec /\ Entries!Spec => []ScoresAreRight
    BY <2>1, ScoresStayRight
  <2> QED  BY <2>2, <2>3, <2>4, CachedRun, LoginsRun, SignersRun, EntriesRun, RoutedRun,
              VerdictsRun
<1>3. Spec => []AllowedRate /\ []CountsAddUp /\ []OpenAfterRunOfFailures
  <2>1. LimiterLimits /\ RetryLimits /\ FeatureLimits /\ MetricLimits /\ BreakerLimits
    BY DEF ServicesLimits, RequestLimits
  <2>2. Limits!Spec => []AllowedRate
    BY <2>1, RatesAreKept
  <2>3. Retries!Spec /\ Features!Spec /\ Measured!Spec => []CountsAddUp
    BY <2>1, CountsStayRight
  <2>4. Breaker!Spec => []OpenAfterRunOfFailures
    BY <2>1, OpensAfterARun
  <2> QED  BY <2>2, <2>3, <2>4, LimitsRun, RetriesRun, FeaturesRun, MeasuredRun, BreakerRun
<1>4. Spec => []ReconnectsHadAttempts /\ []QueuesAreServed
  <2>1. ReconnectLimits /\ HookLimits /\ MailQueueLimits
    BY DEF ServicesLimits, RequestLimits, MessageLimits
  <2>2. Sockets!Spec => []ReconnectsHadAttempts
    BY <2>1, CountedReconnectsHadAttempts
  <2>3. Hooks!Spec /\ Emails!Spec => []QueuesAreServed
    BY <2>1, QueuesStayServed
  <2> QED  BY <2>2, <2>3, SocketsRun, HooksRun, EmailsRun
<1>5. Spec => []BooksMatchTheChain /\ []WalletSessionsAreRight
  <2>1. PayoutsAreLists /\ ContractLimits /\ TopicLimits
    BY DEF ServicesLimits, ChainLimits
  <2>2. Wallets!Spec /\ Contract!Spec => []BooksMatchTheChain
    BY <2>1, BooksStayRight
  <2>3. Topics!Spec => []WalletSessionsAreRight
    BY <2>1, WalletSessionsStayRight
  <2> QED  BY <2>2, <2>3, WalletsRun, ContractRun, TopicsRun
<1>6. Spec => []FilesMatchRecords /\ []DocumentsAreAsAsked
  <2>1. LogLimits /\ PageLimits
    BY DEF ServicesLimits, FileLimits, RecordLimits
  <2>2. Files!Spec /\ Dumps!Spec /\ Logs!Spec => []FilesMatchRecords
    BY <2>1, FilesStayRight
  <2>3. Sponsor!Spec /\ Statuses!Spec /\ Listed!Spec /\ Team!Spec => []DocumentsAreAsAsked
    BY <2>1, DocumentsStayRight
  <2> QED  BY <2>2, <2>3, FilesRun, DumpsRun, LogsRun, SponsorRun, StatusesRun, ListedRun,
              TeamRun
<1> QED  BY <1>1, <1>2, <1>3, <1>4, <1>5, <1>6, PTL
====
