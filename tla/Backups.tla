------------------------------ MODULE Backups ------------------------------
(***************************************************************************)
(* The backups of the databases, common/services/backup.service.ts: one    *)
(* createBackup at a time, which ends by deleting the backups that are too *)
(* many or too old, beside deleteBackup and restoreBackup calls.           *)
(***************************************************************************)
EXTENDS Integers, Sequences, FiniteSets

CONSTANTS
    maxBackups, retention,      \* BackupConfig; the age in ticks that is too old
    MaxCreated, MaxTime         \* bounds

VARIABLES
    backups,     \* ids in the map
    metadata,    \* the BackupMetadata of every backup made, which calls may still hold
    disk,        \* ids whose finished archive is on disk
    creating,    \* the createBackup call: backupInProgress
    deleting,    \* deleteBackup calls of users: the ids they remove
    restoring,   \* ids being restored
    now

vars == <<backups, metadata, disk, creating, deleting, restoring, now>>

Ids == 1 .. MaxCreated
Idle == [step |-> "idle", id |-> 0, listed |-> <<>>, todo |-> <<>>]

Init ==
    /\ backups = {} /\ metadata = <<>> /\ disk = {} /\ creating = Idle
    /\ deleting = {} /\ restoring = {} /\ now = 0

-----------------------------------------------------------------------------
CreateBackup ==
    /\ creating = Idle /\ Len(metadata) < MaxCreated
    /\ metadata' = Append(metadata, [status |-> "in_progress", timestamp |-> now])
    /\ backups' = backups \cup {Len(metadata')}
    /\ creating' = [Idle EXCEPT !.step = "dump", !.id = Len(metadata')]
    /\ UNCHANGED <<disk, deleting, restoring, now>>

\* Every database is dumped.
Dumped ==
    /\ creating.step = "dump" /\ creating' = [creating EXCEPT !.step = "compress"]
    /\ UNCHANGED <<backups, metadata, disk, deleting, restoring, now>>

\* listBackups, the newest first.
IsListedBefore(a, b) ==
    \/ metadata[a].timestamp > metadata[b].timestamp
    \/ metadata[a].timestamp = metadata[b].timestamp /\ a < b
Listed ==
    LET IsPlaced(b, i) == i = 1 + Cardinality({a \in backups : IsListedBefore(a, b)})
    IN  [i \in 1 .. Cardinality(backups) |-> CHOOSE b \in backups : IsPlaced(b, i)]
TooMany(list) == SubSeq(list, maxBackups + 1, Len(list))
TooOld(list) ==
    LET old == {id \in DOMAIN metadata : metadata[id].timestamp < now - retention}
        kept[i \in 0 .. Len(list)] ==
          IF i = 0 THEN <<>>
          ELSE IF list[i] \in old THEN Append(kept[i - 1], list[i]) ELSE kept[i - 1]
    IN  kept[Len(list)]

\* The archive is there and measured, and cleanupOldBackups lists what there is.
Compressed ==
    /\ creating.step = "compress" /\ disk' = disk \cup {creating.id}
    /\ metadata' = [metadata EXCEPT ![creating.id].status = "completed"]
    /\ creating' = [creating EXCEPT !.step = "cleanup", !.listed = Listed, !.todo = TooMany(Listed)]
    /\ UNCHANGED <<backups, deleting, restoring, now>>

\* The catch block: also for a backup that is complete, when its cleanup throws.
Failed ==
    /\ metadata' = [metadata EXCEPT ![creating.id].status = "failed"]
    /\ creating' = Idle
    /\ UNCHANGED <<backups, disk, deleting, restoring, now>>
CommandFailed == creating.step \in {"dump", "compress"} /\ Failed

\* The cleanup's deleteBackup, up to the removal of the files and after it.
CleanupDeletes ==
    /\ creating.step = "cleanup" /\ creating.todo # <<>>
    /\ IF Head(creating.todo) \notin backups THEN Failed
       ELSE /\ creating' = [creating EXCEPT !.step = "remove"]
            /\ disk' = disk \ {Head(creating.todo)}
            /\ UNCHANGED <<backups, metadata, deleting, restoring, now>>
CleanupDeleted ==
    /\ creating.step = "remove"
    /\ backups' = backups \ {Head(creating.todo)}
    /\ creating' = [creating EXCEPT !.step = "cleanup", !.todo = Tail(@)]
    /\ UNCHANGED <<metadata, disk, deleting, restoring, now>>
\* After the backups that are too many those that are too old, of the same list.
CleanupAge ==
    /\ creating.step = "cleanup" /\ creating.todo = <<>>
    /\ LET old == TooOld(creating.listed)
       IN  creating' = IF old = <<>> THEN Idle
                       ELSE [creating EXCEPT !.todo = old, !.listed = <<>>]
    /\ UNCHANGED <<backups, metadata, disk, deleting, restoring, now>>

\* deleteBackup: of a backup in progress there is no path yet, and no file goes.
DeleteBackup(id) ==
    /\ id \in backups /\ id \notin deleting
    /\ deleting' = deleting \cup {id} /\ disk' = disk \ {id}
    /\ UNCHANGED <<backups, metadata, creating, restoring, now>>
Deleted(id) ==
    /\ id \in deleting /\ deleting' = deleting \ {id} /\ backups' = backups \ {id}
    /\ UNCHANGED <<metadata, disk, creating, restoring, now>>

\* restoreBackup reads the archive some time after it looked at the status.
RestoreBackup(id) ==
    /\ id \in backups /\ metadata[id].status = "completed"
    /\ restoring' = restoring \cup {id}
    /\ UNCHANGED <<backups, metadata, disk, creating, deleting, now>>
Restored(id) ==
    /\ id \in restoring /\ restoring' = restoring \ {id}
    /\ UNCHANGED <<backups, metadata, disk, creating, deleting, now>>

\* Date.now(), up to the bound.
Tick == now < MaxTime /\ now' = now + 1
        /\ UNCHANGED <<backups, metadata, disk, creating, deleting, restoring>>

Next ==
    \/ CreateBackup \/ Dumped \/ Compressed \/ CommandFailed
    \/ CleanupDeletes \/ CleanupDeleted \/ CleanupAge
    \/ \E id \in Ids : DeleteBackup(id) \/ Deleted(id) \/ RestoreBackup(id) \/ Restored(id)
    \/ Tick

Spec == Init /\ [][Next]_vars

-----------------------------------------------------------------------------
TypeOK ==
    /\ backups \subseteq Ids /\ disk \subseteq Ids
    /\ metadata \in Seq([status : {"in_progress", "completed", "failed"}, timestamp : 0 .. MaxTime])
    /\ creating.step \in {"idle", "dump", "compress", "cleanup", "remove"}
    /\ creating.id \in 0 .. MaxCreated
    /\ creating.listed \in Seq(Ids) /\ creating.todo \in Seq(Ids)
    /\ deleting \subseteq Ids /\ restoring \subseteq Ids /\ now \in 0 .. MaxTime

\* What restoreBackup relies on: a backup that is listed as completed has its archive,
\* unless a deletion of it is on its way; backups that are created, cleaned up and
\* deleted at once do not change that.
CompletedHasArchive ==
    \A id \in backups :
        metadata[id].status = "completed" =>
            \/ id \in disk \/ id \in deleting
            \/ creating.step = "remove" /\ id = Head(creating.todo)

=============================================================================
