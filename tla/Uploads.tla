------------------------------ MODULE Uploads ------------------------------
(***************************************************************************)
(* Uploaded files, common/services/file-upload.service.ts: a map of        *)
(* records and the files on disk.  A file is named after the millisecond   *)
(* and a hash of its original name and the millisecond, so an id is that   *)
(* pair.  Each write and each unlink takes effect on the disk before the   *)
(* service goes on from it.                                                *)
(***************************************************************************)
EXTENDS Integers, FiniteSets

CONSTANTS Names, MaxUploads, MaxTime    \* original names; bounds

VARIABLES
    uploads,     \* ids with a record
    disk,        \* ids with a file
    saving,      \* uploadFile calls: [id, written]
    deleting,    \* deleteFile calls: [id, unlinked]
    given,       \* history: ids given to an upload
    clashed,     \* history: ids given to a second upload, or left by a failed write
    count, now   \* uploads so far, the clock

vars == <<uploads, disk, saving, deleting, given, clashed, count, now>>

Ids == Names \X (0 .. MaxTime)

Init ==
    /\ uploads = {} /\ disk = {} /\ saving = {} /\ deleting = {} /\ given = {} /\ clashed = {}
    /\ count = 0 /\ now = 0

-----------------------------------------------------------------------------
\* generateFileId.
FileId(name) == <<name, now>>

\* uploadFile, for a file whose size and type are allowed: it starts to write.
UploadFile(name) ==
    /\ count < MaxUploads /\ count' = count + 1
    /\ saving' = saving \cup {[id |-> FileId(name), no |-> count', written |-> FALSE]}
    /\ given' = given \cup {FileId(name)}
    /\ clashed' = clashed \cup (given \cap {FileId(name)})
    /\ UNCHANGED <<uploads, disk, deleting, now>>
Written(w) ==
    /\ ~w.written /\ disk' = disk \cup {w.id}
    /\ saving' = (saving \ {w}) \cup {[w EXCEPT !.written = TRUE]}
    /\ UNCHANGED <<uploads, deleting, given, clashed, count, now>>
\* The write fails, before or after it made the file: the caller is told that the upload
\* failed and nothing removes the file.
WriteFailed(w) ==
    /\ ~w.written /\ saving' = saving \ {w}
    /\ \/ disk' = disk \cup {w.id} /\ clashed' = clashed \cup {w.id}
       \/ UNCHANGED <<disk, clashed>>
    /\ UNCHANGED <<uploads, deleting, given, count, now>>
Uploaded(w) ==
    /\ w.written /\ saving' = saving \ {w} /\ uploads' = uploads \cup {w.id}
    /\ UNCHANGED <<disk, deleting, given, clashed, count, now>>

\* deleteFile up to its unlink; cleanupOldFiles calls it for the old ids one by one.
DeleteFile(id) ==
    /\ id \in uploads /\ Cardinality(deleting) < MaxUploads
    /\ deleting' = deleting \cup
         {[id |-> id, no |-> Cardinality(deleting), unlinked |-> FALSE]}
    /\ UNCHANGED <<uploads, disk, saving, given, clashed, count, now>>
Unlinked(d) ==
    /\ ~d.unlinked /\ d.id \in disk /\ disk' = disk \ {d.id}
    /\ deleting' = (deleting \ {d}) \cup {[d EXCEPT !.unlinked = TRUE]}
    /\ UNCHANGED <<uploads, saving, given, clashed, count, now>>
Deleted(d) ==
    /\ d.unlinked /\ deleting' = deleting \ {d} /\ uploads' = uploads \ {d.id}
    /\ UNCHANGED <<disk, saving, given, clashed, count, now>>
\* Mutant: the record goes although the file could not be removed.
ForgetsAnyway(d) ==
    /\ ~d.unlinked /\ deleting' = deleting \ {d} /\ uploads' = uploads \ {d.id}
    /\ UNCHANGED <<disk, saving, given, clashed, count, now>>
\* The unlink fails, for a file that is gone or for another reason.
UnlinkFailed(d) ==
    /\ ~d.unlinked /\ deleting' = deleting \ {d}
    /\ UNCHANGED <<uploads, disk, saving, given, clashed, count, now>>

\* Date.now(), up to the bound.
Tick == now < MaxTime /\ now' = now + 1
        /\ UNCHANGED <<uploads, disk, saving, deleting, given, clashed, count>>

Next ==
    \/ \E n \in Names : UploadFile(n)
    \/ \E w \in saving : Written(w) \/ WriteFailed(w) \/ Uploaded(w)
    \/ \E id \in Ids : DeleteFile(id)
    \/ \E d \in deleting : Unlinked(d) \/ Deleted(d) \/ UnlinkFailed(d)
    \/ Tick

Spec == Init /\ [][Next]_vars

-----------------------------------------------------------------------------
TypeOK ==
    /\ uploads \subseteq Ids /\ disk \subseteq Ids /\ given \subseteq Ids /\ clashed \subseteq given
    /\ saving \subseteq [id : Ids, no : 1 .. MaxUploads, written : BOOLEAN]
    /\ deleting \subseteq [id : Ids, no : 0 .. MaxUploads, unlinked : BOOLEAN]
    /\ count \in 0 .. MaxUploads /\ now \in 0 .. MaxTime

\* Whatever overlapping deletions and failed unlinks do, a record has its file and a file
\* has its record, but for those an upload or a deletion is just working on, those left
\* by a failed write, and ids that two uploads of one millisecond share.
RecordsMatchFiles ==
    \A id \in Ids \ clashed :
        /\ id \in uploads \ disk => \E d \in deleting : d.id = id /\ d.unlinked
        /\ id \in disk \ uploads => \E w \in saving : w.id = id /\ w.written

=============================================================================
