---------------------------- MODULE AuditBuffer ----------------------------
(***************************************************************************)
(* The audit log, common/services/audit.service.ts: entries wait in a      *)
(* buffer that is flushed every five seconds, when it is full, and for     *)
(* every critical entry; flushes overlap, and one that fails puts its      *)
(* entries back.  Entries are numbered in the order of their timestamps.   *)
(***************************************************************************)
EXTENDS Integers, Sequences, FiniteSets

CONSTANTS
    bufferLimit,
    MaxEntries, MaxFailures     \* bounds

VARIABLES
    logged,      \* number of entries
    buffer,
    flushing,    \* flushBuffer calls that await insertMany, in their order of calling
    stored,      \* copies of every entry in the collection
    removed,     \* entries that archiveLogs or clearLogs may have deleted
    ticking,     \* the flush interval runs
    failures

vars == <<logged, buffer, flushing, stored, removed, ticking, failures>>

Entries == 1 .. MaxEntries

Init ==
    /\ logged = 0 /\ buffer = <<>> /\ flushing = <<>> /\ stored = [e \in Entries |-> 0]
    /\ removed = {} /\ ticking = TRUE /\ failures = 0

-----------------------------------------------------------------------------
\* flushBuffer up to its await, on the buffer b; "again" is for a log call that goes on
\* to flush for its own critical entry.
FlushBuffer(b, rest, again) ==
    IF b = <<>> THEN buffer' = <<>> /\ flushing' = rest
    ELSE buffer' = <<>> /\ flushing' = Append(rest, [logs |-> b, again |-> again])

\* The severities that the log methods give their entries.
Severities ==
    [authentication |-> {"high", "medium"}, authorization |-> {"medium", "low"},
     dataAccess |-> {"low"}, dataModification |-> {"medium"}, dataDeletion |-> {"high"},
     payment |-> {"critical"}, security |-> {"low", "medium", "high", "critical"}]

Log(severity) ==
    /\ logged < MaxEntries /\ logged' = logged + 1
    /\ LET b == Append(buffer, logged')
       IN  IF Len(b) >= bufferLimit THEN FlushBuffer(b, flushing, severity = "critical")
           ELSE IF severity = "critical" THEN FlushBuffer(b, flushing, FALSE)
           ELSE buffer' = b /\ UNCHANGED flushing
    /\ UNCHANGED <<stored, removed, ticking, failures>>

FlushInterval ==
    /\ ticking /\ buffer # <<>> /\ FlushBuffer(buffer, flushing, FALSE)
    /\ UNCHANGED <<logged, stored, removed, ticking, failures>>

Without(i) == SubSeq(flushing, 1, i - 1) \o SubSeq(flushing, i + 1, Len(flushing))

\* insertMany of the first n entries of a flush.
Stored(logs, n) ==
    [e \in Entries |-> stored[e] + Cardinality({j \in 1 .. n : logs[j] = e})]

\* The end of a flush that leaves the buffer b, and the second flush of its caller.
Ended(i, b) ==
    IF flushing[i].again THEN FlushBuffer(b, Without(i), FALSE)
    ELSE buffer' = b /\ flushing' = Without(i)

Flushed(i) ==
    /\ stored' = Stored(flushing[i].logs, Len(flushing[i].logs))
    /\ Ended(i, buffer)
    /\ UNCHANGED <<logged, removed, ticking, failures>>

PutBack(i) == Ended(i, buffer \o flushing[i].logs)
\* insertMany is ordered: it fails at one entry and has stored those before it, or the
\* answer is lost and it has stored them all.
FlushFailed(i) ==
    /\ failures < MaxFailures /\ failures' = failures + 1
    /\ \E n \in 0 .. Len(flushing[i].logs) : stored' = Stored(flushing[i].logs, n)
    /\ PutBack(i)
    /\ UNCHANGED <<logged, removed, ticking>>

\* archiveLogs, of everything older than the entry e, or clearLogs.
Delete(e) ==
    /\ \E f \in Entries : f < e /\ stored[f] > 0
    /\ stored' = [f \in Entries |-> IF f < e THEN 0 ELSE stored[f]]
    /\ removed' = removed \cup {f \in Entries : f < e /\ stored[f] > 0}
    /\ UNCHANGED <<logged, buffer, flushing, ticking, failures>>

\* onModuleDestroy does not wait for its flush.
Destroy ==
    /\ ticking /\ ticking' = FALSE
    /\ FlushBuffer(buffer, flushing, FALSE)
    /\ UNCHANGED <<logged, stored, removed, failures>>

Next ==
    \/ \E event \in DOMAIN Severities : \E s \in Severities[event] : Log(s)
    \/ FlushInterval \/ Destroy
    \/ \E i \in DOMAIN flushing : Flushed(i) \/ FlushFailed(i)
    \/ \E e \in 2 .. MaxEntries + 1 : Delete(e)

Spec == Init /\ [][Next]_vars

-----------------------------------------------------------------------------
TypeOK ==
    /\ logged \in 0 .. MaxEntries
    /\ buffer \in Seq(Entries)
    /\ flushing \in Seq([logs : Seq(Entries), again : BOOLEAN])
    /\ stored \in [Entries -> 0 .. MaxFailures + 1]
    /\ removed \subseteq Entries /\ ticking \in BOOLEAN /\ failures \in 0 .. MaxFailures

\* However flushes overlap and fail, no entry is lost while the process runs: each is in
\* the buffer or in one flush, once, or in the collection unless it was deleted there; and
\* only an insertMany that failed half-way makes a second copy of an entry.
EveryEntryIsKept ==
    LET Copies(e) == Cardinality({j \in DOMAIN buffer : buffer[j] = e})
                     + Cardinality({ij \in (DOMAIN flushing) \X Entries :
                          ij[2] <= Len(flushing[ij[1]].logs) /\ flushing[ij[1]].logs[ij[2]] = e})
    IN  \A e \in 1 .. logged :
          /\ Copies(e) <= 1
          /\ Copies(e) = 1 \/ stored[e] > 0 \/ e \in removed
          /\ stored[e] + Copies(e) <= 1 + failures

=============================================================================
