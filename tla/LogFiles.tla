------------------------------ MODULE LogFiles ------------------------------
(***************************************************************************)
(* common/services/logger.service.ts: the buffer of the last entries and   *)
(* the files of a day.  A file is looked at, and renamed when it is too    *)
(* large, only when the service starts or enableFileLogging is called, so  *)
(* the file written to may be of an earlier day, and larger than it should.*)
(* Everything here is synchronous; what goes wrong takes several days.     *)
(***************************************************************************)
EXTENDS Integers, Sequences, FiniteSets

CONSTANTS
    keep,                      \* the 1000 entries of the buffer
    maxFileSize, maxFiles,     \* LoggerOptions; the size in entries
    MaxEntries, MaxDays, MaxTime   \* bounds

VARIABLES
    logToFile, currentLogFile,   \* the file: the day in its name
    logBuffer,
    files,       \* the log directory: [day, renamed, size, time]; renamed is 0 or when
    entries,     \* history: how many there have been, and which were cleared away
    cleared,
    removed,     \* history: times of the files that were removed
    today, now   \* now counts the writes too: no two have the same time

vars == <<logToFile, currentLogFile, logBuffer, files, entries, cleared, removed, today, now>>

Named(day) == {f \in files : f.day = day /\ f.renamed = 0}

-----------------------------------------------------------------------------
\* Of a set of files, those that maxFiles newer ones push out.
TooMany(fs) == {f \in fs : Cardinality({g \in fs : g.time > f.time}) >= maxFiles}

\* rotateLogFile: the file keeps its time when it is renamed.
Rotated ==
    {IF f.day = today /\ f.renamed = 0 /\ f.size >= maxFileSize
     THEN [f EXCEPT !.renamed = now] ELSE f : f \in files}

cleanOldLogFiles(fs) ==
    files' = fs \ TooMany(fs) /\ removed' = removed \cup {f.time : f \in TooMany(fs)}

rotateLogFile ==
    /\ currentLogFile' = today
    /\ cleanOldLogFiles(Rotated)

Init ==
    /\ logToFile \in BOOLEAN /\ today = 1
    /\ currentLogFile = IF logToFile THEN today ELSE 0
    /\ logBuffer = <<>> /\ files = {} /\ entries = 0 /\ cleared = 0 /\ removed = {} /\ now = 1

\* log, error, warn, debug and verbose: whatever the level, which nothing looks at.
Buffered == Append(IF Len(logBuffer) < keep THEN logBuffer ELSE Tail(logBuffer), entries + 1)

\* appendFileSync creates a file that is not there.
Appended(day) ==
    (files \ Named(day)) \cup
        {[day |-> day, renamed |-> 0, time |-> now,
          size |-> IF Named(day) = {} THEN 1 ELSE 1 + (CHOOSE f \in Named(day) : TRUE).size]}

writeLog ==
    /\ entries < MaxEntries /\ entries' = entries + 1 /\ now' = now + 1
    /\ logBuffer' = Buffered
    /\ files' = IF logToFile THEN Appended(currentLogFile) ELSE files
    /\ UNCHANGED <<logToFile, currentLogFile, cleared, removed, today>>

clearBuffer ==
    /\ logBuffer' = <<>> /\ cleared' = entries
    /\ UNCHANGED <<logToFile, currentLogFile, files, entries, removed, today, now>>

enableFileLogging ==
    /\ logToFile' = TRUE /\ rotateLogFile /\ now' = now + 1
    /\ UNCHANGED <<logBuffer, entries, cleared, today>>

disableFileLogging ==
    /\ logToFile' = FALSE
    /\ UNCHANGED <<currentLogFile, logBuffer, files, entries, cleared, removed, today, now>>

\* The process starts again with what is in the directory.
Restart ==
    /\ logBuffer' = <<>> /\ cleared' = entries /\ now' = now + 1
    /\ \/ logToFile' = TRUE /\ rotateLogFile
       \/ logToFile' = FALSE /\ currentLogFile' = 0 /\ UNCHANGED <<files, removed>>
    /\ UNCHANGED <<entries, today>>

NextDay ==
    /\ today' = today + 1
    /\ UNCHANGED <<logToFile, currentLogFile, logBuffer, files, entries, cleared, removed, now>>

Next ==
    \/ writeLog \/ clearBuffer \/ disableFileLogging
    \/ now < MaxTime /\ (enableFileLogging \/ Restart)
    \/ today < MaxDays /\ NextDay

Spec == Init /\ [][Next]_vars

-----------------------------------------------------------------------------
TypeOK ==
    /\ logToFile \in BOOLEAN /\ currentLogFile \in 0 .. today
    /\ logToFile => currentLogFile > 0
    /\ \A f \in files : f.day \in 1 .. today /\ f.renamed < now /\ f.time < now /\ f.size > 0

\* getLogs: the buffer is the last entries since it was cleared, in order.  There is one
\* file of a name, and there are never more than maxFiles and those that the writes since
\* the last rotation have made; a file that was removed is older than any that is there.
LogsAreKept ==
    /\ Len(logBuffer) <= keep
    /\ logBuffer = [i \in 1 .. Len(logBuffer) |-> entries - Len(logBuffer) + i]
    /\ entries - Len(logBuffer) > cleared => Len(logBuffer) = keep
    /\ Cardinality(files) <= maxFiles + 1
    /\ \A f, g \in files : f.day = g.day /\ f.renamed = g.renamed => f = g
    /\ \A t \in removed, f \in files : t < f.time
=============================================================================
