----------------------------- MODULE Scheduler -----------------------------
(***************************************************************************)
(* The scheduler, common/services/scheduler.service.ts.  The maps of tasks *)
(* and of timers are keyed by the task's id; the callback of a timer holds *)
(* the task object it was started for, which may have been replaced in the *)
(* map, and goes on after its handler's await.                             *)
(***************************************************************************)
EXTENDS Integers, Sequences, FiniteSets, SequencesExt

CONSTANTS
    Ids, CronPatterns,             \* <<minute, hour>>, each a number or Star
    HourLength, DayLength,         \* minutes of an hour, and of a day
    MaxTasks, MaxTimers, MaxRuns, MaxTime   \* bounds

VARIABLES
    objects,     \* the task objects ever made
    tasks,       \* id -> its object's number, the map
    timers,      \* id -> its timer's number, the map
    started,     \* every timer ever started: [id, kind, task]
    live,        \* the timers that will fire (again)
    runs,        \* the executeTask calls at their await: [id, kind, task]
    isRunning, clock

vars == <<objects, tasks, timers, started, live, runs, isRunning, clock>>

Star == -1       \* "*" of a cron expression
NoPattern == <<Star, Star>>
Kinds == {"interval", "cron", "once"}
ScheduledTask ==
    [kind : Kinds, pattern : CronPatterns \cup {NoPattern}, enabled : BOOLEAN, nextRun : Nat]
Work == [id : Ids, kind : Kinds \cup {"now"}, task : 1 .. MaxTasks]

Init ==
    /\ objects = <<>> /\ tasks = <<>> /\ timers = <<>>
    /\ started = <<>> /\ live = {} /\ runs = <<>>
    /\ isRunning = FALSE /\ clock = 0

-----------------------------------------------------------------------------
Put(f, k, v) == [x \in DOMAIN f \cup {k} |-> IF x = k THEN v ELSE f[x]]
Drop(f, k) == [x \in DOMAIN f \ {k} |-> f[x]]

\* The time the target comes round next in the cycle, strictly after now.
NextAt(target, cycle, now) ==
    LET t == (now \div cycle) * cycle + target IN IF t <= now THEN t + cycle ELSE t
\* A star for the minute hides the hour.
getNextCronRun(p, now) ==
    IF p[1] = Star THEN now + 1
    ELSE IF p[2] = Star THEN NextAt(p[1], HourLength, now)
    ELSE NextAt(p[2] * HourLength + p[1], DayLength, now)

\* setInterval or setTimeout; the entry of the map is overwritten, its timer not cleared.
StartTimer(id, kind, task) ==
    /\ Len(started) < MaxTimers
    /\ started' = Append(started, [id |-> id, kind |-> kind, task |-> task])
    /\ live' = live \cup {Len(started) + 1}
    /\ timers' = Put(timers, id, Len(started) + 1)

\* scheduleInterval and scheduleCron refuse an id that exists; scheduleOnce does not.
Schedule(id, kind, p) ==
    /\ Len(objects) < MaxTasks
    /\ kind # "once" => id \notin DOMAIN tasks
    /\ objects' = Append(objects,
          [kind |-> kind, pattern |-> p, enabled |-> TRUE,
           nextRun |-> IF kind = "cron" THEN getNextCronRun(p, clock) ELSE 0])
    /\ tasks' = Put(tasks, id, Len(objects) + 1)
    /\ StartTimer(id, kind, Len(objects) + 1)
    /\ UNCHANGED <<runs, isRunning, clock>>

\* What follows the await of executeTask in the callback that called it.
AfterRun(w) ==
    /\ objects' = IF w.kind # "cron" THEN objects
                  ELSE [objects EXCEPT ![w.task].nextRun =
                            getNextCronRun(objects[w.task].pattern, clock)]
    /\ tasks' = IF w.kind = "once" THEN Drop(tasks, w.id) ELSE tasks
    /\ timers' = IF w.kind = "once" THEN Drop(timers, w.id) ELSE timers

\* executeTask: the object in the map runs, if there is one.
executeTask(w) ==
    /\ IF w.id \in DOMAIN tasks
       THEN /\ Len(runs) < MaxRuns
            /\ runs' = Append(runs, [w EXCEPT !.task = tasks[w.id]])
            /\ UNCHANGED <<objects, tasks, timers>>
       ELSE AfterRun(w) /\ runs' = runs
    /\ UNCHANGED <<started, isRunning, clock>>

\* A timer fires: the guards are about the object it was started for.
Fire(n) ==
    LET w == started[n] IN
    /\ n \in live
    /\ live' = IF w.kind = "once" THEN live \ {n} ELSE live
    /\ w.kind # "once" => isRunning /\ objects[w.task].enabled
    /\ w.kind = "cron" => clock >= objects[w.task].nextRun
    /\ executeTask(w)

runNow(id) ==
    /\ executeTask([id |-> id, kind |-> "now", task |-> 1])
    /\ UNCHANGED live

\* The handler of a run ends, well or badly: only a counter tells.
Finish(i) ==
    /\ i \in DOMAIN runs
    /\ AfterRun(runs[i])
    /\ runs' = RemoveAt(runs, i)
    /\ UNCHANGED <<started, live, isRunning, clock>>

Disabled(ids) ==
    [o \in DOMAIN objects |->
        IF \E id \in ids \cap DOMAIN tasks : tasks[id] = o
        THEN [objects[o] EXCEPT !.enabled = FALSE] ELSE objects[o]]

\* Mutant: the task is not disabled.
StopTimerOnly(ids) ==
    /\ live' = live \ {timers[id] : id \in ids \cap DOMAIN timers}
    /\ timers' = [id \in DOMAIN timers \ ids |-> timers[id]]
    /\ objects' = objects
\* stop and stopAll: the timers the map knows are cleared.
Stop(ids) ==
    /\ live' = live \ {timers[id] : id \in ids \cap DOMAIN timers}
    /\ timers' = [id \in DOMAIN timers \ ids |-> timers[id]]
    /\ objects' = Disabled(ids)

stop(id) == Stop({id}) /\ UNCHANGED <<tasks, started, runs, isRunning, clock>>
remove(id) ==
    /\ Stop({id}) /\ tasks' = Drop(tasks, id)
    /\ UNCHANGED <<started, runs, isRunning, clock>>
stopAll == Stop(Ids) /\ UNCHANGED <<tasks, started, runs, isRunning, clock>>
onModuleDestroy ==
    /\ isRunning /\ isRunning' = FALSE
    /\ Stop(Ids) /\ UNCHANGED <<tasks, started, runs, clock>>
onModuleInit ==
    /\ ~isRunning /\ isRunning' = TRUE
    /\ UNCHANGED <<objects, tasks, timers, started, live, runs, clock>>

\* A one-time task has a number for its schedule, and comes back as an interval.
resume(id) ==
    /\ id \in DOMAIN tasks
    /\ objects' = [objects EXCEPT ![tasks[id]].enabled = TRUE]
    /\ StartTimer(id, IF objects[tasks[id]].kind = "cron" THEN "cron" ELSE "interval", tasks[id])
    /\ UNCHANGED <<tasks, runs, isRunning, clock>>

Tick ==
    /\ clock < MaxTime /\ clock' = clock + 1
    /\ UNCHANGED <<objects, tasks, timers, started, live, runs, isRunning>>

Next ==
    \/ \E id \in Ids :
          \/ \E p \in CronPatterns : Schedule(id, "cron", p)
          \/ \E kind \in {"interval", "once"} : Schedule(id, kind, NoPattern)
          \/ stop(id) \/ remove(id) \/ resume(id) \/ runNow(id)
    \/ \E n \in 1 .. MaxTimers : n \in live /\ Fire(n)
    \/ \E i \in 1 .. MaxRuns : Finish(i)
    \/ stopAll \/ onModuleInit \/ onModuleDestroy \/ Tick

Spec == Init /\ [][Next]_vars

-----------------------------------------------------------------------------
getActiveTasks == {id \in DOMAIN tasks : objects[tasks[id]].enabled}

TypeOK ==
    /\ objects \in Seq(ScheduledTask)
    /\ DOMAIN tasks \subseteq Ids /\ DOMAIN timers \subseteq Ids
    /\ started \in Seq(Work) /\ live \subseteq DOMAIN started
    /\ runs \in Seq(Work)
    /\ isRunning \in BOOLEAN /\ clock \in 0 .. MaxTime

\* A task the service shows as active has a timer that the map knows, and that timer
\* will fire again or is the one-time timer whose handler is running: stops, resumes,
\* reused ids and handlers that end late do not leave an active task that never runs.
ActiveTaskHasTimer ==
    \A id \in getActiveTasks :
        /\ id \in DOMAIN timers
        /\ \/ timers[id] \in live
           \/ \E i \in DOMAIN runs : runs[i].id = id /\ runs[i].kind = "once"

\* A timer of an interval or cron task that no map entry leads to any more, because
\* its id was scheduled or resumed again, starts nothing once the task is stopped.
StoppedIsQuiet ==
    \A n \in live :
        started[n].kind # "once" /\ started[n].task \in {tasks[id] : id \in DOMAIN tasks}
            /\ started[n].id \notin DOMAIN timers
        => ~objects[started[n].task].enabled
=============================================================================
