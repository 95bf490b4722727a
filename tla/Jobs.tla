-------------------------------- MODULE Jobs --------------------------------
(***************************************************************************)
(* The background work of the service, in processes of its own              *)
(* (arbscan/jobs.py): the refresh, one subprocess per stage, on a schedule  *)
(* or when someone asks for it, and the discovery service, a Daemon that is *)
(* started again whenever it exits.                                         *)
(*                                                                         *)
(* Time is whether what is waited for has come.  A subprocess ends by       *)
(* itself, well or badly, when it is told to, or not at all.                *)
(***************************************************************************)
EXTENDS Naturals

CONSTANTS
    Stages,     \* how many stages a refresh has
    Doublings   \* how often the Daemon's backoff doubles before MAX_BACKOFF_S

AtLeastOneStage == {Stages, Doublings} \subseteq Nat /\ Stages > 0

VARIABLES
    stop,       \* the service's stop event
    next,       \* next_run: "none" when not set, "later", or "due"
    scheduler,  \* "waits", "watches" the task, "cancels" it, or "gone"
    task,       \* RefreshJob._task: "idle" when there is none running, else where it is
    stage,      \* the stage it is at
    proc,       \* the state of the process _proc is
    loose,      \* the refresh's processes that still run and that no task waits for
    daemon,     \* where Daemon.run is
    child,      \* the state of its process
    backoff     \* how often its wait has doubled

refresh == <<next, scheduler, task, stage, proc, loose>>
keeper == <<daemon, child, backoff>>
vars == <<stop, refresh, keeper>>

-----------------------------------------------------------------------------

Running == {"runs", "hangs"}
Ended == {"well", "badly"}

TypeOK ==
    /\ stop \in BOOLEAN
    /\ next \in {"none", "later", "due"}
    /\ scheduler \in {"waits", "watches", "cancels", "gone"}
    /\ task \in {"idle", "spawns", "reads"} /\ stage \in 0..Stages
    /\ (task = "reads") = (proc # "none") /\ proc \in Running \cup Ended \cup {"none"}
    /\ loose \in Nat
    /\ daemon \in {"starts", "runs", "stops", "waits", "gone"}
    /\ child \in Running \cup Ended \cup {"none"} /\ backoff \in 0..Doublings

\* scheduler's start: at once if the catalog is missing or old, else when it is an interval old.
Init ==
    /\ stop = FALSE /\ next \in {"later", "due"} /\ scheduler = "waits"
    /\ task = "idle" /\ stage = 0 /\ proc = "none" /\ loose = 0
    /\ daemon = "starts" /\ child = "none" /\ backoff = 0

-----------------------------------------------------------------------------
(* The refresh *)

\* not running
Idle == task = "idle"

\* _run begins; a process that was read before runs on.
Begins ==
    /\ task' = "spawns" /\ stage' = 1 /\ proc' = "none"
    /\ loose' = IF proc \in Running THEN loose + 1 ELSE loose

\* Someone asks for one.
Trigger ==
    /\ Idle /\ scheduler # "gone"
    /\ Begins
    /\ UNCHANGED <<stop, next, scheduler, keeper>>

\* Mutant of NextRun: a failed refresh doesn't set the time of the next.
NextRunIfOk(ok) == IF ok THEN "later" ELSE "none"

\* _schedule_next: an interval later, or sooner if it failed.
NextRun(ok) == "later"

Finish(ok) == task' = "idle" /\ stage' = 0 /\ proc' = "none" /\ next' = NextRun(ok)

\* A stage's process is started, or can't be.
Spawn ==
    /\ task = "spawns"
    /\ \/ proc' \in Running /\ task' = "reads" /\ UNCHANGED <<next, stage>>
       \/ Finish(FALSE)
    /\ UNCHANGED <<stop, scheduler, loose, keeper>>

ProcEnds ==
    /\ proc = "runs" /\ proc' \in Ended
    /\ UNCHANGED <<stop, next, scheduler, task, stage, loose, keeper>>

\* The next stage, or the end: after the last, or one that failed.
StageEnds ==
    /\ task = "reads" /\ proc \in Ended
    /\ IF proc = "well" /\ stage < Stages
       THEN task' = "spawns" /\ stage' = stage + 1 /\ proc' = "none" /\ UNCHANGED next
       ELSE Finish(proc = "well")
    /\ UNCHANGED <<stop, scheduler, loose, keeper>>

LooseEnds ==
    /\ loose > 0 /\ loose' = loose - 1
    /\ UNCHANGED <<stop, next, scheduler, task, stage, proc, keeper>>

Due ==
    /\ next = "later" /\ next' = "due"
    /\ UNCHANGED <<stop, scheduler, task, stage, proc, loose, keeper>>

\* scheduler: it looks once a minute, and sees a refresh through.
Schedule ==
    /\ scheduler = "waits" /\ ~stop
    /\ IF next = "due" /\ Idle
       THEN Begins /\ scheduler' = "watches"
       ELSE /\ scheduler' = (IF task = "idle" THEN "waits" ELSE "watches")
            /\ UNCHANGED <<task, stage, proc, loose>>
    /\ UNCHANGED <<stop, next, keeper>>

Watch ==
    /\ scheduler = "watches" /\ (task = "idle" \/ stop)
    /\ scheduler' = "waits"
    /\ UNCHANGED <<stop, next, task, stage, proc, loose, keeper>>

\* cancel: the process is told to end, which most do, and the task has ten seconds.  In between
\* two stages there is no process to tell.
Cancel ==
    /\ scheduler = "waits" /\ stop
    /\ proc' \in IF proc \in Running THEN {proc, "badly"} ELSE {proc}
    /\ scheduler' = IF task = "idle" THEN "gone" ELSE "cancels"
    /\ UNCHANGED <<stop, next, task, stage, loose, keeper>>

\* The ten seconds may pass at any time.
Patience == TRUE

\* What still runs of it runs on.
Cancelled ==
    /\ scheduler = "cancels" /\ Patience
    /\ scheduler' = "gone" /\ task' = "idle" /\ stage' = 0 /\ proc' = "none"
    /\ loose' = IF proc \in Running THEN loose + 1 ELSE loose
    /\ UNCHANGED <<stop, next, keeper>>

-----------------------------------------------------------------------------
(* The Daemon *)

BacksOff(b) == daemon' = "waits" /\ backoff' = b

DaemonStarts ==
    /\ daemon = "starts" /\ ~stop
    /\ \/ daemon' = "runs" /\ child' \in Running /\ UNCHANGED backoff
       \/ BacksOff(backoff) /\ UNCHANGED child
    /\ UNCHANGED <<stop, refresh>>

ChildEnds ==
    /\ child = "runs" /\ child' \in Ended
    /\ UNCHANGED <<stop, refresh, daemon, backoff>>

\* It exited: the wait starts small again if it had been running for ten minutes.
DaemonNotes ==
    /\ daemon = "runs" /\ child \in Ended /\ ~stop
    /\ BacksOff(backoff) \/ BacksOff(0)
    /\ child' = "none"
    /\ UNCHANGED <<stop, refresh>>

\* The next wait is twice as long, up to a limit.
DaemonAgain ==
    /\ daemon = "waits" /\ ~stop
    /\ daemon' = "starts"
    /\ backoff' = IF backoff < Doublings THEN backoff + 1 ELSE backoff
    /\ UNCHANGED <<stop, refresh, child>>

\* At the stop the process is told to end, and killed if it doesn't.
DaemonStops ==
    /\ stop
    /\ \/ daemon = "runs" /\ child \in Running /\ daemon' = "stops" /\ UNCHANGED child
       \/ daemon \in {"starts", "waits"} /\ daemon' = "gone" /\ UNCHANGED child
       \/ daemon = "runs" /\ child \in Ended /\ daemon' = "gone" /\ child' = "none"
       \/ daemon = "stops" /\ daemon' = "gone" /\ child' = "none"
    /\ UNCHANGED <<stop, refresh, backoff>>

Stop ==
    /\ ~stop /\ stop' = TRUE
    /\ UNCHANGED <<refresh, keeper>>

-----------------------------------------------------------------------------

\* The coroutines.
Task == Spawn \/ StageEnds
Scheduler == Schedule \/ Watch \/ Cancel \/ Cancelled
Keeper == DaemonStarts \/ DaemonNotes \/ DaemonAgain \/ DaemonStops

Next == Trigger \/ ProcEnds \/ LooseEnds \/ ChildEnds \/ Stop \/ Due \/ Task \/ Scheduler \/ Keeper

\* The event loop runs what is ready, the waits end, and a process that doesn't hang ends.
Fairness ==
    /\ WF_vars(Task) /\ WF_vars(Scheduler) /\ WF_vars(Keeper) /\ WF_vars(Due)
    /\ WF_vars(ProcEnds) /\ WF_vars(ChildEnds)

Spec == Init /\ [][Next]_vars /\ Fairness

-----------------------------------------------------------------------------

\* While the service runs there is one refresh at a time, whoever asks for it.
OneRefresh == scheduler # "gone" => loose = 0

\* A refresh is followed by another, whether it failed or couldn't be started, as long as its
\* processes end; and a discovery service that exits is started again.
Resting == task = "idle" /\ ~stop
Refreshing == task = "reads" \/ stop \/ (task = "spawns" /\ stage = 1)
Exited == daemon = "waits" /\ ~stop
StartsAgain == daemon = "starts" \/ stop

\* The service stops, even if a stage hangs or doesn't heed its SIGTERM, or is just starting;
\* and the discovery service's process doesn't outlive it.
Stopped == scheduler = "gone" /\ task = "idle" /\ daemon = "gone" /\ child = "none"
=============================================================================
