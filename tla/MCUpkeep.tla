------------------------------ MODULE MCUpkeep ------------------------------
(***************************************************************************)
(* Model checking what goes on beside the trading: which pairs are watched, *)
(* on what metadata, Watching; how the markets came out, Results; and the   *)
(* background jobs, Jobs.  They share no state here, so a behaviour is of   *)
(* one of them, and the others' variables stay as they began.              *)
(***************************************************************************)
EXTENDS Watching

CONSTANTS
    Kalshi, PMUS, Live, Values, Firsts, Batch,      \* Results'
    RefreshStages, Doublings                        \* Jobs'

VARIABLES
    part,                                           \* which of them
    truth, ledger, told, row, order, pass,          \* Results'
    stop, next, scheduler, run, stage, proc, loose, daemon, child, backoff      \* Jobs'

result == <<truth, ledger, told, row, order, pass>>
jobs == <<stop, next, scheduler, run, stage, proc, loose, daemon, child, backoff>>
all == <<part, vars, result, jobs>>

Result == INSTANCE Results
Job == INSTANCE Jobs WITH Stages <- RefreshStages, task <- run

ASSUME UpkeepAssumption == Job!AtLeastOneStage

MCInit == /\ Init /\ Result!Init /\ Job!Init
          /\ \/ part = "jobs"
             \/ part \in {"watching", "results"} /\ next = "due"

Watches(A) == part = "watching" /\ A /\ UNCHANGED <<part, result, jobs>>
Records(A) == part = "results" /\ A /\ UNCHANGED <<part, vars, jobs>>
Works(A) == part = "jobs" /\ A /\ UNCHANGED <<part, vars, result>>

MCNext == Watches(Next) \/ Records(Result!Next) \/ Works(Job!Next)

\* The fairness of each.
Fairness ==
    /\ WF_vars(part = "watching" /\ Tick) /\ WF_vars(part = "watching" /\ Refreshes)
    /\ \A v \in {"K", "P"} : WF_vars(part = "watching" /\ Ages(v))
    /\ WF_result(part = "results" /\ Result!Begins)
    /\ \A m \in Kalshi \cup PMUS :
         SF_result(part = "results" /\ \E of \in SUBSET (Kalshi \cup PMUS) : m \in of /\ Result!Saves(of))
    /\ WF_jobs(part = "jobs" /\ Job!Task) /\ WF_jobs(part = "jobs" /\ Job!Scheduler)
    /\ WF_jobs(part = "jobs" /\ Job!Keeper) /\ WF_jobs(part = "jobs" /\ Job!Due)
    /\ WF_jobs(part = "jobs" /\ Job!ProcEnds) /\ WF_jobs(part = "jobs" /\ Job!ChildEnds)

MCSpec == MCInit /\ [][MCNext]_all /\ Fairness

-----------------------------------------------------------------------------

\* Every pair in the file comes to be watched on what its markets are, and is retired only
\* when one is over (LiveScanner).
PairsWatched == [](TypeOK /\ NoneForgotten /\ RetiredRightly) /\ <>[](part = "watching" => Right)

\* Every market's result comes on record, and a live trade's as it was paid (ResultsRecorder).
Judged == []Result!TypeOK /\ <>[](part = "results" => Result!OnRecord)

\* The scanner never stops for good: refreshes go on, one at a time, and when told to, it stops.
Alive ==
    /\ [](Job!TypeOK /\ Job!OneRefresh)
    /\ (part = "jobs" /\ Job!Resting) ~> Job!Refreshing
    /\ (part = "jobs" /\ Job!Exited) ~> Job!StartsAgain
    /\ (part = "jobs" /\ stop) ~> Job!Stopped
=============================================================================
