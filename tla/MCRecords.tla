----------------------------- MODULE MCRecords -----------------------------
(***************************************************************************)
(* Model checking the order journal, Journal; the raw history in SQLite,    *)
(* Retention; and the pace of the calls to a venue, RateLimiter.  They      *)
(* share no state, so a behaviour is of one of them, and the others'        *)
(* variables stay as they began.                                           *)
(***************************************************************************)
EXTENDS Journal

CONSTANTS
    Raw, Settings, Floor, Step, Batch, MaxNow, MaxQueue,    \* Retention's
    MaxCapped,                                              \* a bound of the model: hours that pass if there is a cap
    Interval, Waits, LastTick                               \* RateLimiter's

VARIABLES
    part,                                                                       \* which of them
    setting, now, queue, txn, writer, rows, halt, at, pass, emptied, late,      \* Retention's
    clock, next, wake, last, quiet, slipped                                     \* RateLimiter's

history == <<setting, now, queue, txn, writer, rows, halt, at, pass, emptied, late>>
pace == <<clock, next, wake, last, quiet, slipped>>
all == <<part, vars, history, pace>>

\* Two tables, pruned by age alone or by age and size; the last day is one hour here, and
\* every transaction deletes one row.
MCRaw == <<1, 2>>
MCSettings == {[keep |-> 1, cap |-> 0], [keep |-> 2, cap |-> 2]}

Pruned == INSTANCE Retention
Paces == INSTANCE RateLimiter WITH now <- clock, MaxNow <- LastTick

ASSUME RecordsAssumption == Pruned!SizesFit /\ Paces!PaceFits

MCInit ==
    /\ Init /\ Pruned!Init /\ Paces!Init
    /\ part = "raw" \/ (part \in {"journal", "pace"} /\ setting.cap = 0)

MCNext ==
    \/ part = "journal" /\ Next /\ UNCHANGED <<part, history, pace>>
    \/ part = "raw" /\ Pruned!Next /\ (setting.cap > 0 => now' <= MaxCapped)
       /\ UNCHANGED <<part, vars, pace>>
    \/ part = "pace" /\ Paces!Next /\ UNCHANGED <<part, vars, history>>

MCSpec == MCInit /\ [][MCNext]_all /\ WF_history(part = "raw" /\ Pruned!PrunerStep)

-----------------------------------------------------------------------------

\* Pruning deletes only rows older than keep_raw_days, or for the cap than the last day, as long
\* as the pass hasn't deleted every row of the table; and a pass that runs to its end leaves no
\* row older than keep_raw_days, and stops within a batch when told to (retention.prune).
OldUnlessEmptied ==
    /\ [][part = "raw" => Pruned!DeletesOldUnlessEmptied /\ Pruned!LeavesNothingOld]_all
    /\ [](part = "raw" => Pruned!TypeOK /\ Pruned!StopsWithinABatch)

\* Every pass ends, however much is written meanwhile, or empties a table (retention.prune).
PassEnds == part = "raw" => Pruned!PassEnds

\* Calls to a venue keep their distance, and its requests for quiet, except for one that was
\* already waiting for its turn (RateLimiter).
Paced == /\ [][part = "pace" => Paces!KeepsDistance]_all
         /\ [](part = "pace" => Paces!TypeOK /\ Paces!OneSlips)
=============================================================================
