----------------------------- MODULE Retention -----------------------------
(***************************************************************************)
(* The raw history tables, between the two threads that write to them: the  *)
(* DbWriter, which appends what the scanner queues (arbscan/dbwriter.py),   *)
(* and the Pruner, which deletes what is too old or too much                *)
(* (arbscan/retention.py).  Each has its own connection to SQLite, which    *)
(* lets one of them write at a time.                                        *)
(*                                                                         *)
(* A row's number is SQLite's: one more than the last in the table, and 1   *)
(* if there is none (the tables have no AUTOINCREMENT, arbscan/store.py).   *)
(* Time is in hours.                                                        *)
(***************************************************************************)
EXTENDS Integers, Sequences, FiniteSets, SequencesExt

CONSTANTS
    Raw,        \* RAW: the tables, in the order they are pruned
    Settings,   \* [keep, cap]: keep_raw_days; the rows max_db_gb allows; 0 for neither
    Floor,      \* FLOOR_S
    Step,       \* STEP_S
    Batch,      \* the rows of one transaction
    MaxNow,     \* a bound of the model: hours that pass
    MaxQueue    \* a bound of the model: items queued for the DbWriter

SizesFit ==
    /\ Raw \in Seq(Nat) /\ ToSet(Raw) = 1..Len(Raw)
    /\ Settings \subseteq [keep : Nat, cap : Nat]
    /\ {Floor, Step, Batch, MaxNow, MaxQueue} \subseteq Nat \ {0}

VARIABLES
    setting,    \* which of Settings
    now,
    queue,      \* DbWriter.q
    txn,        \* rows it has inserted and not committed; it holds SQLite's lock while there are any
    writer,     \* its thread: "up", or "dead"
    rows,       \* the committed rows of each table
    halt,       \* Pruner.halt
    at,         \* where the Pruner is
    pass,       \* its pass: now, the cut-off, the tables left to trim, boundary()
    emptied,    \* history: tables this pass has emptied
    late        \* history: batches deleted since halt was set

store == <<queue, txn, writer>>
prune == <<halt, at, pass, emptied, late>>
vars == <<setting, now, store, rows, prune>>

-----------------------------------------------------------------------------

Tables == 1..Len(Raw)
Row(t) == [op |-> "row", table |-> t, ts |-> now]
Mark == [op |-> "commit"]
StopMark == [op |-> "stop"]

NoPass == [now |-> 0, cut |-> 0, by |-> "keep", todo |-> <<>>, end |-> 0]

Times == 0..MaxNow
Rows == [op : {"row"}, table : Tables, ts : Times]

TypeOK ==
    /\ setting \in Settings /\ now \in Times
    /\ queue \in Seq(Rows \cup {Mark, StopMark}) /\ txn \in Seq(Rows)
    /\ writer \in {"up", "dead"} /\ (writer = "dead" => txn = <<>>)
    /\ DOMAIN rows = Tables /\ \A t \in Tables : rows[t] \subseteq [id : Nat \ {0}, ts : Times]
    /\ halt \in BOOLEAN /\ late \in Nat /\ emptied \subseteq Tables
    /\ at \in {"rest", "trim", "look", "delete", "size", "gone"}
    /\ pass \in [now : Times, cut : Int, by : {"keep", "cap"}, todo : Seq(Tables), end : Nat]
    /\ at \in {"look", "delete"} => pass.todo # <<>>

Init ==
    /\ setting \in Settings /\ now = 1
    /\ queue = <<>> /\ txn = <<>> /\ writer = "up"
    /\ rows = [t \in Tables |-> {}]
    /\ halt = FALSE /\ at = "rest" /\ pass = NoPass /\ emptied = {} /\ late = 0

-----------------------------------------------------------------------------
(* The DbWriter *)

\* Once the thread is dead the queue only grows.
Enqueue(item) ==
    /\ writer = "up" /\ Len(queue) < MaxQueue
    /\ queue' = Append(queue, item)
    /\ UNCHANGED <<setting, now, txn, writer, rows, prune>>

\* The scanner records one row an hour and table, and commits every second.
Recorded(t) == Row(t) \in ToSet(queue \o txn) \/ \E r \in rows[t] : r.ts = now
Record(t) == ~Recorded(t) /\ Enqueue(Row(t))
Commit == Mark \notin ToSet(queue) /\ Enqueue(Mark)
Close == StopMark \notin ToSet(queue) /\ Enqueue(StopMark)

\* execute: the row is dropped if SQLite refuses it, which it does if the lock isn't free in time.
Execute ==
    /\ writer = "up" /\ queue # <<>> /\ Head(queue).op = "row"
    /\ queue' = Tail(queue)
    /\ txn' \in {Append(txn, Head(queue)), txn}
    /\ UNCHANGED <<setting, now, writer, rows, prune>>

Numbers(rs) == {r.id : r \in rs}

\* SQLite's next row number in a table.
NextId(t) == IF rows[t] = {} THEN 1 ELSE Max(Numbers(rows[t])) + 1

\* The rows of the transaction for a table get the next numbers.
Of(t, n) == {k \in 1..n : txn[k].table = t}
Inserted(t) ==
    rows[t] \cup {[id |-> NextId(t) + Cardinality(Of(t, k - 1)), ts |-> txn[k].ts] : k \in Of(t, Len(txn))}

\* What the thread leaves of its transaction.
Closed == <<>>

\* At a commit, or a stop, which commits and ends the thread.  A commit that fails ends it
\* too: nothing catches it, and nothing is written from then on.
WriterCommits ==
    /\ writer = "up" /\ queue # <<>> /\ Head(queue).op \in {"commit", "stop"}
    /\ queue' = Tail(queue)
    /\ \/ /\ rows' = [t \in Tables |-> Inserted(t)]
          /\ writer' = IF Head(queue).op = "stop" THEN "dead" ELSE "up"
          /\ txn' = <<>>
       \/ rows' = rows /\ writer' = "dead" /\ txn' = Closed
    /\ UNCHANGED <<setting, now, prune>>

\* An hour: what was queued before it is written within the next.
Tick ==
    /\ now < MaxNow /\ writer = "up" /\ at # "gone"
    /\ \A k \in DOMAIN queue : queue[k].op = "row" => queue[k].ts = now
    /\ \A k \in DOMAIN txn : txn[k].ts = now
    /\ now' = now + 1
    /\ UNCHANGED <<setting, store, rows, prune>>

-----------------------------------------------------------------------------
(* The Pruner *)

\* run: the service stops.
Halt ==
    /\ ~halt /\ halt' = TRUE
    /\ UNCHANGED <<setting, now, store, rows, at, pass, emptied, late>>

Gone ==
    /\ at = "rest" /\ halt
    /\ at' = "gone"
    /\ UNCHANGED <<setting, now, store, rows, halt, pass, emptied, late>>

Trimming(p, cut, by) == at' = "trim" /\ pass' = [p EXCEPT !.cut = cut, !.by = by, !.todo = Raw]

\* prune begins: rows older than the window first, if there is one.
Begin ==
    /\ at = "rest" /\ ~halt
    /\ LET p == [NoPass EXCEPT !.now = now]
       IN  IF setting.keep > 0 THEN Trimming(p, now - setting.keep, "keep")
           ELSE at' = "size" /\ pass' = p
    /\ UNCHANGED <<setting, now, store, rows, halt, emptied, late>>

\* The number of a table's first row.
First(t) == Min(Numbers(rows[t]))

\* Mutant of boundary: a row of the very time goes too.
BoundaryWhole(t, ts) ==
    LET old == {r \in rows[t] : r.ts <= ts}
    IN  IF old = {} THEN First(t) ELSE Max(Numbers(old)) + 1

\* The number of the first row at or above ts: one past the last if there is none.
boundary(t, ts) ==
    LET old == {r \in rows[t] : r.ts < ts}
    IN  IF old = {} THEN First(t) ELSE Max(Numbers(old)) + 1

\* trim: the next table.
Trim ==
    /\ at = "trim"
    /\ IF pass.todo = <<>> THEN at' = "size" /\ UNCHANGED pass
       ELSE LET t == Head(pass.todo)
            IN  IF rows[t] = {} \/ halt THEN pass' = [pass EXCEPT !.todo = Tail(@)] /\ UNCHANGED at
                ELSE at' = "look" /\ pass' = [pass EXCEPT !.end = boundary(t, pass.cut)]
    /\ UNCHANGED <<setting, now, store, rows, halt, emptied, late>>

Going(t) == ~halt /\ rows[t] # {} /\ First(t) < pass.end

\* delete_before, between two transactions.
Look ==
    /\ at = "look"
    /\ IF Going(Head(pass.todo)) THEN at' = "delete" /\ UNCHANGED pass
       ELSE at' = "trim" /\ pass' = [pass EXCEPT !.todo = Tail(@), !.end = 0]
    /\ UNCHANGED <<setting, now, store, rows, halt, emptied, late>>

\* Mutant of Upto: slow batches are halved down to no row at all.
UptoHalved(t) == First(t)

\* The end of a batch: BATCH_ROWS, adapted between 100 and MAX_BATCH_ROWS, is at least a row.
Upto(t) == IF First(t) + Batch < pass.end THEN First(t) + Batch ELSE pass.end

\* One transaction, once the DbWriter has committed its own.
Delete ==
    /\ at = "delete" /\ txn = <<>>
    /\ LET t == Head(pass.todo)
       IN  /\ rows' = [rows EXCEPT ![t] = {r \in @ : r.id >= Upto(t)}]
           /\ emptied' = IF rows'[t] = {} THEN emptied \cup {t} ELSE emptied
    /\ at' = "look"
    /\ late' = IF halt THEN late + 1 ELSE late
    /\ UNCHANGED <<setting, now, store, halt, pass>>

Rests == at' = "rest" /\ pass' = NoPass /\ emptied' = {}

\* The DbWriter held the lock for 30 s: the pass fails.
DeleteFails ==
    /\ at = "delete" /\ txn # <<>>
    /\ Rests
    /\ UNCHANGED <<setting, now, store, rows, halt, late>>

-----------------------------------------------------------------------------
(* The size cap *)

Used == SumFunction([t \in Tables |-> Cardinality(rows[t])])
Firsts == {r.ts : r \in UNION {{q \in rows[t] : q.id = First(t)} : t \in Tables}}
oldest == Min(Firsts)

\* The end of the oldest hour kept.
NextHour == oldest + Step

\* Too much, and not all of it of the last day.
OverCap ==
    /\ setting.cap > 0 /\ ~halt /\ Used > setting.cap
    /\ Firsts # {} /\ NextHour <= pass.now - Floor

Size ==
    /\ at = "size"
    /\ IF OverCap THEN Trimming(pass, NextHour, "cap") /\ UNCHANGED emptied ELSE Rests
    /\ UNCHANGED <<setting, now, store, rows, halt, late>>

-----------------------------------------------------------------------------

PrunerStep == Trim \/ Look \/ Delete \/ DeleteFails \/ Size

Next ==
    \/ \E t \in Tables : Record(t)
    \/ Commit \/ Close \/ Execute \/ WriterCommits \/ Tick
    \/ Halt \/ Gone \/ Begin \/ PrunerStep

Spec == Init /\ [][Next]_vars /\ WF_vars(PrunerStep)

-----------------------------------------------------------------------------
(* Properties *)

Deleted(t) == rows[t] \ rows'[t]

\* A row that may go: older than keep_raw_days, or than the last day if it goes for the cap.
Old(r) == r.ts < pass.cut /\ r.ts < pass.now - (IF pass.by = "keep" THEN setting.keep ELSE Floor)

\* Pruning "deletes the raw rows older than keep_raw_days" and "never the last day", as long
\* as the pass has not deleted every row of the table: numbers then start again from 1, below
\* the boundary it goes on to look for.
DeletesOldUnlessEmptied == \A t \in Tables \ emptied : \A r \in Deleted(t) : Old(r)

\* A pass that runs to its end leaves no row older than keep_raw_days.
LeavesNothingOld ==
    at = "size" /\ at' = "rest" /\ ~halt /\ setting.keep > 0
        => \A t \in Tables : \A r \in rows[t] : r.ts >= pass.now - setting.keep

\* "It stops within one batch when the service does."
StopsWithinABatch == late <= 1

\* Every pass ends, however much is written meanwhile, or empties a table.
PassEnds == at \notin {"rest", "gone"} ~> at \in {"rest", "gone"} \/ emptied # {}
=============================================================================
