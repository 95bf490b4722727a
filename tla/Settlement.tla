----------------------------- MODULE Settlement -----------------------------
(***************************************************************************)
(* What the live trader makes of how one of its trades came out: the       *)
(* settle loop pays it out at the results on record (LiveTrader.settle,    *)
(* results.py outcomes), the background read of the venues' ledgers finds  *)
(* what was really paid (moves.py _keep_payouts) and puts the trade right  *)
(* to it (LiveTrader.true_up), and a restart works the account's P&L out   *)
(* again from the rows (_load, LiveTrader.__init__, LiveRun.__init__).     *)
(*                                                                         *)
(* Rows go through the writer thread: what a step writes is on disk only   *)
(* after a commit, and the settle loop and true_up read the disk. Money is *)
(* in half dollars; the trade holds one YES on Kalshi and one NO on        *)
(* Polymarket US.                                                          *)
(***************************************************************************)
EXTENDS Integers

CONSTANTS Values,   \* what a YES contract may pay here
          Costs,    \* what the trade may have cost, both legs together
          Faults,   \* whether a true_up may fail and the process be killed
          MaxDay    \* bound: the last day

Venues == {"K", "P"}
Yes == 0..2                      \* what a YES contract pays: nothing, half (a void), 1 dollar
Unknown == 9                     \* no result, no payout on record

ValuesFit == Values \subseteq Yes /\ Costs \subseteq Nat /\ MaxDay \in Nat \ {0}

VARIABLES day,       \* the calendar
          entry,     \* the venues' ledgers: what a YES contract was paid
          results,   \* the results table: the result, and whether its status says paid
          row,       \* the trade as last written
          disk,      \* the trade as committed
          made,      \* the day the trade under way was decided; none is: 0
          booked,    \* history: the day on which this run counted its early loss
          held,      \* where the trader's memory has it: open, unpaid or none
          realized,  \* LiveTrader.realized
          pnl, gday, \* LiveGuard.pnl_today and the day it counts
          payouts,   \* Moves.payouts
          kept,      \* live_payouts, as committed
          fresh,     \* Moves.fresh
          reader,    \* the ledger read: idle, K, P or done
          up,        \* the process runs
          late       \* a settle or true_up read a disk that lacked something, or failed

vars == <<day, entry, results, row, disk, made, booked, held, realized, pnl, gday, payouts, kept,
          fresh, reader, up, late>>

NoTrade == [status |-> "none", out |-> 0, opened |-> 0, closed |-> 0, pay |-> [v \in Venues |-> 0]]
Rows == [status : {"none", "open", "settled"}, out : Costs \cup {0}, opened : 0..MaxDay,
         closed : 0..MaxDay, pay : [Venues -> Yes]]
PerVenue == [Venues -> Yes \cup {Unknown}]
NoneKnown == [v \in Venues |-> Unknown]

TypeOK == /\ day \in 1..MaxDay /\ gday \in 1..MaxDay
          /\ results \in [Venues -> [yes : Yes \cup {Unknown}, paid : BOOLEAN]]
          /\ entry \in PerVenue /\ payouts \in PerVenue /\ kept \in PerVenue
          /\ row \in Rows /\ disk \in Rows
          /\ made \in 0..MaxDay /\ booked \in 0..MaxDay
          /\ held \in {"open", "unpaid", "none"}
          /\ realized \in Int /\ pnl \in Int
          /\ fresh \subseteq Venues /\ reader \in {"idle", "K", "P", "done"}
          /\ up \in BOOLEAN /\ late \in BOOLEAN

Init == /\ day = 1 /\ gday = 1
        /\ results = [v \in Venues |-> [yes |-> Unknown, paid |-> FALSE]]
        /\ entry = NoneKnown /\ payouts = NoneKnown /\ kept = NoneKnown
        /\ row = NoTrade /\ disk = NoTrade /\ made = 0 /\ booked = 0 /\ held = "none"
        /\ realized = 0 /\ pnl = 0 /\ fresh = {} /\ reader = "idle" /\ up = TRUE /\ late = FALSE

(***************************************************************************)
(* What a row says.                                                        *)
(***************************************************************************)
\* _pays: the trade's leg on a venue, when a YES contract there pays yes.
Pays(v, yes) == IF v = "K" THEN yes ELSE 2 - yes

Pnl(t) == IF t.status = "settled" THEN t.pay["K"] + t.pay["P"] - t.out ELSE 0

\* early_loss: what a trade finished past break-even has lost for certain.
EarlyLoss(t) == IF t.status # "none" /\ t.out > 2 THEN t.out - 2 ELSE 0

\* LiveTrader.__init__: today's P&L, worked out from the rows, by the day each was decided.
Today(t, d) == (IF t.status # "none" /\ t.opened = d THEN -EarlyLoss(t) ELSE 0)
               + (IF t.status = "settled" /\ t.closed = d THEN Pnl(t) + EarlyLoss(t) ELSE 0)

\* LiveGuard.record_pnl, with the _roll to a new day in it.
RecordPnl(amount) == /\ pnl' = (IF gday = day THEN pnl ELSE 0) + amount
                     /\ gday' = day

(***************************************************************************)
(* The venues, and the results table (ResultsRecorder reads them, on its   *)
(* own connection; Kalshi's lifecycle events write the same).              *)
(***************************************************************************)
\* A venue pays out, and its ledger says so.
Paid(v) == /\ entry[v] = Unknown
           /\ \E yes \in Values : entry' = [entry EXCEPT ![v] = yes]
           /\ UNCHANGED <<made, booked, day, results, row, disk, held, realized, pnl, gday, payouts, kept,
                          fresh, reader, up, late>>

\* A market is looked up. Before it is paid out a venue may show any result, not always
\* the one it pays in the end; Kalshi has then only determined it, while Polymarket US,
\* once it shows a result, is taken to have paid (paid_out).
Looks(v) == /\ up
            /\ \E yes \in Values :
                 /\ entry[v] # Unknown => yes = entry[v]
                 /\ results' = [results EXCEPT ![v] =
                                  [yes |-> yes, paid |-> v = "P" \/ entry[v] # Unknown]]
            /\ UNCHANGED <<made, booked, day, entry, row, disk, held, realized, pnl, gday, payouts, kept,
                           fresh, reader, up, late>>

(***************************************************************************)
(* The trade.                                                              *)
(***************************************************************************)
\* PaperTrader.consider: a trade is decided; its row will bear this time.
Decides == /\ up /\ row.status = "none" /\ made = 0 /\ made' = day
           /\ UNCHANGED <<booked, day, entry, results, row, disk, held, realized, pnl, gday, payouts,
                          kept, fresh, reader, up, late>>

\* LiveTrader._finish, of a trade left open, perhaps on a later day: its early loss counts today.
Opens == /\ up /\ made # 0 /\ made' = 0 /\ booked' = day
         /\ \E out \in Costs :
              LET t == [NoTrade EXCEPT !.status = "open", !.out = out, !.opened = made]
              IN  row' = t /\ RecordPnl(-EarlyLoss(t))
         /\ held' = "open"
         /\ UNCHANGED <<day, entry, results, disk, realized, payouts, kept, fresh,
                        reader, up, late>>

\* Mutant of Outcome: the result shown comes before what the ledger says was paid.
OutcomeShown(v) == IF results[v].yes # Unknown THEN results[v] ELSE [yes |-> kept[v], paid |-> TRUE]
\* results.outcomes: a market's result, and whether its venue has paid it out.
Outcome(v) == IF kept[v] # Unknown THEN [yes |-> kept[v], paid |-> TRUE] ELSE results[v]

Known(v) == Outcome(v).yes # Unknown
AllPaid == \A v \in Venues : Known(v) /\ Outcome(v).paid

\* Mutant of SettleCounts: the early loss is counted again.
SettleCountsAll(t) == Pnl(t)
\* What settling adds to today's P&L: what was not counted when the trade was made.
SettleCounts(t) == Pnl(t) + EarlyLoss(t)

\* LiveTrader.settle with PaperTrader.settle and _value in it: one round of the loop.
Settle ==
  /\ up
  /\ \/ /\ held = "open" /\ \A v \in Venues : Known(v)
        /\ LET t == [row EXCEPT !.status = "settled", !.closed = day,
                                !.pay = [v \in Venues |-> Pays(v, Outcome(v).yes)]]
           IN  /\ row' = t /\ realized' = realized + Pnl(t)
               /\ RecordPnl(SettleCounts(t))
        /\ held' = IF AllPaid THEN "none" ELSE "unpaid"
        /\ late' = (late \/ kept # payouts)
     \/ /\ held = "unpaid"
        /\ AllPaid \/ row.closed < day - 1            \* paid out, or PAYOUT_WATCH_S ago
        /\ held' = "none"
        /\ UNCHANGED <<row, realized, pnl, gday, late>>
  /\ UNCHANGED <<made, booked, day, entry, results, disk, payouts, kept, fresh, reader, up>>

(***************************************************************************)
(* Putting it right to the ledgers.                                        *)
(***************************************************************************)
\* true_up finds the trade: settled on disk, or settled lately and still in memory.
Found == disk.status = "settled" \/ held = "unpaid"

\* Trade t, put right to what the ledgers p say of the legs in vs.
Right(t, p, vs) == [t EXCEPT !.pay = [v \in Venues |-> IF v \in vs /\ p[v] # Unknown
                                                         THEN Pays(v, p[v]) ELSE t.pay[v]]]

CountsToday(t) == t.closed = day

TrueUp(vs) ==
  LET t == Right(row, payouts, vs)
      diff == Pnl(t) - Pnl(row)
  IN  IF Found /\ t # row
      THEN /\ row' = t /\ realized' = realized + diff
           /\ IF CountsToday(row) THEN RecordPnl(diff) ELSE UNCHANGED <<pnl, gday>>
      ELSE UNCHANGED <<row, realized, pnl, gday>>

\* LiveRun._run starts a read of the ledgers (read_moves in the background).
ReadBegins == /\ up /\ reader = "idle" /\ reader' = "K"
              /\ UNCHANGED <<made, booked, day, entry, results, row, disk, held, realized, pnl, gday,
                             payouts, kept, fresh, up, late>>

\* kalshi_payouts, pm_payouts: what the venue's ledger says a YES contract paid.
PaidOut(v) == entry[v]

\* Moves._keep_payouts: what is new or changed is kept, and handed on.
Keeps(v) == IF PaidOut(v) = payouts[v] THEN UNCHANGED <<payouts, fresh>>
            ELSE /\ payouts' = [payouts EXCEPT ![v] = PaidOut(v)]
                 /\ fresh' = fresh \cup {v}

\* Moves.refresh, one venue: its ledger is read, or the read fails.
ReadVenue == /\ up /\ reader \in Venues
             /\ reader' = IF reader = "K" THEN "P" ELSE "done"
             /\ Keeps(reader) \/ UNCHANGED <<payouts, fresh>>
             /\ UNCHANGED <<made, booked, day, entry, results, row, disk, held, realized, pnl, gday,
                            kept, up, late>>

\* The end of read_moves: true_up of what is fresh, which is then no longer fresh,
\* whether or not it was of use.
ReadEnds == /\ up /\ reader = "done" /\ reader' = "idle" /\ fresh' = {}
            /\ \/ /\ TrueUp(fresh)
                  /\ late' = (late \/ (fresh # {} /\ disk # row))
               \/ /\ Faults /\ fresh # {} /\ late' = TRUE
                  /\ UNCHANGED <<row, realized, pnl, gday>>
            /\ UNCHANGED <<made, booked, day, entry, results, disk, held, payouts, kept, up>>

(***************************************************************************)
(* The writer, the calendar, the process.                                  *)
(***************************************************************************)
Commits == /\ up /\ (disk # row \/ kept # payouts)
           /\ disk' = row /\ kept' = payouts
           /\ UNCHANGED <<made, booked, day, entry, results, row, held, realized, pnl, gday, payouts,
                          fresh, reader, up, late>>

NextDay == /\ day < MaxDay /\ day' = day + 1
           /\ UNCHANGED <<made, booked, entry, results, row, disk, held, realized, pnl, gday, payouts,
                          kept, fresh, reader, up, late>>

\* The process ends: by a stop, which commits what is queued, or killed.
Ends == /\ up /\ up' = FALSE
        /\ \/ disk' = row /\ kept' = payouts
           \/ Faults /\ UNCHANGED <<disk, kept>>
        /\ held' = "none" /\ fresh' = {} /\ reader' = "idle" /\ made' = 0
        /\ UNCHANGED <<booked, day, entry, results, row, realized, pnl, gday, payouts, late>>

\* The payouts a start puts the trades right to: all on record.
AtStart == Venues

Starts == /\ ~up /\ up' = TRUE
          /\ LET t == IF disk.status = "settled" THEN Right(disk, kept, AtStart) ELSE disk
             IN  row' = t /\ realized' = Pnl(t) /\ pnl' = Today(t, day) /\ gday' = day
          /\ payouts' = kept
          /\ held' = IF disk.status = "open" THEN "open"
                     ELSE IF disk.status = "settled" /\ disk.closed >= day - 1 /\ ~AllPaid
                     THEN "unpaid" ELSE "none"
          /\ late' = FALSE /\ booked' = 0
          /\ UNCHANGED <<made, day, entry, results, disk, kept, fresh, reader>>

Next == \/ \E v \in Venues : Paid(v) \/ Looks(v)
        \/ Decides \/ Opens \/ Settle \/ ReadBegins \/ ReadVenue \/ ReadEnds \/ Commits \/ NextDay
        \/ Ends \/ Starts

Spec == Init /\ [][Next]_vars

(***************************************************************************)
(* Properties.                                                             *)
(***************************************************************************)
\* What a run that counted t's early loss on day b has of it on day d: what a restart would
\* work out, but on the day a trade was finished that was decided before midnight.  Its early
\* loss was counted then, and a restart that day leaves it out: the row's ts is of the day before.
Tally(t, b, d) == Today(t, d) - (IF b = d /\ t.opened # d THEN EarlyLoss(t) ELSE 0)

\* The account's realized P&L and today's, kept step by step through openings,
\* settlements, corrections and new days, are what a restart would work out from the
\* trade as last written (record_pnl and realized, against __init__ and _load), but for an
\* early loss past midnight.
PnlAgrees == up => /\ realized = Pnl(row)
                   /\ gday = day => pnl = Tally(row, booked, day)

IsRight(t, p) == \A v \in Venues : t.status = "settled" /\ p[v] # Unknown => t.pay[v] = Pays(v, p[v])

\* A settled trade is at what the ledgers say, once true_up has seen it, if no settle and
\* no true_up of this run read the disk before something it needed was committed.
RecordedAsPaid == up /\ ~late => IsRight([row EXCEPT !.pay = [v \in Venues |->
                                   IF v \in fresh THEN Pays(v, payouts[v]) ELSE row.pay[v]]], payouts)

\* "A live trade's legs settle at what was paid (results.outcomes, LiveTrader.true_up),
\* not at what the market showed": once a payout has been seen and everything is written.
\* (A payout that comes in while the trade's row, or the payout's, is not yet committed is
\* passed over, and not looked at again until a restart.)
PaidIsRecorded == (up /\ fresh = {} /\ disk = row /\ kept = payouts) => IsRight(row, payouts)
=============================================================================
