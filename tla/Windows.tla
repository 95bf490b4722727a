------------------------------- MODULE Windows -------------------------------
(***************************************************************************)
(* One direction of one pair, priced by the streaming scanner              *)
(* (live.py _evaluate): the window it is open in and the rows that record  *)
(* windows (scanner.py Episodes), and the decision to trade it that every  *)
(* re-pricing puts to a trader (paper.py consider, shared by the paper,    *)
(* dry-run and live traders).                                              *)
(*                                                                         *)
(* A re-pricing is one callback of the event loop, hence one step. It runs *)
(* on a book change, on a timer the trader asked for, and on the answer of *)
(* the book check. A window is named by the time it opened. Time is        *)
(* counted in ticks; a timer rings before its tick is over. What the       *)
(* trade itself does, once decided, is LiveTrade's and PaperAccount's.     *)
(***************************************************************************)
EXTENDS Integers, FiniteSets

CONSTANTS MinWindow,  \* pick_min_window_s: how long a window must have been open
          Quiet,      \* paper_quiet_s: how long the leg that moved last must be still
          Settle,     \* live_settle_s: how long the other leg must be still
          Recheck,    \* RECHECK_S
          Idle,       \* IDLE_WATCH_S
          Resume,     \* RESUME_S
          Linger,     \* whether the feeds still deliver something after a stop
          Starts,     \* bound: how often the scanner is started
          MaxNow      \* bound: the last tick

\* A watch outlives every wait the trader can ask for.
TimesFit ==
    /\ {MinWindow, Quiet, Settle, Recheck, Idle, Resume, Starts, MaxNow} \subseteq Nat /\ MaxNow > 0
    /\ Idle > MinWindow /\ Idle > Quiet /\ Idle > Settle /\ Idle > Recheck

VARIABLES now,        \* the clock
          book,       \* both books: ready, what they offer, when each leg's top moved
          last,       \* when a book last changed
          ep,         \* the open episode, or Closed
          resumable,  \* the saved row this run may reopen, or NoRow
          rows,       \* the episodes table
          watch,      \* the trader's watch of a window, or NoWatch
          traded,     \* the window it already traded or turned down for good
          busy,       \* the pair has orders in flight
          sure,       \* the book check vouches for the Polymarket book now
          timers,     \* the pending call_later re-pricings
          mode,       \* up, draining (stopping, the feeds still running) or down
          starts,     \* how often the scanner was started
          taken,      \* the windows this run of the scanner traded
          asleep      \* the last re-pricing met a pair with orders in flight

vars == <<now, book, last, ep, resumable, rows, watch, traded, busy, sure, timers,
          mode, starts, taken, asleep>>

Times == 0..MaxNow
Offers == {"none", "thin", "pick"}   \* not positive; positive but no pick; a pick
Legs == {"K", "P"}
Closed == [start |-> 0, last |-> 0]
NoRow == [start |-> 0, end |-> 0, cut |-> TRUE]
NoWatch == [window |-> 0, due |-> 0, woken |-> 0, seen |-> 0, confirming |-> FALSE]
Blank == [ready |-> FALSE, offer |-> "none", moved |-> [l \in Legs |-> 0]]

Least(a, b) == IF a < b THEN a ELSE b
Most(a, b) == IF a < b THEN b ELSE a

Row == [start : Times, end : Times, cut : BOOLEAN]
TypeOK == /\ now \in 1..MaxNow
          /\ book \in [ready : BOOLEAN, offer : Offers, moved : [Legs -> Times]]
          /\ last \in Times
          /\ ep \in [start : Times, last : Times]
          /\ resumable \in Row /\ rows \subseteq Row
          /\ watch \in [window : Times, due : Nat, woken : Nat, seen : Times, confirming : BOOLEAN]
          /\ traded \in Times /\ taken \subseteq Times /\ timers \subseteq Nat
          /\ busy \in BOOLEAN /\ sure \in BOOLEAN /\ asleep \in BOOLEAN
          /\ mode \in {"up", "draining", "down"}
          /\ starts \in 0..Starts

Init == /\ now = 1 /\ book = Blank /\ last = 0 /\ ep = Closed
        /\ resumable = NoRow /\ rows = {}
        /\ watch = NoWatch /\ traded = 0 /\ busy = FALSE /\ sure = FALSE
        /\ timers = {} /\ mode = "down" /\ starts = 0 /\ taken = {} /\ asleep = FALSE

(***************************************************************************)
(* Episodes.                                                               *)
(***************************************************************************)
\* Episodes.close.
Close == /\ rows' = IF ep = Closed THEN rows
                    ELSE rows \cup {[start |-> ep.start, end |-> now, cut |-> FALSE]}
         /\ ep' = Closed

\* Mutant of Reopened: the saved row stays beside the reopened window.
ReopenedKept(row) == rows
Reopened(row) == rows \ {row}

Resumes == resumable # NoRow /\ now - resumable.end <= Resume

\* Episodes.observe of a positive walk: the window goes on, the one cut by the last
\* stop is reopened, or a new one opens.
Observe ==
  \/ /\ ep # Closed
     /\ ep' = [ep EXCEPT !.last = now]
     /\ UNCHANGED <<rows, resumable>>
  \/ /\ ep = Closed /\ resumable' = NoRow
     /\ \A r \in rows : r.start # now           \* no two windows open at one instant
     /\ ep' = [start |-> IF Resumes THEN resumable.start ELSE now, last |-> now]
     /\ rows' = IF Resumes THEN Reopened(resumable) ELSE rows

(***************************************************************************)
(* Deciding.                                                               *)
(***************************************************************************)
\* _hold: how much longer the legs must hold still.
Hold == LET still(l) == now - book'.moved[l]
        IN  Most(Quiet - Least(still("K"), still("P")), Settle - Most(still("K"), still("P")))

\* Mutant of Pending: a timer that has already rung will do.
PendingRung(w, due) == w.woken # 0 /\ w.woken <= due
\* A re-check already set for no later than due will do.
Pending(w, due) == now < w.woken /\ w.woken <= due

\* _wake: look again when the window is next due.
WakeAt(w, due, confirming, left) ==
  /\ watch' = [w EXCEPT !.due = due, !.confirming = confirming,
                        !.woken = IF Pending(w, due) THEN @ ELSE due]
  /\ timers' = IF Pending(w, due) THEN left ELSE left \cup {due}
  /\ UNCHANGED <<traded, busy, taken>>

Marked(window) == window

\* The trade is on: its money is reserved, the pair busy, the window traded.
Take(w, window, left) ==
  /\ busy' = TRUE /\ traded' = Marked(window) /\ taken' = taken \cup {window}
  /\ watch' = w /\ timers' = left

\* What the guard, the account and the sizing on the levels that stayed put may say of
\* a window that is due (limits, cash, feeds: free here).
Verdicts == {"yes", "poor", "transient", "refused"}

\* consider: one re-pricing of an open window.
Consider(window, left) ==
  LET known == watch.window = window
      w == IF known THEN [watch EXCEPT !.seen = now]
           ELSE [window |-> window, due |-> now + MinWindow, woken |-> 0, seen |-> now,
                 confirming |-> FALSE]
      leave == watch' = w /\ timers' = left /\ UNCHANGED <<traded, busy, taken>>
      early == now < w.due /\ ~(w.confirming /\ sure')
  IN  /\ asleep' = busy
      /\ IF busy \/ traded = window \/ book'.offer # "pick" THEN leave
         ELSE IF early THEN WakeAt(w, w.due, w.confirming, left)
         ELSE IF Hold > 0 THEN WakeAt(w, now + Hold, FALSE, left)
         ELSE \E verdict \in Verdicts :
                CASE verdict \in {"transient", "poor"} -> WakeAt(w, now + Recheck, FALSE, left)
                  [] verdict = "refused" -> /\ traded' = window /\ watch' = w /\ timers' = left
                                            /\ UNCHANGED <<busy, taken>>
                  [] OTHER -> IF sure' THEN Take(w, window, left)
                              ELSE WakeAt(w, now + Recheck, TRUE, left)

\* _evaluate: price the pair on what the books hold now (book', sure'), with the timers
\* of left still to ring.
Evaluate(left) ==
  \/ /\ ~book'.ready                           \* no book, closed market: the pair is paused
     /\ Close /\ timers' = left
     /\ UNCHANGED <<resumable, watch, traded, busy, taken, asleep>>
  \/ /\ book'.ready /\ book'.offer = "none"    \* a saved window closed while we were away
     /\ Close /\ resumable' = NoRow /\ timers' = left
     /\ UNCHANGED <<watch, traded, busy, taken, asleep>>
  \/ /\ book'.ready /\ book'.offer # "none"
     /\ Observe /\ Consider(ep'.start, left)

(***************************************************************************)
(* What makes the scanner re-price, and its life.                          *)
(***************************************************************************)
Priced == mode = "up" \/ (Linger /\ mode = "draining")

\* The books start, stop or change: new offers, with some of their tops moved.
Books(b) == /\ Priced /\ last < now
            /\ book' = b /\ last' = now
            /\ UNCHANGED sure /\ Evaluate(timers)
            /\ UNCHANGED <<now, mode, starts>>

BookChanges == \E offer \in Offers, tops \in SUBSET Legs :
                 Books([ready |-> TRUE, offer |-> offer,
                        moved |-> [l \in Legs |-> IF l \in tops \/ ~book.ready THEN now
                                                  ELSE book.moved[l]]])

BookGoes == book.ready /\ Books([book EXCEPT !.ready = FALSE])

\* LiveScanner._recheck: a timer of _wake rings.
Rings == /\ Priced
         /\ UNCHANGED <<book, sure>>
         /\ \E t \in timers : t <= now /\ Evaluate(timers \ {t})
         /\ UNCHANGED <<now, last, mode, starts>>

\* _reprice_pm: the book check's answer is in, and prices the pair again.
Answered == /\ Priced /\ ~sure /\ book.ready
            /\ sure' = TRUE /\ UNCHANGED book /\ Evaluate(timers)
            /\ UNCHANGED <<now, last, mode, starts>>

\* The check's answer has aged, or the book moved on.
Lapses == /\ sure /\ sure' = FALSE
          /\ UNCHANGED <<now, book, last, ep, resumable, rows, watch, traded, busy, timers,
                         mode, starts, taken, asleep>>

\* The end of _execute: the pair may be traded again. Nothing is re-priced.
TradeEnds == /\ busy /\ busy' = FALSE
             /\ UNCHANGED <<now, book, last, ep, resumable, rows, watch, traded, sure, timers,
                            mode, starts, taken, asleep>>

\* forget_idle.
Forget == /\ mode = "up" /\ watch # NoWatch /\ watch.seen < now - Idle
          /\ watch' = NoWatch
          /\ UNCHANGED <<now, book, last, ep, resumable, rows, traded, busy, sure, timers,
                         mode, starts, taken, asleep>>

\* The rows a new run may reopen (Episodes.__init__): of several, the last one saved.
Recent == {r \in rows : r.cut /\ r.end >= now - Resume}

Start == /\ mode = "down" /\ starts < Starts
         /\ mode' = "up" /\ starts' = starts + 1
         /\ resumable' = IF Recent = {} THEN NoRow
                         ELSE CHOOSE r \in Recent : \A q \in Recent : q.end <= r.end
         /\ UNCHANGED <<now, book, last, ep, rows, watch, traded, busy, sure, timers, taken, asleep>>

\* The stop: open windows are saved as cut short; the feeds run on until they notice.
StopAsked == /\ mode = "up" /\ mode' = "draining"
             /\ rows' = IF ep = Closed THEN rows
                        ELSE rows \cup {[start |-> ep.start, end |-> ep.last, cut |-> TRUE]}
             /\ ep' = Closed
             /\ UNCHANGED <<now, book, last, resumable, watch, traded, busy, sure, timers,
                            starts, taken, asleep>>

\* The process is gone, after its stop or killed: only the table is left.
Gone == /\ mode # "down" /\ mode' = "down"
        /\ book' = Blank /\ ep' = Closed /\ resumable' = NoRow /\ watch' = NoWatch
        /\ traded' = 0 /\ busy' = FALSE /\ sure' = FALSE /\ timers' = {}
        /\ taken' = {} /\ asleep' = FALSE
        /\ UNCHANGED <<now, last, rows, starts>>

Tick == /\ now < MaxNow /\ now' = now + 1
        /\ Priced => \A t \in timers : t > now
        /\ UNCHANGED <<book, last, ep, resumable, rows, watch, traded, busy, sure, timers,
                       mode, starts, taken, asleep>>

Next == \/ BookChanges \/ BookGoes \/ Rings \/ Answered \/ Lapses \/ TradeEnds
        \/ Forget \/ Start \/ StopAsked \/ Gone \/ Tick

Spec == Init /\ [][Next]_vars

(***************************************************************************)
(* Properties.                                                             *)
(***************************************************************************)
\* A window is traded at most once in a run of the scanner, however often it is
\* re-priced, re-woken or confirmed, and though its trade may end while it is open
\* (consider's traded check).
TakesOnce == busy' /\ ~busy => ep'.start \notin taken

\* A pick that is open, untraded and not refused is looked at again no later than it is
\* due, whether or not a book changes (_wake's reuse of a timer already set). The one
\* exception is a window last priced while its pair had orders in flight.
LooksAgain ==
  (/\ Priced /\ book.ready /\ book.offer = "pick" /\ ep # Closed
   /\ ~busy /\ ~asleep /\ traded # ep.start)
  => watch.window = ep.start /\ \E t \in timers : t <= watch.due

\* A window is on record once: no two rows of the table, and no row and the open window,
\* are the same window, through stops, kills and resumptions (Episodes._resume).
RecordedOnce == /\ \A r, q \in rows : r.start = q.start => r = q
                /\ ep # Closed => \A r \in rows : r.start # ep.start
=============================================================================
