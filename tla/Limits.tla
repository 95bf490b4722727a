------------------------------- MODULE Limits -------------------------------
(***************************************************************************)
(* The live limits that look back and ahead (livetrade.py LiveGuard): how  *)
(* many trades were made today, which markets just missed or had a leg     *)
(* sold back, how many sell-backs there were lately (the circuit breaker), *)
(* when Kalshi closes and when the game starts; and what a restart works   *)
(* out again from the trades on record (LiveTrader.__init__).              *)
(*                                                                         *)
(* The refusals that last a moment (a feed not fresh, no word from Kalshi  *)
(* that it is trading, an attestation lapsing) are left to whether a pick  *)
(* comes at all. A trade is decided and begun in one step, and takes up to *)
(* Longest ticks; what it does with its orders is LiveTrade's. A sell-back *)
(* here stands for one or for a leg left unhedged.                         *)
(***************************************************************************)
EXTENDS Integers, FiniteSetsExt

CONSTANTS Pairs,     \* pairs of markets: sets of two
          StartOf,   \* the scheduled start of a pair's game
          Shut,      \* the ticks Kalshi's published hours have it closed
          PerDay,    \* live_max_trades_per_day
          PerHour,   \* live_max_sellbacks_per_hour
          Hour,      \* SELLBACK_WINDOW_S
          Rest,      \* SELLBACK_REST_S
          Cool,      \* COOL_S
          Margin,    \* CLOSE_MARGIN_S, START_MARGIN_S
          Opening,   \* START_SETTLE_S
          Longest,   \* how long a trade takes at most
          Day,       \* ticks in a day
          MaxTrades, \* bound: trades on record
          MaxRuns,   \* bound: starts
          MaxNow     \* bound: the last tick

\* What is assumed of the limits: Kalshi's closures last longer than the margin kept before them.
LimitsFit ==
    /\ {PerDay, PerHour, Hour, Rest, Cool, Margin, Opening, Longest, MaxTrades, MaxRuns, MaxNow, Day} \subseteq Nat
    /\ PerHour > 0 /\ Day > 0 /\ Cool <= Rest
    /\ StartOf \in [Pairs -> Nat]
    /\ \A t \in 0..MaxNow : {t, t + Margin} \cap Shut = {} => t..(t + Margin) \cap Shut = {}

VARIABLES now,       \* the clock
          run,       \* how often the trader was started
          began,     \* when it was last
          up,        \* it runs
          busy,      \* the trade under way, or NoTrade
          count,     \* LiveGuard.trades_today and the day it counts
          cooling,   \* LiveGuard.cooling
          sold,      \* LiveGuard.sellbacks: the trades, and the time each counts from
          halted,    \* the stop file is there
          hours,     \* LiveGuard.k_schedule has been read in this run
          rows,      \* the trades on record
          resumed    \* how many there were when trading was last resumed

vars == <<now, run, began, up, busy, count, cooling, sold, halted, hours, rows, resumed>>

Markets == UNION Pairs
NoTrade == [pair |-> {}, at |-> 0, hours |-> FALSE]
DayOf(t) == t \div Day
Most(a, b) == IF a < b THEN b ELSE a

Row == [n : 1..MaxTrades, run : 1..MaxRuns, pair : Pairs, at : 0..MaxNow, end : 0..MaxNow,
        how : {"done", "missed", "sold"}, left : SUBSET Markets]
TypeOK == /\ now \in 0..MaxNow /\ run \in 0..MaxRuns /\ began \in 0..now
          /\ busy \in [pair : Pairs \cup {{}}, at : 0..now, hours : BOOLEAN]
          /\ count.day \in 0..DayOf(MaxNow) /\ count.n \in 0..PerDay
          /\ \A m \in Markets : cooling[m] \in 0..MaxNow + Rest
          /\ sold \subseteq [n : 1..MaxTrades, at : 0..now]
          /\ rows \subseteq Row /\ resumed \in 0..MaxTrades
          /\ up \in BOOLEAN /\ halted \in BOOLEAN /\ hours \in BOOLEAN

Init == /\ now = 0 /\ run = 0 /\ began = 0 /\ up = FALSE /\ busy = NoTrade
        /\ count = [day |-> 0, n |-> 0] /\ cooling = [m \in Markets |-> 0] /\ sold = {}
        /\ halted = FALSE /\ hours = FALSE
        /\ rows = {} /\ resumed = 0

(***************************************************************************)
(* The limits.                                                             *)
(***************************************************************************)
\* LiveGuard.trades_today once _roll has looked at the date.
TradesToday == IF count.day = DayOf(now) THEN count.n ELSE 0

\* kalshi_open: what the published hours say of a tick.
Open(t) == t \notin Shut

\* LiveGuard.kalshi_closed, as far as its published hours go.
KalshiClosed == hours /\ ~(Open(now) /\ Open(now + Margin))

\* LiveGuard.near_start.
NearStart(p) == StartOf[p] - Margin <= now /\ now < StartOf[p] + Opening

\* Mutant of MoreToday: the limit itself is let pass.
MoreTodayOne == TradesToday <= PerDay
MoreToday == TradesToday < PerDay

\* LiveGuard.__call__ lets a pick through, and LiveTrader._execute counts it.
Decides(p) ==
  /\ up /\ ~halted /\ busy = NoTrade /\ Cardinality(rows) < MaxTrades
  /\ MoreToday
  /\ ~KalshiClosed /\ ~NearStart(p) /\ \A m \in p : cooling[m] <= now
  /\ busy' = [pair |-> p, at |-> now, hours |-> hours]
  /\ count' = [day |-> DayOf(now), n |-> TradesToday + 1]
  /\ UNCHANGED <<now, run, began, up, cooling, sold, halted, hours, rows, resumed>>

\* LiveGuard.cool: never sooner than already said; what has passed is dropped.
Cooled(c, ms, until) == [m \in Markets |-> LET t == IF c[m] > now THEN c[m] ELSE 0
                                           IN  IF m \in ms THEN Most(t, until) ELSE t]

\* LiveGuard.sold_back, as far as the breaker's list goes.
SoldBack(s, n, at) == {x \in s : x.at > at - Hour} \cup {[n |-> n, at |-> at]}

Trips(s) == Cardinality(s) >= PerHour

\* The markets a trade leaves to be let alone: the one its first leg missed in, or both.
LeftAlone(how) == CASE how = "missed" -> {{m} : m \in busy.pair}
                    [] how = "sold" -> {busy.pair}
                    [] OTHER -> {{}}

\* The trade ends (LiveTrader._finish, _missed).
Finishes(how) ==
  /\ busy # NoTrade
  /\ \E left \in LeftAlone(how) :
       LET n == Cardinality(rows) + 1 IN
       /\ rows' = rows \cup {[n |-> n, run |-> run, pair |-> busy.pair, at |-> busy.at,
                              end |-> now, how |-> how, left |-> left]}
       /\ cooling' = IF left = {} THEN cooling
                     ELSE Cooled(cooling, left, now + (IF how = "sold" THEN Rest ELSE Cool))
       /\ IF how = "sold" THEN /\ sold' = SoldBack(sold, n, now)
                               /\ halted' = (halted \/ Trips(SoldBack(sold, n, now)))
          ELSE UNCHANGED <<sold, halted>>
  /\ busy' = NoTrade
  /\ UNCHANGED <<now, run, began, up, count, hours, resumed>>

(***************************************************************************)
(* What the limits are told, and by whom.                                  *)
(***************************************************************************)
\* LiveGuard.read_exchange has the hours; until it does, the status alone goes.
ReadExchange == /\ up /\ busy = NoTrade /\ ~hours /\ hours' = TRUE
                /\ UNCHANGED <<now, run, began, up, busy, count, cooling, sold, halted, rows, resumed>>

\* The owner takes the stop file away (LiveGuard.poll, live-resume).
Resumes == /\ halted /\ halted' = FALSE /\ resumed' = Cardinality(rows)
           /\ UNCHANGED <<now, run, began, up, busy, count, cooling, sold, hours, rows>>

Tick == /\ now < MaxNow /\ (busy # NoTrade => now < busy.at + Longest)
        /\ now' = now + 1
        /\ UNCHANGED <<run, began, up, busy, count, cooling, sold, halted, hours, rows, resumed>>

\* The process ends; a trade cut short is never written up.
Ends == /\ up /\ up' = FALSE /\ busy' = NoTrade
        /\ UNCHANGED <<now, run, began, count, cooling, sold, halted, hours, rows, resumed>>

\* Mutant of Remembered: a start works out the count alone.
RememberedNot(today) == {}
\* The sell-backs among today's trades.
Remembered(today) == {r \in today : r.how = "sold"}

\* LiveTrader.__init__: the limits, worked out from the trades of today.
Starts ==
  /\ ~up /\ run < MaxRuns /\ up' = TRUE /\ run' = run + 1 /\ began' = now
  /\ LET today == {r \in rows : DayOf(r.at) = DayOf(now)}
         s == Remembered(today)
         last == IF s = {} THEN 0 ELSE Max({r.at : r \in s})
     IN  /\ count' = [day |-> DayOf(now), n |-> Cardinality(today)]
         /\ cooling' = [m \in Markets |->
                          LET ends == {r.at + Rest : r \in {x \in s : m \in x.pair}}
                          IN  IF ends = {} THEN 0 ELSE Max(ends)]
         /\ sold' = {[n |-> r.n, at |-> r.at] : r \in {x \in s : x.at > last - Hour}}
  /\ hours' = FALSE
  /\ UNCHANGED <<now, busy, halted, rows, resumed>>

Next == \/ \E p \in Pairs : Decides(p)
        \/ \E how \in {"done", "missed", "sold"} : Finishes(how)
        \/ ReadExchange \/ Resumes \/ Tick \/ Ends \/ Starts

Spec == Init /\ [][Next]_vars

(***************************************************************************)
(* Properties, of the trade under way.                                     *)
(***************************************************************************)
\* A trade on record this run knows of: its own, or one made on the day it started.
Knows(r) == r.run = run \/ DayOf(r.at) = DayOf(began)
From(r) == IF r.run = run THEN r.end ELSE r.at

\* No more than PerDay trades on record are made in a day, across restarts.
DayKept == Cardinality({r \in rows : DayOf(r.at) = DayOf(busy.at)}) < PerDay

\* A market is left alone after a sell-back, and after a miss in this run.
RestKept == \A r \in rows :
              r.left \cap busy.pair # {} =>
                /\ r.how = "sold" /\ Knows(r) => busy.at >= From(r) + Rest
                /\ r.how = "missed" /\ r.run = run => busy.at >= r.end + Cool

\* With PerHour sell-backs in the last hour nobody trades until the owner resumes.
BreakerKept == Cardinality({r \in rows : /\ r.how = "sold" /\ Knows(r) /\ r.n > resumed
                                         /\ From(r) > busy.at - Hour}) < PerHour

\* It is over before Kalshi closes, where its hours were known, and before the game
\* starts, or began only after the opening minutes; unless it outlasts the margin (a rescue may).
ClockKept ==
    now <= busy.at + Margin =>
        /\ busy.hours => now \notin Shut
        /\ now < StartOf[busy.pair] \/ busy.at >= StartOf[busy.pair] + Opening

\* The trade under way is one the limits allow, by what the records and the clock say,
\* whatever restarts, stops, resumes and days there were before it (LiveGuard, rebuilt by
\* LiveTrader.__init__).
WithinTheLimits == busy # NoTrade => DayKept /\ RestKept /\ BreakerKept /\ ClockKept
=============================================================================
