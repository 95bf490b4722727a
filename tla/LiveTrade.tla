------------------------------ MODULE LiveTrade ------------------------------
(***************************************************************************)
(* How the live trader executes a trade with real orders                   *)
(* (arbscan/livetrade.py, arbscan/orders.py): the orders one trade sends,   *)
(* what becomes of each at its venue, the journal and the stop file on     *)
(* disk, the account read back between trades, crashes and restarts, and   *)
(* the user's live-halt and live-resume.                                   *)
(*                                                                         *)
(* Three parties run side by side.  The trader is one asyncio event loop:  *)
(* a coroutine runs undisturbed by the loop's other tasks from one await   *)
(* to the next (LoopFree).  The venues, the database thread and the user's *)
(* commands are separate processes or threads and step at any time.        *)
(*                                                                         *)
(* Quantities are in units, Unit of them to a contract: Kalshi fills whole *)
(* contracts, Polymarket US may fill part of one.  Prices, fees and cash   *)
(* are not here: whether an order is worth its price is a free choice.     *)
(* The limits that only refuse a pick (day limits, cooling, feeds, game    *)
(* start) are left to the choice of whether Execute happens at all.        *)
(***************************************************************************)
EXTENDS Integers, FiniteSets

CONSTANTS
    Pairs,        \* the market pairs that may be traded
    Leads,        \* the venues the first leg may go to (cfg.live_lead_venue)
    Sizes,        \* planned sizes, in contracts
    Unit,         \* units per contract
    MaxRejects,   \* MAX_REJECTS
    Rounds,       \* rounds of a rescue: live_rescue_s / RESCUE_EVERY_S
    BlindEvery,   \* RESCUE_BLIND_EVERY
    RowCap,       \* a bound of the model only: no trade in a pair whose open rows hold more
    Ids,          \* client order ids (those of finished orders are used again)
    Crashes,      \* may the process die?
    Faults,       \* may a write of the journal or of the stop file fail?
    CarefulUser   \* is live-resume only run between trades, with the account re-read?

Venues == {"K", "P"}

ASSUME NamesAssumption == Pairs # {} /\ Ids # {}
ASSUME UnitAssumption == Unit \in Nat \ {0}
ASSUME SizesAssumption == Sizes \subseteq Nat \ {0} /\ RowCap \in Nat
ASSUME LeadsAssumption == Leads \subseteq Venues
ASSUME BoundsAssumption == MaxRejects \in Nat /\ Rounds \in Nat \ {0} /\ BlindEvery \in Nat \ {0}
ASSUME SwitchAssumption == {Crashes, Faults, CarefulUser} \subseteq BOOLEAN

VARIABLES
    \* at the venues
    pos,        \* what the account holds of each leg of each pair
    order,      \* the trader's one order under way, as its venue has it
    \* on disk
    journal,    \* live_journal.jsonl: the ids Journal.unresolved would list
    haltFile,   \* live.halt exists
    saved,      \* live_trades as committed: what each pair's open rows hold
    \* the process
    up,         \* it runs
    trade,      \* the trade under way
    rows,       \* LiveTrader.open: what each pair's open trades hold
    belief,     \* Guard.positions
    acct,       \* the account was never read, read before the last trade, or since
    reading,    \* a read_account under way: its data, and whether it will be kept
    halted,     \* LiveGuard.halted
    stuck,      \* LiveGuard.stuck
    paused,     \* an order was turned away for paused trading less than PAUSED_S ago
    rejects,    \* LiveTrader.rejects, up to MaxRejects
    reserved,   \* PaperTrader.reserved
    \* the user
    resuming,   \* a live-resume under way: the orders it found unresolved
    \* history, for the properties only
    cut,        \* pairs whose trade, or its row, was lost with the process
    handed      \* pairs the user took over by lifting a stop

disk    == <<journal, haltFile, saved>>
limits  == <<halted, stuck, paused, rejects>>
account == <<belief, acct, reading>>
history == <<cut, handed>>
vars == <<pos, order, disk, up, trade, rows, account, limits, reserved, resuming, history>>

-----------------------------------------------------------------------------
(* Values *)

Other(v) == IF v = "K" THEN "P" ELSE "K"
Least(a, b) == IF a <= b THEN a ELSE b
Flat == [v \in Venues |-> 0]
Nothing == [p \in Pairs |-> Flat]

\* The whole contracts in n units, as units: the source's math.floor.
Whole(n) == n - (n % Unit)

\* status_of in orders.py.
StatusOf(n, qty) == IF n >= qty THEN "filled" ELSE IF n > 0 THEN "partial" ELSE "none"

\* _sign: how n units filled move the position (the side is the pair's own).
Signed(o, n) == IF o.act = "buy" THEN n ELSE -n

\* The trade's coroutine runs next at one of these points; it waits for an
\* order's outcome, or sleeps in a rescue, everywhere else.
Points == {"idle", "first", "second", "chase", "complete", "sell", "rescue", "look", "rescued", "done"}

NoTrade == [at |-> "idle", pair |-> CHOOSE p \in Pairs : TRUE, lead |-> "P", long |-> "P", got |-> Flat,
            reserve |-> 0, round |-> 0, stopped |-> FALSE, unwound |-> FALSE]

NoOrder == [phase |-> "none", pair |-> CHOOSE p \in Pairs : TRUE, venue |-> "P", act |-> "buy", qty |-> 0,
            fok |-> FALSE, id |-> CHOOSE i \in Ids : TRUE, before |-> 0, filled |-> 0, verdict |-> "ok"]

NoReading == [state |-> "none", seen |-> Nothing]
NotResuming == [on |-> FALSE, ids |-> {}]

-----------------------------------------------------------------------------
(* The type of each variable *)

Holdings == [Venues -> Int]

Trades == [at : Points, pair : Pairs, lead : Venues, long : Venues, got : Holdings, reserve : Nat,
           round : 0..Rounds, stopped : BOOLEAN, unwound : BOOLEAN]

Orders == [phase : {"none", "waiting", "sent", "acted", "unclear"}, pair : Pairs, venue : Venues,
           act : {"buy", "sell"}, qty : Nat, fok : BOOLEAN, id : Ids, before : Int, filled : Nat,
           verdict : {"ok", "rejected", "paused", "lost"}]

TypeOK ==
    /\ pos \in [Pairs -> Holdings]
    /\ order \in Orders
    /\ journal \subseteq Ids
    /\ haltFile \in BOOLEAN
    /\ saved \in [Pairs -> Holdings]
    /\ up \in BOOLEAN
    /\ trade \in Trades
    /\ rows \in [Pairs -> Holdings]
    /\ belief \in [Pairs -> Holdings]
    /\ acct \in {"unread", "stale", "fresh"}
    /\ reading \in [state : {"none", "kept", "late"}, seen : [Pairs -> Holdings]]
    /\ halted \in BOOLEAN
    /\ stuck \in BOOLEAN
    /\ paused \in BOOLEAN
    /\ rejects \in 0..MaxRejects
    /\ reserved \in [Venues -> Int]
    /\ resuming \in [on : BOOLEAN, ids : SUBSET Ids]
    /\ cut \subseteq Pairs
    /\ handed \subseteq Pairs

Init ==
    /\ pos = Nothing /\ order = NoOrder
    /\ journal = {} /\ haltFile = FALSE /\ saved = Nothing
    /\ up = TRUE /\ trade = NoTrade /\ rows = Nothing
    /\ belief = Nothing /\ acct = "unread" /\ reading = NoReading
    /\ halted = FALSE /\ stuck = FALSE /\ paused = FALSE /\ rejects = 0
    /\ reserved = Flat
    /\ resuming = NotResuming
    /\ cut = {} /\ handed = {}

-----------------------------------------------------------------------------
(* Helpers *)

Idle == trade.at = "idle"

\* A coroutine of the trade is running: no other task of the loop steps until
\* it waits again.
Deciding == trade.at \notin {"idle", "rescue", "look"} /\ order.phase = "none"
LoopFree == up /\ ~Deciding

\* Mutant of Left: the other side's fills are forgotten.
LeftOfLong(t) == Whole(t.got[t.long])

\* Contracts of the long leg without their other side, in units: the source's x.
Left(t) == Whole(t.got[t.long] - t.got[Other(t.long)])

\* Mutant of Opens: an order just turned away as paused is forgotten.
OpensAnyway(v) == IF v # "K" THEN {TRUE} ELSE BOOLEAN

\* LiveTrader._open: what asking whether v takes orders now may say.
Opens(v) == IF v # "K" THEN {TRUE} ELSE IF paused THEN {FALSE} ELSE BOOLEAN

\* LiveGuard.halt: the reason is appended to the stop file; if that fails, the
\* trader stays stopped in memory until a restart.
Halt ==
    /\ halted' = TRUE
    /\ \/ haltFile' = TRUE /\ stuck' = stuck
       \/ Faults /\ stuck' = TRUE /\ haltFile' = haltFile

NoHalt == UNCHANGED <<halted, stuck, haltFile>>

\* The coroutine asks for an order of n units and waits for its outcome, to go
\* on at the point at.  It first waits out ORDER_GAP_S.
Ask(t, at, v, act, n, fok) ==
    /\ trade' = [t EXCEPT !.at = at]
    /\ order' = [NoOrder EXCEPT !.phase = "waiting", !.pair = t.pair, !.venue = v, !.act = act,
                                !.qty = n, !.fok = fok]

\* The coroutine goes on at the point at without waiting.
GoOn(t, at) == trade' = [t EXCEPT !.at = at] /\ order' = NoOrder

-----------------------------------------------------------------------------
(* The trade: LiveTrader._execute and what it calls *)

\* Mutant of Overtaken: the trade doesn't bump the epoch.
StillKept(r) == r

\* guard.epoch += 1: a read_account under way won't be kept.
Overtaken(r) == [r EXCEPT !.state = IF @ = "kept" THEN "late" ELSE @]

\* LiveGuard.__call__, as far as the trader's own state goes: not stopped, Kalshi
\* not paused, the account read, and neither market held.
Passes(p) == ~halted /\ ~paused /\ acct # "unread" /\ belief[p] = Flat

\* PaperTrader.consider takes a pick: the guard passes, the money is set aside.
\* Its task starts _execute, which orders the first leg.
Execute(p, lead, size) ==
    /\ up /\ Idle /\ Passes(p)
    /\ \A v \in Venues : rows[p][v] <= RowCap
    /\ Ask([NoTrade EXCEPT !.pair = p, !.lead = lead, !.long = lead, !.reserve = size * Unit],
           "first", lead, "buy", size * Unit, lead = "P")
    /\ reserved' = [v \in Venues |-> reserved[v] + size * Unit]
    /\ acct' = "stale"
    /\ reading' = Overtaken(reading)
    /\ UNCHANGED <<pos, disk, up, rows, belief, limits, resuming, history>>

\* _send, up to the order leaving: the journal has it before the venue does.
Send ==
    /\ up /\ order.phase = "waiting"
    /\ Ids \ journal # {}
    /\ LET id == CHOOSE i \in Ids \ journal : TRUE IN
         /\ journal' = journal \cup {id}
         /\ order' = [order EXCEPT !.phase = "sent", !.id = id, !.before = belief[order.pair][order.venue]]
    /\ UNCHANGED <<pos, haltFile, saved, up, trade, rows, account, limits, reserved, resuming, history>>

\* An exception nobody expected ends the trade (_execute's except clauses).
Fail(t) ==
    /\ Halt
    /\ GoOn([t EXCEPT !.stopped = TRUE], "done")

\* ... as when the journal can't be written, and so the order isn't sent.
SendFails ==
    /\ Faults /\ up /\ order.phase = "waiting"
    /\ Fail(trade)
    /\ UNCHANGED <<pos, journal, saved, up, rows, account, paused, rejects, reserved, resuming, history>>

\* The exchange works the order: a fill-or-kill order fills whole or not at
\* all, Kalshi fills whole contracts, and a sale closes at most what is held.
Fills(o) ==
    {n \in 0..o.qty : /\ o.fok => n \in {0, o.qty}
                      /\ o.venue = "K" => n % Unit = 0
                      /\ o.act = "sell" => n <= pos[o.pair][o.venue]}

Exchange ==
    /\ order.phase = "sent"
    /\ \/ \E n \in Fills(order) :
            /\ order' = [order EXCEPT !.phase = "acted", !.filled = n]
            /\ pos' = [pos EXCEPT ![order.pair][order.venue] = @ + Signed(order, n)]
       \/ \E verdict \in {"rejected", "lost"} \cup (IF order.venue = "K" THEN {"paused"} ELSE {}) :
            /\ order' = [order EXCEPT !.phase = "acted", !.verdict = verdict]
            /\ pos' = pos
    /\ UNCHANGED <<disk, up, trade, rows, account, limits, reserved, resuming, history>>

\* _moved: the account's positions are kept current between reads.
Moved(o, n) == IF n > 0 THEN [belief EXCEPT ![o.pair][o.venue] = o.before + Signed(o, n)] ELSE belief

\* _send, once it knows (or gives up knowing) what the order did: n units, with
\* the status; everything to the next await.  Only one whose outcome stays
\* unknown leaves its journal entry open, and stops the trader.
Learn(status, n) ==
    LET o == order
        t == [trade EXCEPT !.got[o.venue] = @ + Signed(o, n),
                           !.unwound = @ \/ (o.act = "sell" /\ n > 0 /\ status # "unknown")]
    IN  /\ belief' = Moved(o, n)
        /\ paused' = (paused \/ status = "paused")
        /\ rejects' = CASE status \in {"paused", "unknown"} -> rejects
                        [] status = "rejected" -> Least(rejects + 1, MaxRejects)
                        [] OTHER -> 0
        /\ journal' = IF status = "unknown" THEN journal ELSE journal \ {o.id}
        /\ IF status = "unknown" THEN Fail(t) ELSE GoOn(t, t.at) /\ NoHalt
        /\ UNCHANGED <<pos, saved, up, rows, acct, reading, reserved, resuming, history>>

\* The venue's reply says what happened (orders.py: parse, a 4xx, a connection
\* that never opened), or Polymarket US's order is read back by its id.
Reply ==
    /\ up /\ ~Idle
    /\ \/ order.phase = "acted"
       \/ order.phase = "unclear" /\ order.venue = "P"
    /\ order.verdict # "lost"
    /\ Learn(IF order.verdict = "ok" THEN StatusOf(order.filled, order.qty) ELSE order.verdict, order.filled)

\* A timeout, a 5xx, a reply that can't be read, an order still working.
ReplyUnclear ==
    /\ up /\ ~Idle /\ order.phase = "acted"
    /\ order' = [order EXCEPT !.phase = "unclear"]
    /\ UNCHANGED <<pos, disk, up, trade, rows, account, limits, reserved, resuming, history>>

\* Mutant of ReadAs: the position alone, as if nothing was held before the order.
ReadFromZero(o) == IF pos[o.pair][o.venue] > o.qty THEN o.qty ELSE pos[o.pair][o.venue]

\* _resolve's reading of the position: how much of the order o must have filled.
ReadAs(o) ==
    LET moved == Signed(o, pos[o.pair][o.venue] - o.before)
    IN  IF moved < 0 THEN 0 ELSE Least(moved, o.qty)

\* _resolve: the position says how much of the order filled ...
ReadPosition ==
    /\ up /\ ~Idle /\ order.phase = "unclear"
    /\ Learn(StatusOf(ReadAs(order), order.qty), ReadAs(order))

\* ... or every read of it fails.  What a Polymarket US reply had listed as
\* filled counts even so.
GiveUp ==
    /\ up /\ ~Idle /\ order.phase = "unclear"
    /\ \E n \in 0..(IF order.venue = "P" THEN order.filled ELSE 0) : Learn("unknown", n)

\* The outcome is known but can't be journaled: the exception leaves it uncounted.
LearnFails ==
    /\ Faults /\ up /\ ~Idle /\ order.phase \in {"acted", "unclear"}
    /\ Fail(trade)
    /\ UNCHANGED <<pos, journal, saved, up, rows, account, paused, rejects, reserved, resuming, history>>

\* The other leg for the whole contracts the first one got.
BuyFollow ==
    /\ Deciding /\ trade.at = "first" /\ trade.got[trade.lead] >= Unit
    /\ Ask(trade, "second", Other(trade.lead), "buy", Whole(trade.got[trade.lead]), FALSE)
    /\ UNCHANGED <<pos, disk, up, rows, account, limits, reserved, resuming, history>>

\* _even_up past its first order: past break-even the missing contracts are
\* bought if the books make that the cheaper way out, or else the extra ones
\* are sold back.
GetOut(t) ==
    IF Left(t) < Unit
    THEN GoOn(t, "done")
    ELSE \/ TRUE \in Opens(Other(t.long)) /\ Ask(t, "complete", Other(t.long), "buy", Left(t), FALSE)
         \/ Ask(t, "sell", t.long, "sell", Left(t), FALSE)

\* _even_up: an unequal fill of a contract or more.  The missing leg is bought
\* up to break-even, unless its venue is closed or was just offered as much.
EvenUp ==
    /\ Deciding
    /\ trade.at = "second" \/ (trade.at = "first" /\ trade.got[trade.lead] < Unit)
    /\ LET gap == trade.got["K"] - trade.got["P"]
           t == [trade EXCEPT !.long = IF gap > 0 THEN "K" ELSE "P"]
       IN  IF gap < Unit /\ gap > -Unit
           THEN GoOn(trade, "done")
           ELSE \/ TRUE \in Opens(Other(t.long)) /\ Ask(t, "chase", Other(t.long), "buy", Left(t), FALSE)
                \/ GetOut(t)
    /\ UNCHANGED <<pos, disk, up, rows, account, limits, reserved, resuming, history>>

Chased ==
    /\ Deciding /\ trade.at = "chase"
    /\ GetOut(trade)
    /\ UNCHANGED <<pos, disk, up, rows, account, limits, reserved, resuming, history>>

\* _sell_back what the purchase past break-even didn't cover.
SellBack ==
    /\ Deciding /\ trade.at = "complete"
    /\ IF Left(trade) < Unit
       THEN GoOn(trade, "done")
       ELSE Ask(trade, "sell", trade.long, "sell", Left(trade), FALSE)
    /\ UNCHANGED <<pos, disk, up, rows, account, limits, reserved, resuming, history>>

\* What the sale left over goes to _rescue.
Sold ==
    /\ Deciding /\ trade.at = "sell"
    /\ IF Left(trade) < Unit
       THEN GoOn(trade, "done")
       ELSE GoOn([trade EXCEPT !.round = 1], "rescue")
    /\ UNCHANGED <<pos, disk, up, rows, account, limits, reserved, resuming, history>>

\* LiveGuard.poll: trading stops while the stop file is there.
PolledHalt == haltFile \/ (halted /\ stuck)

\* A round of _rescue: it sleeps RESCUE_EVERY_S, looks at the stop file and
\* asks Kalshi's status, ...
RescuePoll ==
    /\ up /\ trade.at = "rescue"
    /\ trade' = [trade EXCEPT !.at = "look"]
    /\ halted' = PolledHalt
    /\ UNCHANGED <<pos, order, disk, up, rows, account, stuck, paused, rejects, reserved, resuming, history>>

\* Mutants of NextRound: one round too many, ...
NextRoundLate(t) ==
    IF Left(t) < Unit THEN GoOn(t, "done") /\ NoHalt
    ELSE IF t.round > Rounds THEN Fail(t)
    ELSE GoOn([t EXCEPT !.round = @ + 1], "rescue") /\ NoHalt

\* ... giving up without stopping, ...
NextRoundQuiet(t) ==
    IF Left(t) < Unit \/ t.round = Rounds THEN GoOn(t, "done") /\ NoHalt
    ELSE GoOn([t EXCEPT !.round = @ + 1], "rescue") /\ NoHalt

\* ... rounds that aren't counted.
NextRoundUncounted(t) ==
    IF Left(t) < Unit THEN GoOn(t, "done") /\ NoHalt
    ELSE GoOn(t, "rescue") /\ NoHalt

\* ... and once a round is over starts the next, unless nothing is unhedged any
\* more or the rescue's time is up, which stops trading.
NextRound(t) ==
    IF Left(t) < Unit THEN GoOn(t, "done") /\ NoHalt
    ELSE IF t.round = Rounds THEN Fail(t)
    ELSE GoOn([t EXCEPT !.round = @ + 1], "rescue") /\ NoHalt

\* The round's order, if the books show a way out: a purchase of the missing
\* contracts, or a sale of the extra ones (tried blind now and then).  A stop
\* made meanwhile leaves the position to the user.
RescueAct ==
    /\ up /\ trade.at = "look"
    /\ IF halted THEN Fail(trade)
       ELSE LET short == Other(trade.long) IN
            \/ /\ TRUE \in Opens(short)
               /\ Ask(trade, "rescued", short, "buy", Left(trade), FALSE) /\ NoHalt
            \/ /\ TRUE \in Opens(trade.long)
               /\ Ask(trade, "rescued", trade.long, "sell", Left(trade), FALSE) /\ NoHalt
            \/ /\ FALSE \in Opens(trade.long) \/ trade.round % BlindEvery # 0
               /\ NextRound(trade)
    /\ UNCHANGED <<pos, journal, saved, up, rows, account, paused, rejects, reserved, resuming, history>>

Rescued ==
    /\ Deciding /\ trade.at = "rescued"
    /\ NextRound(trade)
    /\ UNCHANGED <<pos, journal, saved, up, rows, account, paused, rejects, reserved, resuming, history>>

\* Mutant of Release: given back only on the way out that no Halt cuts short.
ReleaseUnlessStopped ==
    reserved' = IF trade.stopped THEN reserved ELSE [v \in Venues |-> reserved[v] - trade.reserve]

\* _execute's finally: the money set aside is free again, however the trade ended.
Release == reserved' = [v \in Venues |-> reserved[v] - trade.reserve]

\* A trade that holds something, or was stopped, is kept open.
Kept(t) == IF t.got = Flat /\ ~t.stopped THEN rows
           ELSE [rows EXCEPT ![t.pair] = [v \in Venues |-> @[v] + t.got[v]]]

\* It sold a leg back, or leaves one unhedged: what the breaker counts.
SoldBack(t) == t.unwound \/ t.got["K"] - t.got["P"] >= Unit \/ t.got["P"] - t.got["K"] >= Unit

\* _finish, and _execute's way out: the sell-back breaker or a run of rejected
\* orders may stop trading ...
Finish ==
    /\ Deciding /\ trade.at = "done"
    /\ trade' = NoTrade /\ order' = NoOrder
    /\ rows' = Kept(trade)
    /\ Release
    /\ \/ rejects < MaxRejects /\ NoHalt
       \/ halted /\ NoHalt
       \/ ~halted /\ (rejects >= MaxRejects \/ SoldBack(trade)) /\ Halt
    /\ UNCHANGED <<pos, journal, saved, up, account, paused, rejects, resuming, history>>

\* ... and so does a failure here, which leaves the trade unrecorded.
FinishFails ==
    /\ Faults /\ Deciding /\ trade.at = "done"
    /\ trade' = NoTrade /\ order' = NoOrder
    /\ Release
    /\ Halt
    /\ UNCHANGED <<pos, journal, saved, up, rows, account, paused, rejects, resuming, history>>

-----------------------------------------------------------------------------
(* Between trades: LiveRun *)

\* LiveRun._run: the stop file, every POLL_S.
Poll ==
    /\ LoopFree
    /\ halted' = PolledHalt
    /\ UNCHANGED <<pos, order, disk, up, trade, rows, account, stuck, paused, rejects, reserved, resuming, history>>

\* LiveRun._run while no trade is busy: Guard.read_account asks the venues ...
ReadAccount ==
    /\ LoopFree /\ Idle /\ reading.state = "none"
    /\ reading' = [state |-> "kept", seen |-> pos]
    /\ UNCHANGED <<pos, order, disk, up, trade, rows, belief, acct, limits, reserved, resuming, history>>

\* ... and keeps what they said, unless a trade started meanwhile.
AccountRead ==
    /\ LoopFree /\ reading.state # "none"
    /\ reading' = NoReading
    /\ IF reading.state = "kept"
       THEN belief' = reading.seen /\ acct' = "fresh"
       ELSE UNCHANGED <<belief, acct>>
    /\ UNCHANGED <<pos, order, disk, up, trade, rows, limits, reserved, resuming, history>>

AccountReadFails ==
    /\ LoopFree /\ reading.state # "none"
    /\ reading' = NoReading
    /\ UNCHANGED <<pos, order, disk, up, trade, rows, belief, acct, limits, reserved, resuming, history>>

\* PAUSED_S after an order was turned away.
PauseEnds ==
    /\ paused
    /\ paused' = FALSE
    /\ UNCHANGED <<pos, order, disk, up, trade, rows, account, halted, stuck, rejects, reserved, resuming, history>>

\* DbWriter's thread commits the rows written so far (or a crash comes first,
\* or SQLite refuses them, and they never are).
Commit ==
    /\ saved # rows
    /\ saved' = rows
    /\ UNCHANGED <<pos, order, journal, haltFile, up, trade, rows, account, limits, reserved, resuming, history>>

-----------------------------------------------------------------------------
(* Crashes and the user *)

\* What isn't as recorded, or has a leg unhedged, in the pair p.
Off(p) == \/ pos[p] # rows[p]
          \/ pos[p]["K"] - pos[p]["P"] >= Unit
          \/ pos[p]["P"] - pos[p]["K"] >= Unit

\* The process dies, at any point, or is told to stop and doesn't wait out a
\* trade that takes more than 30 s (live.py).  An order that has left goes its
\* own way.  A stop that was never written down is lifted by the restart, as
\* the log said it would be.
Crash ==
    /\ Crashes /\ up
    /\ up' = FALSE
    /\ trade' = NoTrade
    /\ order' = IF order.phase = "sent" THEN order ELSE NoOrder
    /\ rows' = saved
    /\ belief' = Nothing /\ acct' = "unread" /\ reading' = NoReading
    /\ halted' = FALSE /\ stuck' = FALSE /\ paused' = FALSE /\ rejects' = 0
    /\ reserved' = Flat
    /\ cut' = cut \cup (IF Idle THEN {} ELSE {trade.pair}) \cup {p \in Pairs : rows[p] # saved[p]}
    /\ handed' = IF stuck THEN handed \cup {p \in Pairs : Off(p)} ELSE handed
    /\ UNCHANGED <<pos, disk, resuming>>

\* Mutant of Unresolved: an order that was sent counts as known.
NoneUnresolved == {}

\* Journal.unresolved: orders sent whose outcome was never learned, not cleared since.
Unresolved == journal

\* LiveRun.__init__: the open rows are loaded, the stop file is looked at, and
\* an order whose outcome the journal doesn't have stops trading.
Restart ==
    /\ ~up /\ order.phase # "sent"
    /\ up' = TRUE
    /\ order' = NoOrder
    /\ IF haltFile THEN halted' = TRUE /\ UNCHANGED <<stuck, haltFile>>
       ELSE IF Unresolved # {} THEN Halt
       ELSE NoHalt
    /\ UNCHANGED <<pos, journal, saved, trade, rows, account, paused, rejects, reserved, resuming, history>>

\* arbscan live-halt, or the stop file made by hand.
HaltByHand ==
    /\ ~haltFile
    /\ haltFile' = TRUE
    /\ UNCHANGED <<pos, order, journal, saved, up, trade, rows, account, limits, reserved, resuming, history>>

\* arbscan live-resume (--checked if it lists anything): the journal is read ...
ResumeRead ==
    /\ ~resuming.on
    /\ CarefulUser => Idle /\ haltFile /\ (up => halted /\ acct = "fresh")
    /\ resuming' = [on |-> TRUE, ids |-> Unresolved]
    /\ UNCHANGED <<pos, order, disk, up, trade, rows, account, limits, reserved, history>>

\* ... what it listed is cleared, and the stop file removed.
ResumeApply ==
    /\ resuming.on
    /\ CarefulUser => Idle
    /\ journal' = journal \ resuming.ids
    /\ haltFile' = FALSE
    /\ resuming' = NotResuming
    /\ handed' = handed \cup {p \in Pairs : Off(p)}
    /\ UNCHANGED <<pos, order, saved, up, trade, rows, account, limits, reserved, cut>>

-----------------------------------------------------------------------------

\* The steps of a trade under way: each ends a wait that is bounded (a sleep, a
\* request with a timeout) or follows the one before at once.
TradeStep ==
    \/ Send \/ SendFails \/ Exchange \/ Reply \/ ReplyUnclear \/ ReadPosition \/ GiveUp \/ LearnFails
    \/ BuyFollow \/ EvenUp \/ Chased \/ SellBack \/ Sold \/ RescuePoll \/ RescueAct \/ Rescued
    \/ Finish \/ FinishFails

Next ==
    \/ \E p \in Pairs, lead \in Leads, size \in Sizes : Execute(p, lead, size)
    \/ TradeStep
    \/ Poll \/ ReadAccount \/ AccountRead \/ AccountReadFails \/ PauseEnds \/ Commit
    \/ Crash \/ Restart \/ HaltByHand \/ ResumeRead \/ ResumeApply

Spec == Init /\ [][Next]_vars

\* The event loop goes on running the trade's coroutine, and every request it
\* waits for is answered or times out.
FairSpec == Spec /\ WF_vars(TradeStep)

-----------------------------------------------------------------------------
(* Properties *)

Running == up /\ ~halted

\* The trader's account is the venues' (the module docstring: "live_trades
\* holds exactly what the venues hold").  While it runs and isn't stopped, each
\* pair's open rows hold what the venues hold of it, and the fills of the trade
\* under way are the venue's whenever none of its orders is out: whatever was
\* filled partly, rejected, timed out and read back.  Left out: pairs a crash
\* cut short and pairs the user took over.
AccountExact ==
    Running => \A p \in Pairs \ (cut \cup handed) :
                 IF Idle \/ trade.pair # p THEN pos[p] = rows[p]
                 ELSE order.phase \in {"none", "waiting"} => pos[p] = trade.got

\* A leg left unhedged stops trading (the module docstring, "Stopping"): between
\* trades of a trader that isn't stopped no pair has a contract or more without
\* its other side, however its trade went.
HedgedOrStopped ==
    Running /\ Idle =>
        \A p \in Pairs \ (cut \cup handed) :
            pos[p]["K"] - pos[p]["P"] < Unit /\ pos[p]["P"] - pos[p]["K"] < Unit

\* No order goes further than evening the trade up: counting the order under
\* way as filled in full, the second leg never holds more than the first, and a
\* sale never turns a position short.
NeverOverHedged ==
    ~Idle =>
        LET v == order.venue
            rest == IF order.phase = "none" THEN 0 ELSE Signed(order, order.qty)
            full == [trade.got EXCEPT ![v] = @ + rest]
        IN  0 <= full[Other(trade.lead)] /\ full[Other(trade.lead)] <= full[trade.lead]

\* The position an order is read back against (Order before, in _send) is what
\* the account held when it left: a read_account that a trade overtook is never
\* taken for current.
BeforeExact ==
    order.phase = "sent" /\ up /\ order.pair \notin handed =>
        order.before = pos[order.pair][order.venue]

\* The money a trade set aside is given back once, whichever way it ends.
ReservedExact ==
    up => reserved = [v \in Venues |-> IF Idle THEN 0 ELSE trade.reserve]

\* "An order is never sent" while an earlier one's outcome is unknown and no one
\* has checked it: not later in the trade, not in another, not after a crash, a
\* restart and a stop file that couldn't be written (Journal, LiveRun.__init__).
NoSendWhileUnresolved ==
    [][order.phase = "waiting" /\ order'.phase = "sent" => journal = {}]_vars

\* Once Kalshi has turned an order away as paused, the trade sends it no other
\* until the pause has passed (_open, kalshi_paused).
NoOrderIntoPause ==
    [][order.phase = "none" /\ order'.phase = "waiting" /\ order'.venue = "K" => ~paused]_vars

\* Every trade ends: whatever its orders meet, the trader comes back to be free
\* for the next one or stopped (_rescue is bounded by live_rescue_s).
TradeEnds == ~Idle ~> Idle

\* "A crash mid-trade" stops trading (the module docstring, "Stopping"): between
\* trades of a trader that isn't stopped, a pair whose trade was cut short by a
\* crash is as recorded and hedged.
CrashMidTradeStops ==
    Running /\ Idle => \A p \in cut \ handed : ~Off(p)
=============================================================================
