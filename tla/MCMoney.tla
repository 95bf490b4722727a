------------------------------ MODULE MCMoney ------------------------------
(***************************************************************************)
(* Model checking the money: the cash of Kalshi's shards and everything     *)
(* that moves it, ShardCash, and the transfers of a round, ShardPlan; the   *)
(* accounts of the paper trades, PaperAccount, and of the live ones,        *)
(* Settlement; and how the owner's ledger is read, Ledgers.  They share no  *)
(* state here, so a behaviour is of one of them, and the others' variables  *)
(* stay as they began.  (realized, which two have, is one.)                 *)
(***************************************************************************)
EXTENDS ShardCash

CONSTANTS
    PlanShards, MaxPlanCash, Cent, MinMove, Drift, DriftPct,    \* ShardPlan's
    Trades, Deposits, Price,                                    \* PaperAccount's
    Values, Costs, Faults, MaxDay,                              \* Settlement's
    Prices, Overlap, Late, MaxFills, MaxNow                     \* Ledgers'

VARIABLES
    part,                                                           \* which of them
    planned, want, short,                                           \* ShardPlan's
    realized,
    paper, funds, tied, reserved, deposits, failed, excused,        \* PaperAccount's
    day, entry, results, row, disk, made, booked, held, pnl, gday,  \* Settlement's
    payouts, committed, fresh, reader, up, late,
    now, pos, entries, shown, moves, readTo, reading, crossed       \* Ledgers'

plan == <<planned, want, short>>
books == <<paper, funds, tied, reserved, deposits, failed, excused>>
live == <<day, entry, results, row, disk, made, booked, held, pnl, gday, payouts, committed, fresh, reader, up,
          late>>
ledger == <<now, pos, entries, shown, moves, readTo, reading, crossed>>
all == <<vars, part, plan, realized, books, live, ledger>>

Transfers == INSTANCE ShardPlan WITH Shards <- PlanShards, MaxCash <- MaxPlanCash, cash <- planned
Paper == INSTANCE PaperAccount WITH trade <- paper, cash <- funds, lost <- failed
Live == INSTANCE Settlement WITH kept <- committed
Ledger == INSTANCE Ledgers

ASSUME PlanAssumption == Transfers!AmountsFit
ASSUME PaperAssumption == Paper!PaperFits
ASSUME SettleAssumption == Live!ValuesFit
ASSUME LedgerAssumption == Ledger!LedgerFits

NoPlan == planned = 0 /\ want = 0 /\ short = {}
NoPaper == /\ paper = 0 /\ funds = 0 /\ tied = 0 /\ reserved = 0 /\ deposits = 0
           /\ failed = 0 /\ excused = {}
NotLive == /\ day = 0 /\ entry = 0 /\ results = 0 /\ row = 0 /\ disk = 0 /\ made = 0 /\ booked = 0 /\ held = 0 /\ pnl = 0
           /\ gday = 0 /\ payouts = 0 /\ committed = 0 /\ fresh = {} /\ reader = 0 /\ up = FALSE
           /\ late = FALSE
NoLedger == /\ now = 0 /\ pos = 0 /\ entries = 0 /\ shown = 0 /\ moves = 0 /\ readTo = 0
            /\ reading = 0 /\ crossed = FALSE
Still == real = Empty /\ Init

MCInit ==
    \/ part = "cash" /\ Init /\ realized = 0 /\ NoPlan /\ NoPaper /\ NotLive /\ NoLedger
    \/ part = "plan" /\ Transfers!Init /\ realized = 0 /\ Still /\ NoPaper /\ NotLive /\ NoLedger
    \/ part = "paper" /\ Paper!Init /\ Still /\ NoPlan /\ NotLive /\ NoLedger
    \/ part = "live" /\ Live!Init /\ Still /\ NoPlan /\ NoPaper /\ NoLedger
    \/ part = "ledger" /\ Ledger!Init /\ realized = 0 /\ Still /\ NoPlan /\ NoPaper /\ NotLive

MCNext ==
    \/ part = "cash" /\ Next /\ UNCHANGED <<part, plan, realized, books, live, ledger>>
    \/ part = "plan" /\ Transfers!Next /\ UNCHANGED <<part, vars, realized, books, live, ledger>>
    \/ part = "paper" /\ Paper!Next /\ UNCHANGED <<part, vars, plan, live, ledger>>
    \/ part = "live" /\ Live!Next /\ UNCHANGED <<part, vars, plan, books, ledger>>
    \/ part = "ledger" /\ Ledger!Next /\ UNCHANGED <<part, vars, plan, realized, books, live>>

MCSpec == MCInit /\ [][MCNext]_all

-----------------------------------------------------------------------------

\* The transfers of a round take no more than a shard has above its target and bring no more
\* than one lacks; a shard that a trade found short has what it lacked, as far as there is
\* anything to give; and nothing is left for the next round (Rebalancer.step, plan).
RoundServes ==
    /\ [](part = "plan" => Transfers!OnlySpare /\ Transfers!ShortServed)
    /\ [][part = "plan" => Transfers!SettledBy]_all

\* What the paper trader says its account is, is what its rows say (PaperTrader._load).
AccountAgrees == part = "paper" => Paper!TypeOK /\ Paper!AccountAgrees /\ Paper!ReservesHeld

\* No venue of its is overdrawn (PaperTrader.available).
NeverOverdrawn == part = "paper" => Paper!NeverOverdrawn

\* What the live trader says it made is what its trades say (LiveTrader.__init__), but for the
\* early loss of a trade finished after the midnight it was decided before.
PnlAgrees == part = "live" => Live!TypeOK /\ Live!PnlAgrees

\* A settled trade is at what the venues paid, once that is known (LiveTrader.true_up).
RecordedAsPaid == part = "live" => Live!RecordedAsPaid

\* The owner's own moves of the cash are what they were (Moves._kalshi).
RightUnlessCrossed == part = "ledger" => Ledger!TypeOK /\ Ledger!RightUnlessCrossed
=============================================================================
