------------------------------ MODULE ShardCash ------------------------------
(***************************************************************************)
(* The live account's cash on Kalshi's exchange shards: what is there, what *)
(* the trader thinks is there (Guard.shard_cash), and the three things that *)
(* change either while the others are under way: trades, transfers between  *)
(* shards (arbscan/shards.py) and reads of the account (livetrade.py,       *)
(* LiveRun._run; dryrun.py, read_account).                                  *)
(*                                                                         *)
(* Reads and transfers are made by one coroutine, LiveRun._run, one after   *)
(* the other; trades start and run in others, whenever that one waits.      *)
(* Which transfers a round makes is left open here, but for what ShardPlan  *)
(* checks of plan: no shard gives more than it held.  Amounts are dollars.  *)
(***************************************************************************)
EXTENDS Integers

CONSTANTS
    Shards,      \* shard numbers
    MaxCash,     \* a bound of the model: money comes in while no shard would have more
    HiddenMoves  \* may a transfer that was answered with an HTTP error have gone through?

ASSUME ShardAssumption == Shards \subseteq Nat /\ Shards # {}
ASSUME BoundAssumption == MaxCash \in Nat
ASSUME HiddenAssumption == HiddenMoves \in BOOLEAN

VARIABLES
    \* at Kalshi
    real,       \* each shard's cash
    landing,    \* cash of a transfer taken from one shard and not yet on the other
    \* the trader
    known,      \* the account was read: Guard.shard_cash is not None
    cash,       \* Guard.shard_cash
    stale,      \* LiveTrader.account_stale
    trade,      \* the trade under way: its shard, what it may still spend, what it
                \* spent that the trader hasn't heard of
    lost,       \* it is stopped: a trade ended with an order whose outcome it never learned
    \* LiveRun._run
    loop,       \* where it is
    data,       \* what the read under way was answered
    kept,       \* no trade or transfer has bumped the epoch since it began
    spare,      \* what the transfers this round still has to make may take from a shard
    sent,       \* the one under way, and what became of it
    done,       \* this round has made one
    backoff     \* failed_until has not passed

account == <<known, cash, stale>>
round == <<spare, sent, done>>
vars == <<real, landing, account, trade, lost, loop, data, kept, round, backoff>>

-----------------------------------------------------------------------------

Empty == [s \in Shards |-> 0]
AnyShard == CHOOSE s \in Shards : TRUE
Busy == trade.on

NoTrade == [on |-> FALSE, shard |-> AnyShard, left |-> 0, unheard |-> 0]
NotSent == [state |-> "none", src |-> AnyShard, dst |-> AnyShard, amt |-> 1]

TypeOK ==
    /\ real \in [Shards -> Nat] /\ landing \in [Shards -> Nat]
    /\ known \in BOOLEAN /\ cash \in [Shards -> Int] /\ stale \in BOOLEAN
    /\ trade \in [on : BOOLEAN, shard : Shards, left : Nat, unheard : Int]
    /\ lost \in BOOLEAN
    /\ loop \in {"top", "asked", "answered", "step", "moving"}
    /\ data \in [Shards -> Nat] /\ kept \in BOOLEAN
    /\ spare \in [Shards -> Nat]
    /\ sent \in [state : {"none", "sent", "refused", "moved", "pending"}, src : Shards, dst : Shards,
                 amt : Nat \ {0}]
    /\ done \in BOOLEAN /\ backoff \in BOOLEAN

Init ==
    /\ real \in [Shards -> 0..MaxCash] /\ landing = Empty
    /\ known = FALSE /\ cash = Empty /\ stale = FALSE
    /\ trade = NoTrade /\ lost = FALSE
    /\ loop = "top" /\ data = Empty /\ kept = FALSE
    /\ spare = Empty /\ sent = NotSent /\ done = FALSE /\ backoff = FALSE

Plus(c, s, n) == [c EXCEPT ![s] = @ + n]
Minus(c, s, n) == [c EXCEPT ![s] = @ - n]

-----------------------------------------------------------------------------
(* Trades *)

\* A pick is sized to the shard's cash (_budget), and its trade starts: epoch += 1.
Pick(s, n) ==
    /\ ~Busy /\ ~lost /\ known /\ n <= cash[s]
    /\ trade' = [on |-> TRUE, shard |-> s, left |-> n, unheard |-> 0]
    /\ kept' = FALSE
    /\ UNCHANGED <<real, landing, account, loop, data, spare, sent, done, backoff, lost>>

\* Kalshi fills its orders: a purchase, ...
Buy(n) ==
    /\ Busy /\ n <= trade.left /\ n <= real[trade.shard]
    /\ real' = Minus(real, trade.shard, n)
    /\ trade' = [trade EXCEPT !.left = @ - n, !.unheard = @ + n]
    /\ UNCHANGED <<landing, account, loop, data, kept, round, backoff, lost>>

\* ... or a sale of what it bought.
Sell(n) ==
    /\ Busy
    /\ real' = Plus(real, trade.shard, n)
    /\ trade' = [trade EXCEPT !.left = 0, !.unheard = @ - n]
    /\ UNCHANGED <<landing, account, loop, data, kept, round, backoff, lost>>

\* LiveTrader._moved, once an order's outcome is learned.
Heard ==
    /\ Busy /\ trade.unheard # 0
    /\ cash' = Minus(cash, trade.shard, trade.unheard)
    /\ trade' = [trade EXCEPT !.unheard = 0]
    /\ UNCHANGED <<real, landing, known, stale, loop, data, kept, round, backoff, lost>>

\* What it hasn't heard of now, it never will: that stops it (LiveTrader._send).
TradeEnds ==
    /\ Busy
    /\ trade' = NoTrade
    /\ lost' = (trade.unheard # 0)
    /\ stale' = TRUE
    /\ UNCHANGED <<real, landing, known, cash, loop, data, kept, round, backoff>>

\* A settled trade is paid out.
Payout(s) ==
    /\ real' = Plus(real, s, 1)
    /\ UNCHANGED <<landing, account, trade, loop, data, kept, round, backoff, lost>>

-----------------------------------------------------------------------------
(* LiveRun._run: the account is read ... *)

\* ... every ACCOUNT_EVERY_S, and at once when it is stale.
Ask ==
    /\ loop = "top" /\ ~Busy
    /\ loop' = "asked"
    /\ stale' = FALSE
    /\ kept' = TRUE
    /\ UNCHANGED <<real, landing, known, cash, trade, data, round, backoff, lost>>

Answer ==
    /\ loop = "asked"
    /\ loop' = "answered"
    /\ data' = real
    /\ UNCHANGED <<real, landing, account, trade, kept, round, backoff, lost>>

\* Mutant of Keeps: what was read is kept even if a trade started meanwhile.
KeepsAll == TRUE

\* read_account: self.epoch is still what it was.
Keeps == kept

\* Once the account was read the user may resume a trader that was stopped.
AccountRead ==
    /\ loop = "answered"
    /\ loop' = "step"
    /\ IF Keeps THEN cash' = data /\ known' = TRUE /\ lost' = FALSE ELSE UNCHANGED <<cash, known, lost>>
    /\ data' = Empty /\ kept' = FALSE
    /\ UNCHANGED <<real, landing, stale, trade, round, backoff>>

AccountReadFails ==
    /\ loop \in {"asked", "answered"}
    /\ loop' = "step"
    /\ data' = Empty /\ kept' = FALSE
    /\ UNCHANGED <<real, landing, account, trade, round, backoff, lost>>

-----------------------------------------------------------------------------
(* ... and Rebalancer.step looks at the shards *)

\* Mutant of Spare: a shard that is overdrawn isn't left out.
SpareAny(c) == c

\* plan takes only from shards with something to spare, and no more than they have.
Spare(c) == [s \in Shards |-> IF c[s] > 0 THEN c[s] ELSE 0]

\* Between trades, on an account that was read, unless a transfer failed lately.
Look ==
    /\ loop = "step" /\ known /\ ~stale /\ ~Busy /\ ~backoff
    /\ loop' = "moving"
    /\ spare' = Spare(cash)
    /\ done' = FALSE
    /\ UNCHANGED <<real, landing, account, trade, data, kept, sent, backoff, lost>>

NoLook ==
    /\ loop = "step"
    /\ loop' = "top"
    /\ UNCHANGED <<real, landing, account, trade, data, kept, round, backoff, lost>>

SetAside(c, src, amt) == Minus(c, src, amt)

\* The next transfer goes out.
Transfer(src, dst, amt) ==
    /\ loop = "moving" /\ sent.state = "none" /\ ~Busy
    /\ src # dst /\ amt <= spare[src]
    /\ sent' = [state |-> "sent", src |-> src, dst |-> dst, amt |-> amt]
    /\ cash' = SetAside(cash, src, amt)
    /\ spare' = Minus(spare, src, amt)
    /\ UNCHANGED <<real, landing, known, stale, trade, loop, data, kept, done, backoff, lost>>

\* Kalshi makes it, at once or in two steps, or refuses it.
Moved ==
    /\ sent.state = "sent" /\ sent.amt <= real[sent.src]
    /\ \/ /\ real' = Plus(Minus(real, sent.src, sent.amt), sent.dst, sent.amt)
          /\ sent' = [sent EXCEPT !.state = "moved"]
          /\ landing' = landing
       \/ /\ real' = Minus(real, sent.src, sent.amt)
          /\ landing' = Plus(landing, sent.dst, sent.amt)
          /\ sent' = [sent EXCEPT !.state = "pending"]
    /\ UNCHANGED <<account, trade, loop, data, kept, spare, done, backoff, lost>>

Refused ==
    /\ sent.state = "sent"
    /\ sent' = [sent EXCEPT !.state = "refused"]
    /\ UNCHANGED <<real, landing, account, trade, loop, data, kept, spare, done, backoff, lost>>

Landed(s) ==
    /\ landing[s] > 0
    /\ real' = Plus(real, s, landing[s])
    /\ landing' = [landing EXCEPT ![s] = 0]
    /\ UNCHANGED <<account, trade, loop, data, kept, round, backoff, lost>>

\* The answer: only a transfer that is complete is counted on its new shard.
TransferDone ==
    /\ sent.state \in {"moved", "pending"}
    /\ cash' = IF sent.state = "moved" THEN Plus(cash, sent.dst, sent.amt) ELSE cash
    /\ sent' = NotSent
    /\ done' = TRUE
    /\ UNCHANGED <<real, landing, known, stale, trade, loop, data, kept, spare, backoff, lost>>

\* A failure ends the round, puts off the next and has the account read.
Failed ==
    /\ sent' = NotSent
    /\ loop' = "top"
    /\ stale' = TRUE
    /\ backoff' = TRUE
    /\ spare' = Empty /\ done' = FALSE
    /\ UNCHANGED <<real, landing, known, trade, data, kept, lost>>

\* An HTTP error is a RuntimeError: the transfer was refused (or, behind a 5xx,
\* was made all the same).  It was never sent if the connection didn't open.
PutsBack == {"sent", "refused"} \cup (IF HiddenMoves THEN {"moved", "pending"} ELSE {})

TransferFails ==
    /\ sent.state \in PutsBack
    /\ cash' = Plus(cash, sent.src, sent.amt)
    /\ Failed

\* No answer, or one that can't be read: it may have gone through.
TransferUnclear ==
    /\ sent.state \in {"refused", "moved", "pending"}
    /\ cash' = cash
    /\ Failed

\* All made, or a trade has started: the real balances are read back.
RoundEnds ==
    /\ loop = "moving" /\ sent.state = "none"
    /\ loop' = "top"
    /\ stale' = (stale \/ done)
    /\ spare' = Empty /\ done' = FALSE
    /\ UNCHANGED <<real, landing, known, cash, trade, data, kept, sent, backoff, lost>>

BackoffEnds ==
    /\ backoff
    /\ backoff' = FALSE
    /\ UNCHANGED <<real, landing, account, trade, loop, data, kept, round, lost>>

-----------------------------------------------------------------------------

\* A bound of the model: n more dollars still fit.
Room(n) == \A s \in Shards : real[s] + landing[s] + n <= MaxCash

Next ==
    \/ \E s \in Shards, n \in 1..MaxCash : Pick(s, n)
    \/ \E n \in 1..MaxCash : Buy(n)
    \/ \E n \in 1..MaxCash : Room(n) /\ Sell(n)
    \/ Heard \/ TradeEnds
    \/ \E s \in Shards : Room(1) /\ Payout(s)
    \/ Ask \/ Answer \/ AccountRead \/ AccountReadFails
    \/ Look \/ NoLook
    \/ \E src, dst \in Shards, amt \in 1..MaxCash : Transfer(src, dst, amt)
    \/ Moved \/ Refused \/ \E s \in Shards : Landed(s)
    \/ TransferDone \/ TransferFails \/ TransferUnclear \/ RoundEnds \/ BackoffEnds

Spec == Init /\ [][Next]_vars

-----------------------------------------------------------------------------
(* Properties *)

\* "Never spend what's on its way out": whenever a pick may be sized, the trader
\* counts on no more on any shard than is there, whatever transfers are out,
\* answered, timed out or still landing, and whatever a read of the account
\* begun before a trade or a transfer says.
NeverOverspent == ~Busy /\ ~lost => \A s \in Shards : cash[s] <= real[s]
=============================================================================
