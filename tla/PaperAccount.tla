---------------------------- MODULE PaperAccount ----------------------------
(***************************************************************************)
(* The paper trader's account (paper.py; the dry run is a second one with  *)
(* limits): trades on several pairs at once, each a task that reserves     *)
(* money, meets the books twice or more with waits in between, and writes  *)
(* one row at its end (_execute); the settling of open trades; and a       *)
(* restart that works the account out from the rows (_load).               *)
(*                                                                         *)
(* A trade is for one contract pair. Money is in half dollars. Every wait  *)
(* for an order's arrival or report (_at) ends a step.                     *)
(***************************************************************************)
EXTENDS Integers, FiniteSets, Functions

CONSTANTS Trades,    \* the trades there may be, each on a pair of its own
          Deposits,  \* what a venue may have been given (bankroll_usd / 2)
          Price      \* the most a contract may cost with its fees

PaperFits == IsFiniteSet(Trades) /\ Deposits \subseteq Nat /\ Price \in Nat \ {0}

Venues == {"K", "P"}
Other(v) == IF v = "K" THEN "P" ELSE "K"
Zero == [v \in Venues |-> 0]
Dollar == 2

VARIABLES trade,     \* each trade: how far it is, and its figures
          cash, tied, reserved, realized, deposits,
          lost,      \* what trades that failed had already been charged
          excused     \* venues where a missing leg was bought while another trade ran

vars == <<trade, cash, tied, reserved, realized, deposits, lost, excused>>

Running == {"legs", "reply", "chase", "chased", "unwind"}
Recorded == {"open", "settled", "missed"}
Idle == [phase |-> "idle", waits |-> {}, lead |-> "K", res |-> Zero, out |-> Zero,
         hold |-> Zero, pay |-> Zero]

PerVenue(S) == [Venues -> S]
TypeOK == /\ trade \in [Trades -> [phase : Running \cup Recorded \cup {"idle", "failed"},
                                   waits : SUBSET Venues, lead : Venues \cup {"both"},
                                   res : PerVenue(0..Price), out : PerVenue(Int),
                                   hold : PerVenue(0..1), pay : PerVenue(Nat)]]
          /\ cash \in PerVenue(Int) /\ tied \in PerVenue(Int) /\ reserved \in PerVenue(Nat)
          /\ realized \in Int /\ deposits \in Deposits /\ lost \in PerVenue(Int)
          /\ excused \subseteq Venues

Init == /\ trade = [i \in Trades |-> Idle]
        /\ deposits \in Deposits /\ cash = [v \in Venues |-> deposits]
        /\ tied = Zero /\ reserved = Zero /\ realized = 0 /\ lost = Zero /\ excused = {}

\* Mutant of Available: what running trades have reserved is not left out.
AvailableAll(v) == cash[v]
Available(v) == cash[v] - reserved[v]
Plus(f, g) == [v \in Venues |-> f[v] + g[v]]
Minus(f, g) == [v \in Venues |-> f[v] - g[v]]
Is(i, phase) == trade[i].phase = phase

(***************************************************************************)
(* A trade.                                                                *)
(***************************************************************************)
\* The end of consider: money is put aside on each venue, no more than there is.
Decides(i) ==
  /\ Is(i, "idle")
  /\ \A v \in Venues : Available(v) >= 1
  /\ LET res == [v \in Venues |-> IF Available(v) < Price THEN Available(v) ELSE Price]
     IN  /\ reserved' = Plus(reserved, res)
         /\ \E lead \in Venues \cup {"both"} :
              trade' = [trade EXCEPT ![i] = [Idle EXCEPT !.phase = "legs", !.res = res, !.lead = lead,
                                               !.waits = IF lead = "both" THEN Venues ELSE {lead}]]
  /\ excused' = excused \cup {v \in Venues : \E j \in Trades : Is(j, "chased") /\ v \in trade[j].waits}
  /\ UNCHANGED <<cash, tied, realized, deposits, lost>>

\* _fill: what an order with a budget spends, on whatever the book has that our own fills
\* haven't taken yet; or it finds nothing.
Filled(budget) == {0} \cup 1..budget

\* A leg's order arrives, with its reserve as the budget. Unless
\* both legs went at once, the other is only sent for what the first filled.
Fills(i) ==
  /\ Is(i, "legs")
  /\ \E v \in trade[i].waits : \E spent \in Filled(trade[i].res[v]) :
       LET left == trade[i].waits \ {v}
           next == IF trade[i].lead = v /\ spent > 0 THEN {Other(v)} ELSE left
       IN  trade' = [trade EXCEPT ![i].out[v] = spent, ![i].hold[v] = IF spent > 0 THEN 1 ELSE 0,
                                  ![i].waits = next,
                                  ![i].phase = IF next = {} THEN "reply" ELSE "legs"]
  /\ UNCHANGED <<cash, tied, reserved, realized, deposits, lost, excused>>

\* The trade's figures, written as its row: it stays open while it holds anything.
Finish(i, t) ==
  LET open == \E v \in Venues : t.hold[v] > 0
      moved == \E v \in Venues : t.out[v] # 0
  IN  /\ trade' = [trade EXCEPT ![i] = [t EXCEPT !.phase = IF open THEN "open"
                                                    ELSE IF moved THEN "settled" ELSE "missed"]]
      /\ tied' = IF open THEN Plus(tied, t.out) ELSE tied
      /\ realized' = IF open THEN realized ELSE realized - t.out["K"] - t.out["P"]

Released(t) == [t EXCEPT !.res = Zero]

\* Both reports are back: the reserve is given back, the money is spent, and an unequal
\* fill goes on to buy the missing leg.
Reports(i) ==
  /\ Is(i, "reply")
  /\ reserved' = Minus(reserved, trade[i].res)
  /\ cash' = Minus(cash, trade[i].out)
  /\ LET t == Released(trade[i])
     IN  IF t.hold["K"] = t.hold["P"] THEN Finish(i, t)
         ELSE /\ trade' = [trade EXCEPT ![i] = [t EXCEPT !.phase = "chase"]]
              /\ UNCHANGED <<tied, realized>>
  /\ UNCHANGED <<deposits, lost, excused>>

Short(i) == CHOOSE v \in Venues : trade[i].hold[v] = 0

\* The missing leg's order arrives: it may spend what is available on its venue now.
\* What it spent is only charged when its report is back.
Chases(i) ==
  /\ Is(i, "chase")
  /\ LET v == Short(i) IN
     \E spent \in Filled(IF Available(v) < Price THEN Available(v) ELSE Price) :
       /\ trade' = [trade EXCEPT ![i].phase = "chased", ![i].waits = IF spent > 0 THEN {v} ELSE {},
                                 ![i].pay[v] = spent]        \* until charged, kept here
       /\ excused' = IF spent > 0 /\ \E j \in Trades \ {i} : trade[j].phase \in Running
                    THEN excused \cup {v} ELSE excused
  /\ UNCHANGED <<cash, tied, reserved, realized, deposits, lost>>

\* The report of the missing leg: charged; what is still missing is sold back.
ChaseReports(i) ==
  /\ Is(i, "chased")
  /\ LET v == Short(i)
         spent == trade[i].pay[v]
         t == [trade[i] EXCEPT !.waits = {}, !.pay = Zero, !.out[v] = @ + spent,
                               !.hold[v] = IF spent > 0 THEN 1 ELSE 0]
     IN  /\ cash' = [cash EXCEPT ![v] = @ - spent]
         /\ IF spent > 0 THEN Finish(i, t)
            ELSE /\ trade' = [trade EXCEPT ![i] = [t EXCEPT !.phase = "unwind"]]
                 /\ UNCHANGED <<tied, realized>>
  /\ UNCHANGED <<reserved, deposits, lost, excused>>

\* Selling back buys the other side, which nets out at a dollar; it needs no cash. What
\* finds no buyer is held unhedged.
Unwinds(i) ==
  /\ Is(i, "unwind")
  /\ LET v == Other(Short(i)) IN
     \/ \E spent \in 1..Dollar :
          /\ cash' = [cash EXCEPT ![v] = @ + Dollar - spent]
          /\ Finish(i, [trade[i] EXCEPT !.out[v] = @ + spent - Dollar, !.hold[v] = 0])
     \/ cash' = cash /\ Finish(i, trade[i])
  /\ UNCHANGED <<reserved, deposits, lost, excused>>

\* An exception in the task: whatever is still reserved is given back, no row is written.
Fails(i) ==
  /\ trade[i].phase \in Running
  /\ reserved' = Minus(reserved, trade[i].res)
  /\ lost' = IF trade[i].phase \in {"legs", "reply"} THEN lost ELSE Plus(lost, trade[i].out)
  /\ trade' = [trade EXCEPT ![i] = [Idle EXCEPT !.phase = "failed"]]
  /\ UNCHANGED <<cash, tied, realized, deposits, excused>>

(***************************************************************************)
(* Settling, and restarts.                                                 *)
(***************************************************************************)
\* Mutant of Untied: the money stays tied up in the settled trade.
UntiedNot(out) == tied
Untied(out) == Minus(tied, out)

\* settle: both markets have results, and each venue pays what its leg holds.
Settles(i) ==
  /\ Is(i, "open")
  /\ \E won \in SUBSET Venues :
       LET pay == [v \in Venues |-> IF v \in won THEN Dollar * trade[i].hold[v] ELSE 0]
           t == [trade[i] EXCEPT !.pay = pay, !.phase = "settled"]
       IN  /\ trade' = [trade EXCEPT ![i] = t]
           /\ cash' = Plus(cash, pay)
           /\ realized' = realized + pay["K"] + pay["P"] - t.out["K"] - t.out["P"]
  /\ tied' = Untied(trade[i].out)
  /\ UNCHANGED <<reserved, deposits, lost, excused>>

\* What the rows of table t say of a venue (_load).
Rows(t) == {i \in Trades : t[i].phase \in Recorded}
CashOf(t, given, v) == given + SumFunctionOnSet([i \in Trades |-> t[i].pay[v] - t[i].out[v]], Rows(t))
TiedOf(t, v) == SumFunctionOnSet([i \in Trades |-> t[i].out[v]], {i \in Rows(t) : t[i].phase = "open"})
Made(t) == t.pay["K"] + t.pay["P"] - t.out["K"] - t.out["P"]
RealizedOf(t) == SumFunctionOnSet([i \in Trades |-> Made(t[i])], {i \in Rows(t) : t[i].phase = "settled"})

\* A restart, perhaps with another bankroll: trades in flight are gone, and the account is
\* what the rows say (_load moves a changed bankroll in or out like a deposit).
Restarts ==
  /\ trade' = [i \in Trades |-> IF trade[i].phase \in Recorded THEN trade[i]
                                ELSE IF Is(i, "idle") THEN Idle ELSE [Idle EXCEPT !.phase = "failed"]]
  /\ deposits' \in Deposits
  /\ cash' = [v \in Venues |-> CashOf(trade', deposits', v)]
  /\ tied' = [v \in Venues |-> TiedOf(trade', v)]
  /\ realized' = RealizedOf(trade')
  /\ reserved' = Zero /\ lost' = Zero
  /\ excused' = IF deposits' < deposits THEN Venues ELSE {v \in Venues : cash'[v] < 0}

Next == \/ \E i \in Trades : \/ Decides(i) \/ Fills(i) \/ Reports(i) \/ Chases(i)
                             \/ ChaseReports(i) \/ Unwinds(i) \/ Fails(i) \/ Settles(i)
        \/ Restarts

Spec == Init /\ [][Next]_vars

(***************************************************************************)
(* Properties.                                                             *)
(***************************************************************************)
\* The account kept step by step, with trades interleaving and settling under each other,
\* is what a restart would read from the rows, less what running trades have been charged
\* and what failed ones were: nothing is booked twice, or never.
Charged(v) == SumFunctionOnSet([i \in Trades |-> trade[i].out[v]],
                               {i \in Trades : trade[i].phase \in {"chase", "chased", "unwind"}})
AccountAgrees == /\ \A v \in Venues : /\ cash[v] = CashOf(trade, deposits, v) - Charged(v) - lost[v]
                                      /\ tied[v] = TiedOf(trade, v)
                 /\ realized = RealizedOf(trade)

\* What is reserved is what the running trades still hold in reserve, whichever way each
\* ends: a failure after the reserve was given back does not give it back again.
ReservesHeld == \A v \in Venues :
  reserved[v] = SumFunctionOnSet([i \in Trades |-> trade[i].res[v]],
                                 {i \in Trades : trade[i].phase \in {"legs", "reply"}})

\* No venue is ever overdrawn, nor promised more than it has, however the trades overlap;
\* except where a missing leg was bought while another trade ran (its cost is only charged
\* with its report, and the other may have been given the same money), or the bankroll was
\* lowered.
NeverOverdrawn == \A v \in Venues \ excused : cash[v] - reserved[v] >= 0
=============================================================================
