------------------------------- MODULE Pricing -------------------------------
(***************************************************************************)
(* What a pair is worth: the ladders of asks made of the venues' books      *)
(* (arbscan/book.py), the fees (fees.py), the walk up two ladders at once   *)
(* (arb.py), what an immediate-or-cancel order would take of one, what      *)
(* several versions of a book had in common (paper.py), and what a pair     *)
(* pays (bankroll.py).                                                      *)
(*                                                                         *)
(* Prices are whole ticks, Ticks of them a dollar, and quantities whole     *)
(* parts, Parts of them a contract; money is counted in units in which a    *)
(* fee is whole too.  The code's floats round at 1e-9.                      *)
(***************************************************************************)
EXTENDS Integers, FiniteSetsExt, SequencesExt

CONSTANTS
    Ticks,      \* the ticks in a dollar
    Parts,      \* the parts a contract divides into
    Coef, Per   \* the taker coefficient is Coef / Per, under 1

\* What is assumed of the units.
UnitsFit == {Ticks, Parts, Per} \subseteq Nat \ {0} /\ Coef \in 0..Per

-----------------------------------------------------------------------------
(* Books *)

\* Pairs of numbers, the lowest first, by the first number and then the second.
Ascending(S) ==
    CHOOSE q \in [1..Cardinality(S) -> S] :
        \A i, j \in DOMAIN q : i < j => q[i][1] < q[j][1] \/ (q[i][1] = q[j][1] /\ q[i][2] < q[j][2])

\* _sorted_asks: what there is any of, cheapest first.
Cheapest(levels) ==
    LET order == Ascending({<<levels[i].price, i>> : i \in {k \in DOMAIN levels : levels[k].qty > 0}})
    IN  [i \in DOMAIN order |-> levels[order[i][2]]]

\* _complement: a bid for one side is an offer of the other.
Complement(bids) == Cheapest([i \in DOMAIN bids |-> [bids[i] EXCEPT !.price = Ticks - @]])

\* kalshi_ladders, pmus_ladders: what there is to buy of YES and of NO.
KalshiLadders(book) == [yes |-> Complement(book.no), no |-> Complement(book.yes)]
PMLadders(book) == [yes |-> Cheapest(book.offers), no |-> Complement(book.bids)]

\* directions, of a pair of markets that ask the same or the opposite.
Directions(relation) ==
    IF relation = "same" THEN {[k |-> "yes", p |-> "no"], [k |-> "no", p |-> "yes"]}
                         ELSE {[k |-> "yes", p |-> "yes"], [k |-> "no", p |-> "no"]}

\* payout_per_pair: what a contract on each venue paid, of what their YES paid.
PayoutPerPair(d, k, p) == (IF d.k = "yes" THEN k ELSE Ticks - k) + (IF d.p = "yes" THEN p ELSE Ticks - p)

-----------------------------------------------------------------------------
(* Walking *)

\* A dollar; a contract at a price with its fee, per_contract; both for each part of it.
Dollar == Ticks * Ticks * Per
Unit(p) == p * Ticks * Per + Coef * p * (Ticks - p)

Ladders == Seq([price : 1..Ticks, qty : Nat])

\* Where a walk is: what is left to buy of each leg, the size and the money left to each, what
\* was bought, its cost, and what the last part cost.
Walks == [a : Ladders, b : Ladders, left : Nat, money : [a : Nat, b : Nat], size : Nat, cost : Nat, last : Nat]

\* Of the first level, so much is taken.
Less(ladder, n) == IF ladder[1].qty = n THEN Tail(ladder) ELSE [ladder EXCEPT ![1].qty = @ - n]

\* The next step takes the cheapest of both: as much as both levels, the size and the money allow.
NextTaken(w) ==
    Min({w.a[1].qty, w.b[1].qty, w.left, w.money.a \div Unit(w.a[1].price), w.money.b \div Unit(w.b[1].price)})
NextUnit(w) == Unit(w.a[1].price) + Unit(w.b[1].price)

\* walk's loop ends when a leg is bought up or the edge gone, the size, or the money on either
\* venue; a budget that is gone in the middle of a part ends it too.
Ends(w, edge) == w.a = <<>> \/ w.b = <<>> \/ Dollar - NextUnit(w) <= edge \/ NextTaken(w) <= 0

\* So much of both is bought.
Bought(w) ==
    LET n == NextTaken(w)
        cost == Unit(w.a[1].price)
        other == Unit(w.b[1].price)
    IN  [a |-> Less(w.a, n), b |-> Less(w.b, n), left |-> w.left - n,
         money |-> [a |-> w.money.a - n * cost, b |-> w.money.b - n * other],
         size |-> w.size + n, cost |-> w.cost + n * NextUnit(w), last |-> NextUnit(w)]

Walked(edge) ==
    LET from[w \in Walks] == IF Ends(w, edge) THEN w ELSE from[Bought(w)]
    IN  from

\* The fractional tail is dropped, at the cost of the last part.
Dropped(w) == w.cost - (w.size % Parts) * w.last

\* walk: whole contracts, what they cost, and the profit.
Walk(a, b, lim) ==
    LET w == Walked(lim.edge)[[a |-> a, b |-> b, left |-> lim.size * Parts, money |-> [a |-> lim.a, b |-> lim.b],
                               size |-> 0, cost |-> 0, last |-> 0]]
        n == w.size \div Parts
        cost == IF n = 0 THEN 0 ELSE Dropped(w)
    IN  [size |-> n, cost |-> cost, profit |-> n * Parts * Dollar - cost]

-----------------------------------------------------------------------------
(* Ordering *)

\* How much the first i levels are together.
Through(ladder, i) == SumFunctionOnSet([j \in DOMAIN ladder |-> ladder[j].qty], 1..i)

\* limit_for: the worst price needed for so many contracts, Ticks if there aren't as many.
LimitFor(ladder, n) ==
    LET enough == {i \in DOMAIN ladder : Through(ladder, i) >= n * Parts}
    IN  IF enough = {} THEN Ticks ELSE ladder[Min(enough)].price

\* Mutant of Room: the money already spent at better prices isn't counted.
RoomAll(budget, spent, p) == budget \div (Parts * Unit(p))

\* How many contracts the money left buys at a price.
Room(budget, spent, p) == (budget - spent) \div (Parts * Unit(p))

\* take, at one level: an order of which left contracts are unfilled, for spent so far, fills
\* whole contracts, as many as its limit and the money let it; too dear, or out of money, it is done.
Filled(order, l) ==
    LET n == Min({l.qty \div Parts, order.left, Room(order.budget, order.spent, l.price)})
    IN  IF order.left <= 0 \/ l.price > order.limit \/ (n <= 0 /\ l.qty >= Parts) THEN [order EXCEPT !.left = 0]
        ELSE IF n <= 0 THEN order
        ELSE [order EXCEPT !.fills = Append(@, [price |-> l.price, qty |-> n * Parts]),
                           !.left = @ - n, !.spent = @ + n * Parts * Unit(l.price)]

\* take: what an immediate-or-cancel order would fill, level by level.
Take(ladder, n, limit, budget) ==
    LET order == [fills |-> <<>>, left |-> n, limit |-> limit, budget |-> budget, spent |-> 0]
        after[i \in 0..Len(ladder)] == IF i = 0 THEN order ELSE Filled(after[i - 1], ladder[i])
    IN  after[Len(ladder)].fills

\* What a ladder offers at a price or better.
UpTo(ladder, p) ==
    SumFunctionOnSet([i \in DOMAIN ladder |-> ladder[i].qty], {i \in DOMAIN ladder : ladder[i].price <= p})

\* The least any of the ladders had at a price or better.
Common(ladders, p) == Min({UpTo(ladders[i], p) : i \in DOMAIN ladders})

\* lasting: the ladder of what all of them offered, and no cheaper price had already.
Lasting(ladders) ==
    LET prices == UNION {{l.price : l \in ToSet(ladders[i])} : i \in DOMAIN ladders}
        before(p) == Max({0} \cup {Common(ladders, o) : o \in {r \in prices : r < p}})
        more(p) == Common(ladders, p) - before(p)
        levels == Ascending({<<p, more(p)>> : p \in {r \in prices : more(r) > 0}})
    IN  [i \in DOMAIN levels |-> [price |-> levels[i][1], qty |-> levels[i][2]]]
=============================================================================
