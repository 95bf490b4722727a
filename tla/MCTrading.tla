----------------------------- MODULE MCTrading -----------------------------
(***************************************************************************)
(* Model checking the decision to trade: when a window is looked at and     *)
(* traded, Windows; which Polymarket US book may be traded on, BookCheck;   *)
(* what the limits let pass, Limits; and, over every small pair of books,   *)
(* what they are worth and what an order fills, Pricing.                    *)
(* They share no state here (BookCheck makes up what its stream says, and   *)
(* Windows what the checks say), so a behaviour is of one of them, and the  *)
(* others' variables stay as they began.  (Of now, rows and busy, which     *)
(* Windows and Limits both have, and book, there is one each.)              *)
(***************************************************************************)
EXTENDS Pricing

CONSTANTS
    Prices,     \* the prices in the books, and
    Qtys,       \* how much there is at each
    MaxLevels,  \* how many levels there are at most
    Budgets,    \* the money on a venue, in contracts of a dollar
    Asked,      \* the contracts asked for at most, and
    Edges,      \* the least edge
    MinWindow, Quiet, Settle, Recheck, Idle, Resume, Linger, MaxStarts, LastTick,  \* Windows'
    Pairs, StartOf, Shut, PerDay, PerHour, Hour, Rest, Cool, Margin, Opening, Longest, Day,
    MaxTrades, MaxRuns,                                                     \* Limits'
    MaxAge, MinGap, Retry, Timeout, Back, MaxBooks, MaxWire,                \* BookCheck's
    MaxNow

VARIABLES
    part,                                                       \* which of them
    books,                                                      \* the books and the money of one pricing
    now, rows, busy, book,
    last, ep, resumable, watch, traded, sure, timers,     \* Windows'
    mode, starts, taken, asleep,
    run, began, up, count, cooling, sold, halted, hours, resumed,   \* Limits'
    exch, ago, wire, down, read, checked, wait                      \* BookCheck's

window == <<last, ep, resumable, watch, traded, sure, timers, mode, starts, taken, asleep>>
limits == <<run, began, up, count, cooling, sold, halted, hours, resumed>>
checks == <<exch, ago, wire, down, read, checked, wait>>
vars == <<part, books, now, rows, busy, book, window, limits, checks>>

W == INSTANCE Windows WITH Starts <- MaxStarts, MaxNow <- LastTick
L == INSTANCE Limits
Check == INSTANCE BookCheck

\* Two pairs with a market in common; a game that begins today, and one another day.
First == {"k1", "p1"}
Second == {"k2", "p1"}
MCPairs == {First, Second}
MCStartOf == [p \in MCPairs |-> IF p = First THEN 3 ELSE 8]

\* A price is at least a tick, and less than a dollar.
BooksFit ==
    /\ Prices \subseteq 1..(Ticks - 1) /\ Qtys \subseteq Nat \ {0} /\ MaxLevels \in Nat
    /\ Budgets \subseteq Nat /\ Asked \subseteq Nat /\ Edges \subseteq Nat

ASSUME TradingAssumption == UnitsFit /\ BooksFit /\ W!TimesFit /\ Check!TimesFit /\ L!LimitsFit

\* Best first, and no price twice.
Book ==
    {b \in BoundedSeq([price : Prices, qty : Qtys], MaxLevels) : \A i, j \in DOMAIN b : i < j => b[i].price > b[j].price}

Money == {n * Parts * Dollar : n \in Budgets}

NoBooks == [k |-> <<>>, p |-> <<>>, a |-> 0, b |-> 0]

NoWindow ==
    /\ last = 0 /\ ep = 0 /\ resumable = 0 /\ watch = 0 /\ traded = 0 /\ sure = 0
    /\ timers = 0 /\ mode = 0 /\ starts = 0 /\ taken = 0 /\ asleep = 0
NoLimits ==
    /\ run = 0 /\ began = 0 /\ up = 0 /\ count = 0 /\ cooling = 0
    /\ sold = 0 /\ halted = 0 /\ hours = 0 /\ resumed = 0
NoChecks == exch = 0 /\ ago = 0 /\ wire = 0 /\ down = 0 /\ read = 0 /\ checked = 0 /\ wait = 0
NoTime == now = 0 /\ rows = {} /\ busy = FALSE

MCInit ==
    \/ part = "window" /\ W!Init /\ NoLimits /\ NoChecks /\ books = NoBooks
    \/ part = "limits" /\ L!Init /\ book = 0 /\ NoWindow /\ NoChecks /\ books = NoBooks
    \/ part = "check" /\ Check!Init /\ NoTime /\ NoWindow /\ NoLimits /\ books = NoBooks
    \/ /\ part = "pricing" /\ NoTime /\ book = 0 /\ NoWindow /\ NoLimits /\ NoChecks
       /\ books \in [k : Book, p : {<<>>}, a : Money, b : {0}]

MCNext ==
    \/ part = "window" /\ W!Next /\ UNCHANGED <<part, books, limits, checks>>
    \/ part = "limits" /\ L!Next /\ UNCHANGED <<part, books, book, window, checks>>
    \/ part = "check" /\ Check!Next /\ UNCHANGED <<part, books, now, rows, busy, window, limits>>
    \/ /\ part = "pricing" /\ books.p = <<>>
       /\ books' \in [k : {books.k}, p : Book \ {<<>>}, a : {books.a}, b : Money]
       /\ UNCHANGED <<part, now, rows, busy, book, window, limits, checks>>

MCSpec == MCInit /\ [][MCNext]_vars

-----------------------------------------------------------------------------

\* The type invariants.
TypesOK == /\ part = "window" => W!TypeOK
           /\ part = "limits" => L!TypeOK
           /\ part = "check" => Check!TypeOK

\* A window is traded at most once in a run of the scanner, and one that could be is looked
\* at again when it is due (PaperTrader.consider, _wake).
TakenWhenDue == [][part = "window" => W!TakesOnce]_vars /\ [](part = "window" => W!LooksAgain)

\* A window is on record once (Episodes._resume).
RecordedOnce == part = "window" => W!RecordedOnce

\* A Polymarket US book that may be traded on is at least as new as the exchange's was
\* MAX_AGE_S ago, whatever its stream lost (BookCheck.ok), and never goes back in time while
\* it is up, though reads overtake the stream and the stream the reads (PMBook.update).
Vouched == [](part = "check" => Check!Vouched) /\ [][part = "check" => Check!Onward]_vars

\* A trade is only made when the limits allow it (LiveGuard, LiveTrader.__init__).
WithinTheLimits == part = "limits" => L!WithinTheLimits

-----------------------------------------------------------------------------

\* The legs to buy: YES of one venue, NO of the other, from bids for the opposite.
A == KalshiLadders([yes |-> <<>>, no |-> books.k]).yes
B == PMLadders([offers |-> <<>>, bids |-> books.p]).no

Offered(ladder) == UpTo(ladder, Ticks)

\* The price of the k-th part of a ladder, and what the first n cost.
PriceAt(ladder, k) == Min({p \in {l.price : l \in ToSet(ladder)} : UpTo(ladder, p) >= k})
CostOf(ladder, n) == SumFunction([k \in 1..n |-> Unit(PriceAt(ladder, k))])

\* The sizes that can be bought: there are as many, the money on either venue lasts, and the
\* last part still brings an edge.
Sizes(lim) ==
    {n \in 1..lim.size :
        LET q == n * Parts IN
        /\ q <= Offered(A) /\ q <= Offered(B)
        /\ CostOf(A, q) <= lim.a /\ CostOf(B, q) <= lim.b
        /\ Dollar - Unit(PriceAt(A, q)) - Unit(PriceAt(B, q)) > lim.edge}

Cases == [size : Asked, edge : Edges, a : {books.a}, b : {books.b}]

Whole(ladder) == \A l \in ToSet(ladder) : l.qty % Parts = 0

\* A pair is sized at the most contracts that can be bought at an edge, at what they cost, never
\* too dear; exactly, if the levels are of whole contracts.  So with no least edge no other size
\* would bring more.
SizedRight ==
    \A lim \in Cases :
        LET w == Walk(A, B, lim)
            cost(n) == CostOf(A, n * Parts) + CostOf(B, n * Parts)
        IN  /\ w.size = Max({0} \cup Sizes(lim))
            /\ w.cost <= cost(w.size)
            /\ Whole(A) /\ Whole(B) =>
                /\ w.cost = cost(w.size)
                /\ lim.edge = 0 => \A n \in Sizes(lim) : w.profit >= n * Parts * Dollar - cost(n)

Spent(fills) == SumFunction([i \in DOMAIN fills |-> fills[i].qty * Unit(fills[i].price)])

\* An order at the worst price its size needs, with the money the size was found with, fills in
\* full from whole levels, and never spends more than the money, whatever the levels; what two
\* versions of a book have in common could have been bought from either; and a pair whose
\* markets settle as the one bet they were taken for pays a dollar.
FilledAsSized ==
    /\ \A lim \in Cases :
        LET n == Walk(A, B, lim).size
            fills == Take(A, n, LimitFor(A, n), lim.a)
        IN  /\ Spent(fills) <= lim.a
            /\ Spent(Take(A, lim.size, Ticks, lim.a)) <= lim.a
            /\ Whole(A) => Offered(fills) = n * Parts
    /\ \A p \in 0..Ticks : UpTo(Lasting(<<A, B>>), p) = Min({UpTo(A, p), UpTo(B, p)})
    /\ \A k \in 0..Ticks :
        /\ \A d \in Directions("same") : PayoutPerPair(d, k, k) = Ticks
        /\ \A d \in Directions("inverse") : PayoutPerPair(d, k, Ticks - k) = Ticks

\* What two books are worth, and what an order on them fills, is what it should be.
PricedRight == part = "pricing" => SizedRight /\ FilledAsSized
=============================================================================
