------------------------------ MODULE ShardPlan ------------------------------
(***************************************************************************)
(* The transfers that bring each Kalshi shard's cash to its target         *)
(* (arbscan/shards.py, plan), followed through the rounds of               *)
(* Rebalancer.step from every split of the cash, every target and every    *)
(* set of shards that just ran short.                                      *)
(*                                                                         *)
(* Money is in ticks, Cent of them to a cent: targets are fractions of a   *)
(* cent, transfers whole cents.                                            *)
(***************************************************************************)
EXTENDS Integers, Sequences, FiniteSets, Functions

CONSTANTS
    Shards,       \* shard numbers
    MaxCash,      \* a bound of the model: the most a shard holds or should hold
    Cent,         \* ticks in a cent
    MinMove,      \* MIN_MOVE
    Drift,        \* TOLERANCE[0]
    DriftPct      \* TOLERANCE[1], in percent

\* What is assumed of the amounts.
AmountsFit ==
    /\ Shards \subseteq Nat /\ IsFiniteSet(Shards)
    /\ Cent \in Nat \ {0} /\ MinMove \in Nat \ {0} /\ MinMove % Cent = 0
    /\ {MaxCash, Drift, DriftPct} \subseteq Nat

VARIABLES
    cash,    \* what each shard holds: Guard.shard_cash
    want,    \* what it should hold: Rebalancer.want
    short    \* Rebalancer.urgent

vars == <<cash, want, short>>

-----------------------------------------------------------------------------
(* plan *)

Larger(a, b) == IF a >= b THEN a ELSE b
Smaller(a, b) == IF a <= b THEN a ELSE b
WholeCents(n) == n - (n % Cent)

Gap(c, w, s) == w[s] - c[s]

\* Mutant of Behind: a shard that was short is treated like any other.
BehindOnly(c, w, urgent) ==
    \E s \in Shards : Gap(c, w, s) >= MinMove /\ 100 * Gap(c, w, s) > Larger(100 * Drift, DriftPct * w[s])

\* A shard is well below its target, or was short of cash just now ...
Behind(c, w, urgent) ==
    \E s \in Shards : /\ Gap(c, w, s) >= MinMove
                      /\ s \in urgent \/ 100 * Gap(c, w, s) > Larger(100 * Drift, DriftPct * w[s])

\* ... or one that isn't in use holds money.
IdleMoney(c, w) == \E s \in Shards : w[s] = 0 /\ c[s] >= MinMove

\* The shards whose n is worth a transfer, the largest first: <<n, shard>>.
Sorted(n) ==
    LET worth == {<<n[s], s>> : s \in {x \in Shards : n[x] >= MinMove}}
    IN  CHOOSE q \in [1..Cardinality(worth) -> worth] :
          \A i, j \in DOMAIN q : i < j => q[i][1] > q[j][1] \/ (q[i][1] = q[j][1] /\ q[i][2] > q[j][2])

Move(spare, dst, amt) == [src |-> spare[2], dst |-> dst, amt |-> amt]

\* Whole cents, never more than is there.
Amount(n, left) == WholeCents(Smaller(n, left))

\* A side when amt of its first has gone; ...
Left(side, amt) == <<<<Head(side)[1] - amt, Head(side)[2]>>>> \o Tail(side)

\* ... under MIN_MOVE what is left to give isn't worth a transfer.
Without(spare, amt) == IF Head(spare)[1] - amt < MinMove THEN Tail(spare) ELSE Left(spare, amt)

\* The two loops of plan, of <<need, spare>>: each need in turn takes from the first spares.
Sides == Seq(Nat \X Shards)
Match[p \in Sides \X Sides] ==
    LET need == p[1]
        spare == p[2]
        n == Head(need)[1]
        amt == Amount(n, Head(spare)[1])
    IN  IF need = <<>> THEN <<>>
        ELSE IF spare = <<>> \/ n < MinMove \/ amt < MinMove THEN Match[<<Tail(need), spare>>]
        ELSE <<Move(Head(spare), Head(need)[2], amt)>> \o Match[<<Left(need, amt), Without(spare, amt)>>]

Plan(c, w, urgent) ==
    IF ~Behind(c, w, urgent) /\ ~IdleMoney(c, w) THEN <<>>
    ELSE Match[<<Sorted([s \in Shards |-> Gap(c, w, s)]), Sorted([s \in Shards |-> -Gap(c, w, s)])>>]

\* What the transfers take from and bring to a shard.
Total(moves, is) == SumFunctionOnSet([i \in DOMAIN moves |-> moves[i].amt], is)
Out(moves, s) == Total(moves, {i \in DOMAIN moves : moves[i].src = s})
In(moves, s) == Total(moves, {i \in DOMAIN moves : moves[i].dst = s})

\* What the shards hold once the transfers have gone through.
After(c, moves) == [s \in Shards |-> c[s] - Out(moves, s) + In(moves, s)]

-----------------------------------------------------------------------------
(* Rebalancer.step, when every transfer goes through *)

Amounts == [Shards -> 0..MaxCash]

\* targets splits what the shards hold: the same total.
Init ==
    /\ cash \in Amounts
    /\ want \in {w \in Amounts : SumFunction(w) = SumFunction(cash)}
    /\ short \in SUBSET Shards

Round ==
    /\ cash' = After(cash, Plan(cash, want, short))
    /\ short' = {}
    /\ want' = want

Next == Round
Spec == Init /\ [][Next]_vars

-----------------------------------------------------------------------------
(* Properties *)

Moves == Plan(cash, want, short)

\* "Never more than is there": taken together, the transfers of a round take from
\* a shard no more than it has above its target, and bring one no more than it
\* lacks, though each was sized before any was made.
OnlySpare ==
    \A s \in Shards : /\ Out(Moves, s) <= Larger(0, -Gap(cash, want, s))
                      /\ In(Moves, s) <= Larger(0, Gap(cash, want, s))

\* A shard that just ran short has what it lacked after one round, but for what
\* is too little to move (topped up "at the next look"): under a MIN_MOVE of its
\* own, and of each other shard.
ShortServed ==
    \A s \in short : Gap(cash, want, s) >= MinMove =>
        \/ Gap(cash, want, s) - In(Moves, s) < MinMove
        \/ \A o \in Shards : -Gap(cash, want, o) - Out(Moves, o) < MinMove

\* A round leaves nothing for the next ("settlements landing on one shard don't
\* set off a transfer each"): money never goes back and forth.
SettledBy == Plan(cash', want', {}) = <<>>
=============================================================================
