---------------------------- MODULE MCWatchlist ----------------------------
(***************************************************************************)
(* Model checking how pairs come to be watched: Discovery, where markets    *)
(* come into the catalog, and Pairing, where pairs of them come into        *)
(* pairs.csv and out of it.  What joins the two is which candidates there   *)
(* are, and Pairing takes any; so a behaviour is of one or of the other.    *)
(***************************************************************************)
EXTENDS Pairing, TLC

CONSTANTS
    Markets, Overlap, Margin, Lag, MaxNow,  \* Discovery's
    MaxBusy                                 \* a bound of the model: processes deciding at once

VARIABLES
    part,                                                                               \* which of the two
    now, born, state, rows, built, catalog, up, known, since, found, polled, marks, missed   \* Discovery's

listing == <<now, born, state, rows, built, catalog, up, known, since, found, polled, marks, missed>>

Listed == INSTANCE Discovery

ASSUME WatchlistAssumption == ProcessesApart /\ Listed!LagCovered /\ MaxNow > 0

MCInit == Init /\ Listed!Init /\ part \in {"pairing", "discovery"}

Busy == {a \in Approvers : InHand(a) # {}}

MCNext ==
    \/ part = "pairing" /\ Next /\ Cardinality(Busy') <= MaxBusy /\ UNCHANGED <<part, listing>>
    \/ part = "discovery" /\ Listed!Next /\ UNCHANGED <<part, vars>>

\* Nothing tells one pair from another, or one market.
Alike == Permutations(Pairs) \cup Permutations(Markets)

MCSpec == MCInit /\ [][MCNext]_<<part, vars, listing>>

-----------------------------------------------------------------------------

\* The type invariants of both.
TypesOK == TypeOK /\ Listed!TypeOK

\* No market falls between two of the discovery service's questions.
NoneBetween == Listed!NoneBetween
=============================================================================
