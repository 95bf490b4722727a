----------------------------- MODULE BookPromise -----------------------------
(***************************************************************************)
(* What a feed promises of the books it streams (arbscan/feeds.py): "a book *)
(* is only ready between its snapshot and the next disconnect or gap", and  *)
(* a ready book is the exchange's, as it was some time ago.  It follows it  *)
(* one change at a time and never goes back to an older one.                *)
(*                                                                         *)
(* A book is the sequence of the changes it is made of.                     *)
(***************************************************************************)
EXTENDS Integers, Sequences

CONSTANTS Markets

VARIABLES
    changes,   \* how often the exchange's book has changed
    view,      \* the feed's book of each market, and whether it is ready
    seen       \* how many changes the newest book it has shown was made of

vars == <<changes, view, seen>>

\* The exchange's book after its first n changes.
Book(n) == [i \in 1..n |-> i]

Down == [ready |-> FALSE, has |-> <<>>]
Up(n) == [ready |-> TRUE, has |-> Book(n)]

Init ==
    /\ changes = [m \in Markets |-> 0]
    /\ view = [m \in Markets |-> Down]
    /\ seen = [m \in Markets |-> 0]

Change(m) ==
    /\ changes' = [changes EXCEPT ![m] = @ + 1]
    /\ UNCHANGED <<view, seen>>

TakeDown(ms) ==
    /\ view' = [m \in Markets |-> IF m \in ms THEN Down ELSE view[m]]
    /\ UNCHANGED <<changes, seen>>

\* A snapshot: any book since the newest one shown.
Show(m) ==
    /\ \E n \in seen[m]..changes[m] :
           /\ view' = [view EXCEPT ![m] = Up(n)]
           /\ seen' = [seen EXCEPT ![m] = n]
    /\ changes' = changes

\* A change: the next one, on a book that is up.
Follow(m) ==
    /\ view[m] = Up(seen[m]) /\ seen[m] < changes[m]
    /\ view' = [view EXCEPT ![m] = Up(seen[m] + 1)]
    /\ seen' = [seen EXCEPT ![m] = @ + 1]
    /\ changes' = changes

Next ==
    \/ \E m \in Markets : Change(m) \/ Show(m) \/ Follow(m)
    \/ \E ms \in SUBSET Markets : TakeDown(ms)

Spec == Init /\ [][Next]_vars
=============================================================================
