------------------------------- MODULE Ledgers -------------------------------
(***************************************************************************)
(* What the owner's own trades in one Kalshi market moved the account's    *)
(* cash by, as the background read of the ledger works it out (moves.py    *)
(* Moves.refresh, _kalshi, kalshi_markets, _keep). A fill does not say     *)
(* whether it opened or closed a position, and Kalshi nets YES against NO, *)
(* so the read walks back from the position now; it asks for the position  *)
(* before and after the ledger, and leaves a market that moved meanwhile   *)
(* for the next read. Every request is a step of its own: the owner goes   *)
(* on trading between two of them.                                         *)
(*                                                                         *)
(* Money is in tenths of a dollar. An entry is named by its place in the   *)
(* order things happened.                                                  *)
(***************************************************************************)
EXTENDS Integers, FiniteSetsExt, Functions

CONSTANTS Prices,   \* what a YES contract may trade at
          Overlap,  \* OVERLAP_S: how far a read goes back before the last one began
          Late,     \* how long an entry may take to show up in the ledger (0: not at all)
          MaxFills, \* bound: fills
          MaxNow    \* bound: the last tick

VARIABLES now,      \* the clock
          pos,      \* the owner's position: + YES, - NO
          entries,  \* what happened in the market: fills, and its settlement last
          shown,    \* how many entries the ledger shows
          moves,    \* Moves.moves: what is kept of each entry
          readTo,   \* Moves.read_to: the ledger is read up to here
          reading,  \* the read under way: the request it is at, and what it has been told
          crossed   \* a read was kept although trades came while it read, or show up late, and
            \* the position was the same before and after it

vars == <<now, pos, entries, shown, moves, readTo, reading, crossed>>

Dollar == 10

LedgerFits == Prices \subseteq 0..Dollar /\ {Overlap, Late, MaxFills, MaxNow} \subseteq Nat

Size(n) == IF n < 0 THEN -n ELSE n
Unkept == MaxFills * Dollar + 1     \* more than any entry moves
Ids == 1..(MaxFills + 1)
Made == {i \in Ids : entries[i].kind # "none"}
Nothing == [kind |-> "none", at |-> 0, n |-> 0, price |-> 0]
NoRead == [stage |-> "idle", began |-> 0, from |-> 0, fills |-> {}, paid |-> {}, before |-> 0]

TypeOK == /\ now \in 0..MaxNow /\ pos \in -MaxFills..MaxFills /\ readTo \in 0..MaxNow
          /\ \A i \in Ids : entries[i] \in [kind : {"none", "fill", "paid"}, at : 0..MaxNow,
                                            n : -MaxFills..MaxFills, price : Prices \cup {0, Dollar}]
          /\ \A i \in Ids : moves[i] = Unkept \/ moves[i] \in -MaxFills * Dollar..MaxFills * Dollar
          /\ shown \in 0..Cardinality(Made)
          /\ reading.stage \in {"idle", "look", "paid?", "before", "fills", "paid", "after"}
          /\ reading.fills \subseteq Made /\ reading.paid \subseteq Made
          /\ crossed \in BOOLEAN

Init == /\ now = 0 /\ pos = 0 /\ entries = [i \in Ids |-> Nothing] /\ shown = 0
        /\ moves = [i \in Ids |-> Unkept] /\ readTo = 0 /\ reading = NoRead /\ crossed = FALSE

(***************************************************************************)
(* The owner, and the venue.                                               *)
(***************************************************************************)
Next1 == Cardinality(Made) + 1
AtOnce == IF Late = 0 THEN Next1 ELSE shown
Settled == \E i \in Made : entries[i].kind = "paid"

\* The owner buys or sells a YES contract; the position is there at once.
Trade == \E n \in {-1, 1}, y \in Prices :
           /\ ~Settled /\ Next1 <= MaxFills /\ pos + n \in -MaxFills..MaxFills
           /\ entries' = [entries EXCEPT ![Next1] = [kind |-> "fill", at |-> now, n |-> n, price |-> y]]
           /\ pos' = pos + n /\ shown' = AtOnce
           /\ UNCHANGED <<now, moves, readTo, reading, crossed>>

\* The market settles at YES or NO, and pays the position out.
Settles == \E y \in {0, Dollar} :
             /\ ~Settled /\ pos # 0
             /\ entries' = [entries EXCEPT ![Next1] = [kind |-> "paid", at |-> now, n |-> pos, price |-> y]]
             /\ pos' = 0 /\ shown' = AtOnce
             /\ UNCHANGED <<now, moves, readTo, reading, crossed>>

\* The ledger catches up with what happened.
Shows == /\ shown < Cardinality(Made) /\ shown' = shown + 1
         /\ UNCHANGED <<now, pos, entries, moves, readTo, reading, crossed>>

Tick == /\ now < MaxNow /\ \A i \in Made : i > shown => now < entries[i].at + Late
        /\ now' = now + 1
        /\ UNCHANGED <<pos, entries, shown, moves, readTo, reading, crossed>>

\* What an entry really moved: a fill costs its side's price, and every pair of YES and
\* NO it makes is paid out at a dollar; a settlement pays the side held.
Sizes == [j \in Ids |-> entries[j].n]
Held(i) == SumFunctionOnSet(Sizes, {j \in Made : j < i})
Worth(i) == LET e == entries[i]
            IN  IF e.kind = "paid" THEN (IF e.n > 0 THEN e.price ELSE Dollar - e.price) * Size(e.n)
                ELSE (IF e.n > 0 THEN -e.price ELSE e.price - Dollar)
                     + (IF Held(i) * e.n < 0 THEN Dollar ELSE 0)

(***************************************************************************)
(* The read.                                                               *)
(***************************************************************************)
At(stage, r) == reading' = [r EXCEPT !.stage = stage]
Window(kind) == {i \in 1..shown : entries[i].kind = kind /\ entries[i].at >= reading.from}

\* Moves.refresh: from where the last read that went through began, less the overlap.
Begins == /\ reading.stage = "idle"
          /\ At("look", [NoRead EXCEPT !.began = now,
                                       !.from = IF readTo > Overlap THEN readTo - Overlap ELSE 0])
          /\ UNCHANGED <<now, pos, entries, shown, moves, readTo, crossed>>

\* _kalshi_window, first and again: the fills, then the settlements.
Fills == /\ reading.stage \in {"look", "fills"}
         /\ At(IF reading.stage = "look" THEN "paid?" ELSE "paid", [reading EXCEPT !.fills = Window("fill")])
         /\ UNCHANGED <<now, pos, entries, shown, moves, readTo, crossed>>

\* With nothing of the owner's in it the read is over; else it goes through again.
Paid == /\ reading.stage \in {"paid?", "paid"}
        /\ LET r == [reading EXCEPT !.paid = Window("paid")]
           IN  IF reading.stage = "paid" THEN At("after", r) /\ UNCHANGED readTo
               ELSE IF r.fills \cup r.paid # {} THEN At("before", r) /\ UNCHANGED readTo
               ELSE reading' = NoRead /\ readTo' = reading.began
        /\ UNCHANGED <<now, pos, entries, shown, moves, crossed>>

Before == /\ reading.stage = "before" /\ At("fills", [reading EXCEPT !.before = pos])
          /\ UNCHANGED <<now, pos, entries, shown, moves, readTo, crossed>>

\* kalshi_markets: the position a fill met, walked back from the one now (or from what
\* the settlement says was held) through the entries given.
Met(i, given, after) ==
  LET last == {j \in given : entries[j].kind = "paid"}
      from == IF last = {} THEN after ELSE entries[Max(last)].n
  IN  from - SumFunctionOnSet(Sizes, {j \in given \ last : j >= i})

Least(a, b) == IF a < b THEN a ELSE b
Most(a, b) == IF a < b THEN b ELSE a

\* What the fill or settlement i is taken to have moved.
Moved(i, given, after) ==
  LET e == entries[i]
      met == Met(i, given, after)
      n == Size(e.n)
      closed == IF e.n > 0 THEN Least(n, Most(0, -met)) ELSE Least(n, Most(0, met))
  IN  IF e.kind = "paid" THEN Worth(i)
      ELSE IF e.n > 0 THEN closed * (Dollar - e.price) - (n - closed) * e.price
      ELSE closed * e.price - (n - closed) * (Dollar - e.price)

\* Mutant of Moving: only one read of the position, after the ledger's.
MovingNot(before, after) == FALSE
\* The position changed between its two reads.
Moving(before, after) == before # after

\* What came between the two reads of the position, by the time it was read again.
Unseen(given) == {i \in Made \ given : entries[i].at >= reading.from}

\* _kalshi, to its end, and _keep.
After == LET given == reading.fills \cup reading.paid
         IN  /\ reading.stage = "after" /\ reading' = NoRead
             /\ IF Moving(reading.before, pos) THEN UNCHANGED <<moves, readTo, crossed>>
                ELSE /\ moves' = [i \in Ids |-> IF i \in given THEN Moved(i, given, pos) ELSE moves[i]]
                     /\ readTo' = reading.began
                     /\ crossed' = (crossed \/ (reading.before = pos /\ Unseen(given) # {}))
             /\ UNCHANGED <<now, pos, entries, shown>>

\* A request fails, or the process ends: what was read is given up.
Fails == /\ reading.stage # "idle" /\ reading' = NoRead
         /\ UNCHANGED <<now, pos, entries, shown, moves, readTo, crossed>>

Next == \/ Trade \/ Settles \/ Shows \/ Tick
        \/ Begins \/ Fills \/ Paid \/ Before \/ After \/ Fails

Spec == Init /\ [][Next]_vars

(***************************************************************************)
(* Properties.                                                             *)
(***************************************************************************)
\* What is kept of an entry is what it really moved, through any netting of YES against
\* NO and a settlement, however the reads fall between the owner's trades; unless there
\* were trades it did not see, and the position was no different for them.
RightUnlessCrossed == \A i \in Ids : moves[i] # Unkept /\ ~crossed => moves[i] = Worth(i)
=============================================================================
