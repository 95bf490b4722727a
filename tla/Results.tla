------------------------------ MODULE Results ------------------------------
(***************************************************************************)
(* How the markets that were paired or traded came out, on record          *)
(* (results.py): which markets a pass of the recorder looks up (due), how  *)
(* it shares its requests between the venues (ResultsRecorder.step), and   *)
(* what a row becomes when Kalshi's lifecycle events and the pass write it  *)
(* side by side (UPSERT).  A venue may show one result and pay another;    *)
(* what it paid is in the live account's ledger (live_payouts).            *)
(*                                                                         *)
(* The waits before a market is looked up again are taken to be over by    *)
(* the next pass (in the code two passes to six hours): only the order in  *)
(* which markets were last looked up is kept.                              *)
(***************************************************************************)
EXTENDS Integers, Sequences, FiniteSets

CONSTANTS Kalshi,    \* Kalshi's markets
          PMUS,      \* Polymarket US's
          Live,      \* those of live trades, open or settled less than PAYOUT_WATCH_S ago
          Values,    \* what a YES contract may pay
          Firsts,    \* what a market may show first
          Batch      \* BATCH: markets per pass

VARIABLES truth,     \* the markets as their venues have them
          ledger,    \* live_payouts: what a YES contract paid, or Unknown
          told,      \* the states Kalshi's lifecycle events have told of
          row,       \* the results table: the result, and whether the status says paid
          order,     \* the markets by checked_ts, the longest ago first
          pass       \* the pass under way: its markets, and what Kalshi said of them

vars == <<truth, ledger, told, row, order, pass>>

Markets == Kalshi \cup PMUS
Unknown == -1               \* no result, no payout on record
Known == Values \cup {Unknown}
NoPass == [todo |-> {}, said |-> <<>>]
NoRow == [yes |-> Unknown, paid |-> FALSE]

TypeOK == /\ truth \in [Markets -> [stage : {"open", "shown", "paid"}, yes : Known]]
          /\ ledger \in [Markets -> Known] /\ told \in [Kalshi -> SUBSET {"shown", "paid"}]
          /\ row \in [Markets -> [yes : Known, paid : BOOLEAN]]
          /\ Len(order) = Cardinality(Markets) /\ {order[i] : i \in DOMAIN order} = Markets
          /\ pass.todo \subseteq Markets
          /\ DOMAIN pass.said = pass.todo \cap Kalshi

Init == /\ truth = [m \in Markets |-> [stage |-> "open", yes |-> Unknown]]
        /\ ledger = [m \in Markets |-> Unknown] /\ told = [m \in Kalshi |-> {}]
        /\ row = [m \in Markets |-> NoRow] /\ pass = NoPass
        /\ order = CHOOSE o \in [1..Cardinality(Markets) -> Markets] :
                     \A m \in Markets : \E i \in DOMAIN o : o[i] = m

(***************************************************************************)
(* The venues, and the live account's ledger.                              *)
(***************************************************************************)
\* A market ends and shows a result.
Shows(m) == /\ truth[m].stage = "open"
            /\ \E y \in Firsts : truth' = [truth EXCEPT ![m] = [stage |-> "shown", yes |-> y]]
            /\ UNCHANGED <<ledger, told, row, order, pass>>

\* The venue pays it out, at that or another: only followed for a live trade's market, since
\* of another only the result is looked for.
Pays(m) == /\ m \in Live /\ truth[m].stage = "shown"
           /\ \E y \in Values : truth' = [truth EXCEPT ![m] = [stage |-> "paid", yes |-> y]]
           /\ UNCHANGED <<ledger, told, row, order, pass>>

\* moves.py finds the payout.
Found(m) == /\ m \in Live /\ truth[m].stage = "paid" /\ ledger[m] = Unknown
            /\ ledger' = [ledger EXCEPT ![m] = truth[m].yes]
            /\ UNCHANGED <<truth, told, row, order, pass>>

(***************************************************************************)
(* The table.                                                              *)
(***************************************************************************)
\* What a venue says of a market now: a result once it shows one, and whether it is paid.
Says(m) == [yes |-> truth[m].yes, paid |-> truth[m].stage = "paid"]

\* UPSERT: a result stays until another comes, the status is whatever was said last.
Upsert(r, said) == [yes |-> IF said.yes = Unknown THEN r.yes ELSE said.yes, paid |-> said.paid]

\* The markets ms have just been looked up.
Checked(ms) == SelectSeq(order, LAMBDA m : m \notin ms) \o SelectSeq(order, LAMBDA m : m \in ms)

\* A determined or settled event, which may leave the result out (kalshi_lifecycle_row).
Lifecycle(m) == /\ m \in Kalshi /\ truth[m].stage \notin told[m] \cup {"open"}
                /\ told' = [told EXCEPT ![m] = @ \cup {truth[m].stage}]
                /\ \E yes \in {truth[m].yes, Unknown} :
                     row' = [row EXCEPT ![m] = Upsert(@, [Says(m) EXCEPT !.yes = yes])]
                /\ order' = Checked({m})
                /\ UNCHANGED <<truth, ledger, pass>>

(***************************************************************************)
(* The pass.                                                               *)
(***************************************************************************)
\* _paid_as_shown: the ledger says what we have, or Kalshi's status that it is paid.
PaidAsShown(m) == IF ledger[m] = Unknown THEN m \in Kalshi /\ row[m].paid /\ row[m].yes # Unknown
                  ELSE row[m].yes = ledger[m]

\* due: a live trade's market until it is paid as shown, another's until it has a result;
\* then once a day for FINAL_WATCH_S, which any of the others may be at.
Wanted == {m \in Markets : row[m].yes = Unknown \/ (m \in Live /\ ~PaidAsShown(m))}

Least(a, b) == IF a < b THEN a ELSE b
Most(a, b) == IF a < b THEN b ELSE a

\* The n of ms looked up the longest ago.
MostOverdue(ms, n) == LET s == SelectSeq(order, LAMBDA m : m \in ms)
                      IN  {s[i] : i \in 1..Least(n, Len(s))}

\* Mutant of Share: Kalshi's markets come first.
ShareFirst(k, p) == Least(k, Batch)
\* How many of a pass's requests are Kalshi's, of k and p waiting: half, or what the other leaves.
Share(k, p) == Least(k, Most(Batch \div 2, Batch - p))

\* ResultsRecorder.step, up to Kalshi's answer.
Begins == /\ pass = NoPass
          /\ \E again \in SUBSET (Markets \ Wanted) :
               LET ks == (Wanted \cup again) \cap Kalshi
                   ps == (Wanted \cup again) \cap PMUS
                   n == Share(Cardinality(ks), Cardinality(ps))
                   todo == MostOverdue(ks, n) \cup MostOverdue(ps, Batch - n)
               IN  pass' = [todo |-> todo, said |-> [m \in todo \cap Kalshi |-> Says(m)]]
          /\ pass' # NoPass
          /\ UNCHANGED <<truth, ledger, told, row, order>>

\* Polymarket US answers, and both venues' rows are saved: of those markets that the answers
\* had, what was said of them.  The others count as checked.
Saves(of) == /\ pass # NoPass /\ of \subseteq pass.todo
             /\ row' = [m \in Markets |->
                          IF m \notin pass.todo THEN row[m]
                          ELSE Upsert(row[m], IF m \notin of THEN NoRow
                                              ELSE IF m \in Kalshi THEN pass.said[m] ELSE Says(m))]
             /\ order' = Checked(pass.todo)
             /\ pass' = NoPass
             /\ UNCHANGED <<truth, ledger, told>>

\* A request fails: neither venue's rows are saved (ResultsRecorder.run).
Fails == /\ pass # NoPass /\ pass' = NoPass
         /\ UNCHANGED <<truth, ledger, told, row, order>>

Next == \/ \E m \in Markets : Shows(m) \/ Pays(m) \/ Found(m) \/ Lifecycle(m)
        \/ Begins \/ (\E of \in SUBSET Markets : Saves(of)) \/ Fails

\* Passes go on, and none of the markets they look up fails to be answered every time.
Spec == /\ Init /\ [][Next]_vars /\ WF_vars(Begins)
        /\ \A m \in Markets : SF_vars(\E of \in SUBSET Markets : m \in of /\ Saves(of))

(***************************************************************************)
(* Properties.                                                             *)
(***************************************************************************)
\* Every market's result is on record, and a live trade's as the ledger says it was paid.
OnRecord == \A m \in Markets : /\ truth[m].stage # "open" => row[m].yes # Unknown
                               /\ ledger[m] # Unknown => row[m].yes = ledger[m]

\* So it is in the end, however many markets wait, whatever a venue showed first, whichever
\* requests fail, and however a pass and Kalshi's events overwrite each other's rows.
Judged == <>[]OnRecord
=============================================================================
