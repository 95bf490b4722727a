------------------------------ MODULE Journal ------------------------------
(***************************************************************************)
(* The order journal, line by line (arbscan/livetrade.py, Journal), with    *)
(* the trader that appends to it and the commands that read it back.        *)
(* LiveTrade keeps of it only the set of orders unresolved() lists; this    *)
(* module is about the file that set is read from.                          *)
(*                                                                         *)
(* A write that fails, or that the machine dies in, may leave the start of  *)
(* a line behind: `cut'.  What is written next goes on that line.           *)
(***************************************************************************)
EXTENDS Naturals, Sequences, FiniteSets

CONSTANTS
    Ids,     \* client ids of orders; random in the code, so each is used once
    None,
    MaxTorn  \* a bound of the model: writes that leave part of a line

ASSUME IdsAssumption == None \notin Ids
ASSUME TornAssumption == MaxTorn \in Nat

VARIABLES
    file,       \* the lines of live_journal.jsonl
    cut,        \* its last line is only the start of one
    up,         \* the trader's process runs
    order,      \* the order it has sent and not written the outcome of, or None
    halted,     \* it is stopped
    found,      \* what a live-resume under way has listed to be checked by hand, or None
    used,       \* ids orders have been given
    open,       \* history: orders that may have reached a venue, with no outcome
                \* written down and not checked by hand
    torn        \* history: how many writes left part of a line

vars == <<file, cut, up, order, halted, found, used, open, torn>>

-----------------------------------------------------------------------------

Sent(i) == [event |-> "send", id |-> i]
Done(i, status) == [event |-> "done", id |-> i, status |-> status]
Cleared(is) == [event |-> "cleared", ids |-> is]
Garbled == [event |-> "garbled"]

Line == {Sent(i) : i \in Ids} \cup {Done(i, s) : i \in Ids, s \in {"known", "unknown"}}
           \cup {Cleared(is) : is \in SUBSET Ids} \cup {Garbled}

TypeOK ==
    /\ file \in Seq(Line) /\ cut \in BOOLEAN /\ (cut => file # <<>>)
    /\ up \in BOOLEAN /\ halted \in BOOLEAN
    /\ order \in used \cup {None} /\ found \in {None} \cup SUBSET Ids
    /\ used \subseteq Ids /\ open \subseteq used /\ torn \in 0..MaxTorn

Init ==
    /\ file = <<>> /\ cut = FALSE
    /\ up = TRUE /\ order = None /\ halted = FALSE /\ found = None
    /\ used = {} /\ open = {} /\ torn = 0

-----------------------------------------------------------------------------

\* Mutant of In: reading stops at the first line that can't be read.
InUpToACut(line) == \E k \in DOMAIN file : file[k] = line /\ \A j \in 1..k : file[j] # Garbled

In(line) == \E k \in DOMAIN file : file[k] = line

\* Mutant of Known: any line about an order's outcome settles it.
KnownAnyhow(i) ==
    \/ \E s \in {"known", "unknown"} : In(Done(i, s))
    \/ \E is \in SUBSET Ids : i \in is /\ In(Cleared(is))

Known(i) ==
    \/ In(Done(i, "known"))
    \/ \E is \in SUBSET Ids : i \in is /\ In(Cleared(is))

\* unresolved(): order of the lines doesn't matter, those that can't be read are skipped.
Unresolved == {i \in Ids : In(Sent(i)) /\ ~Known(i)}

\* _add, when all of it is written.
Add(line) ==
    /\ cut' = FALSE /\ torn' = torn
    /\ file' = IF cut THEN [file EXCEPT ![Len(file)] = Garbled] ELSE Append(file, line)

\* ... and when only part of it is, or nothing.
AddFails ==
    \/ UNCHANGED <<file, cut, torn>>
    \/ /\ ~cut /\ torn < MaxTorn
       /\ cut' = TRUE /\ torn' = torn + 1
       /\ file' = Append(file, Garbled)

-----------------------------------------------------------------------------
(* The trader *)

Send(i) ==
    /\ up /\ ~halted /\ order = None /\ i \notin used
    /\ Add(Sent(i))
    /\ order' = i
    /\ used' = used \cup {i}
    /\ open' = open \cup {i}
    /\ UNCHANGED <<up, halted, found>>

\* No order leaves whose line couldn't be written; the trade stops the trader.
SendFails(i) ==
    /\ up /\ ~halted /\ order = None /\ i \notin used
    /\ AddFails
    /\ used' = used \cup {i}
    /\ halted' = TRUE
    /\ UNCHANGED <<up, order, found, open>>

Learn(status) ==
    /\ order # None
    /\ Add(Done(order, status))
    /\ order' = None
    /\ open' = IF status = "known" THEN open \ {order} ELSE open
    /\ halted' = (halted \/ status = "unknown")
    /\ UNCHANGED <<up, found, used>>

LearnFails ==
    /\ order # None
    /\ AddFails
    /\ order' = None
    /\ halted' = TRUE
    /\ UNCHANGED <<up, found, used, open>>

\* The process dies, perhaps in the middle of a write.
Crash ==
    /\ up
    /\ up' = FALSE /\ order' = None
    /\ AddFails
    /\ UNCHANGED <<halted, found, used, open>>

Restart ==
    /\ ~up
    /\ up' = TRUE
    /\ halted' = (halted \/ Unresolved # {})
    /\ UNCHANGED <<file, cut, order, found, used, open, torn>>

-----------------------------------------------------------------------------
(* The user: live-resume, run between trades of a stopped trader *)

ResumeRead ==
    /\ found = None /\ halted /\ order = None
    /\ found' = Unresolved
    /\ UNCHANGED <<file, cut, up, order, halted, used, open, torn>>

ResumeApply ==
    /\ found # None
    /\ IF found = {} THEN UNCHANGED <<file, cut, torn>> ELSE Add(Cleared(found))
    /\ open' = open \ found
    /\ halted' = FALSE
    /\ found' = None
    /\ UNCHANGED <<up, order, used>>

ResumeFails ==
    /\ found # None /\ found # {}
    /\ AddFails
    /\ found' = None
    /\ UNCHANGED <<up, order, halted, used, open>>

Next ==
    \/ \E i \in Ids : Send(i) \/ SendFails(i)
    \/ Learn("known") \/ Learn("unknown") \/ LearnFails
    \/ Crash \/ Restart
    \/ ResumeRead \/ ResumeApply \/ ResumeFails

Spec == Init /\ [][Next]_vars

-----------------------------------------------------------------------------
(* Properties *)

\* As long as no line was cut short the journal lists exactly the orders whose outcome
\* is open, whatever crashes, failed writes and commands came between: the set LiveTrade
\* takes it for.
Exact == torn = 0 => Unresolved = open

\* What is true of it with lines cut short: each costs at most the one entry written
\* after it, however many orders were open.
EachCutLosesOne == Cardinality(open \ Unresolved) <= torn
=============================================================================
