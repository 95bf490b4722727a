------------------------------ MODULE Pairing ------------------------------
(***************************************************************************)
(* Which markets are paired: pairs.csv, the decisions behind it, and those  *)
(* who write both without a lock they all take.  The refresh's match and    *)
(* review steps (arbscan/match.py, jev.py) and the discovery service        *)
(* (discover.py) approve pairs by rule or on Jev's verdict, a person        *)
(* approves and rejects them (review.py), a match rechecks what code        *)
(* approved, and the dashboard removes pairs (web/app.py).  Decisions are   *)
(* rows in SQLite, which lets one connection write at a time; pairs.csv is  *)
(* appended to, rewritten, and reloaded by the scanner when its mtime       *)
(* changes (pairs.py).  Mtimes are of the kernel's clock, which advances in *)
(* ticks: what is written in one tick has one mtime.  A rewrite is one      *)
(* step, of its tmp file and its replacing the other.                      *)
(*                                                                         *)
(* A pair stands for the two markets and the relation between them.         *)
(***************************************************************************)
EXTENDS Naturals, FiniteSets

CONSTANTS
    Pairs,      \* the pairs that may be suggested
    Code,       \* the processes that decide in code: the refresh and the discovery service
    Refresh,    \* the refresh, one of them: it also rechecks
    Person,     \* `arbscan review`
    Web         \* the dashboard

ProcessesApart ==
    Refresh \in Code /\ Person \notin Code /\ Web \notin Code \cup {Person}

VARIABLES
    decision,   \* the committed decisions
    held,       \* per process: the rejections of its open transaction
    todo,       \* per process: what it found undecided when it looked, and has yet to decide
    pend,       \* per process: the pair it has just approved and not appended yet
    file,       \* pairs.csv
    cut,        \* per process that removes pairs: where remove_pairs is, what it takes out
    tick,       \* whether the clock's tick is still the one pairs.csv was last written in
    changed,    \* whether the file's mtime isn't the one the scanner last saw
    scanner,    \* PairFile: whether it is between the stat and the load; whether it holds the file;
                \* whether it loaded it in the tick of its last write
    excused     \* history: pairs two had in hand at once, or whose line two rewrites fought over;
                \* whose approval or revocation a crash cut short; taken out by hand

deciding == <<decision, held, todo, pend>>
watching == <<tick, changed, scanner>>
vars == <<deciding, file, cut, watching, excused>>

-----------------------------------------------------------------------------

Approvers == Code \cup {Person}
Removers == {Refresh, Web}

Undecided == [verdict |-> "none", by |-> "nobody"]
Source(a) == IF a = Person THEN "person" ELSE "code"
Decision(v, by) == [verdict |-> v, by |-> by]
Decisions == [verdict : {"pair", "reject"}, by : {"person", "code", "recheck"}] \cup {Undecided}

NoCut == [at |-> "idle", ids |-> {}, left |-> {}]

TypeOK ==
    /\ decision \in [Pairs -> Decisions]
    /\ held \in [Approvers -> SUBSET Pairs] /\ todo \in [Approvers -> SUBSET Pairs]
    /\ pend \in [Approvers -> SUBSET Pairs] /\ \A a \in Approvers : Cardinality(pend[a]) <= 1
    /\ Cardinality({a \in Approvers : held[a] # {}}) <= 1
    /\ file \subseteq Pairs
    /\ cut \in [Removers -> [at : {"idle", "found", "read", "replaced"},
                             ids : SUBSET Pairs, left : SUBSET Pairs]]
    /\ tick \in BOOLEAN /\ changed \in BOOLEAN
    /\ scanner \in [at : {"idle", "seen"}, current : BOOLEAN, early : BOOLEAN]
    /\ excused \subseteq Pairs

Init ==
    /\ decision = [p \in Pairs |-> Undecided]
    /\ held = [a \in Approvers |-> {}] /\ todo = [a \in Approvers |-> {}]
    /\ pend = [a \in Approvers |-> {}]
    /\ file = {}
    /\ cut = [r \in Removers |-> NoCut]
    /\ tick = FALSE /\ changed = FALSE /\ scanner = [at |-> "idle", current |-> TRUE, early |-> FALSE]
    /\ excused = {}

-----------------------------------------------------------------------------
(* Deciding *)

\* What a process has in hand.
InHand(a) == todo[a] \cup held[a] \cup pend[a]

\* The candidates without a committed decision; match and review aren't told of the others.
Open == {p \in Pairs : decision[p] = Undecided} \ file

\* _pending, or auto_approve's set of decided pairs: a snapshot of the candidates, from which
\* a rule, or what Jev or a person reads, picks.  In a refresh the match comes first.
Look(a, s) ==
    /\ InHand(a) = {} /\ s # {} /\ s \subseteq Open
    /\ a = Refresh => cut[a].at = "idle"
    /\ todo' = [todo EXCEPT ![a] = s]
    /\ excused' = excused \cup {p \in s : \E b \in Approvers \ {a} : p \in InHand(b)}
    /\ UNCHANGED <<decision, held, pend, file, cut, watching>>

\* Mutant of CanWrite: a transaction that is open keeps nobody from writing.
CanWriteAnyway(a) == TRUE

\* SQLite lets one transaction write: another waits for it.
CanWrite(a) == \A b \in Approvers \ {a} : held[b] = {}

\* The transaction of a is committed, with a decision v on p in it.
Committed(a, p, v) ==
    [q \in Pairs |-> IF q = p THEN Decision(v, Source(a))
                     ELSE IF q \in held[a] THEN Decision("reject", Source(a))
                     ELSE decision[q]]

\* Mutant of Approve: the pair is appended before its decision is committed.
ApproveLate(a, p) ==
    /\ pend' = [pend EXCEPT ![a] = {p}]
    /\ UNCHANGED <<decision, held>>

\* decide, auto_approve: an approval is committed at once, and all before it with it; the
\* append comes after.
Approve(a, p) ==
    /\ decision' = Committed(a, p, "pair")
    /\ held' = [held EXCEPT ![a] = {}]
    /\ pend' = [pend EXCEPT ![a] = {p}]

\* A person's rejection is committed, one of Jev's (an unsure verdict is one too) stays in the
\* transaction, until the fiftieth.
Reject(a, p) ==
    /\ \/ /\ decision' = Committed(a, p, "reject")
          /\ held' = [held EXCEPT ![a] = {}]
       \/ /\ a \in Code
          /\ held' = [held EXCEPT ![a] = @ \cup {p}]
          /\ UNCHANGED decision
    /\ UNCHANGED pend

\* The decision itself is INSERT OR REPLACE: whatever was decided since the look is overwritten.
Decide(a, p) ==
    /\ p \in todo[a] /\ pend[a] = {} /\ CanWrite(a)
    /\ todo' = [todo EXCEPT ![a] = @ \ {p}]
    /\ Approve(a, p) \/ Reject(a, p)
    /\ UNCHANGED <<file, cut, watching, excused>>

\* A new file: its mtime is new too, but in the tick of the last write.
Written(pairs) ==
    /\ file' = pairs /\ tick' = TRUE
    /\ changed' = (changed \/ ~tick)
    /\ scanner' = [scanner EXCEPT !.current = FALSE, !.early = @ /\ tick]

\* The clock's next tick.
Ticks ==
    /\ tick /\ tick' = FALSE
    /\ UNCHANGED <<deciding, file, cut, changed, scanner, excused>>

\* append_pair
AppendPair(a) ==
    /\ pend[a] # {}
    /\ Written(file \cup pend[a])
    /\ pend' = [pend EXCEPT ![a] = {}]
    /\ UNCHANGED <<decision, held, todo, cut, excused>>

\* The rest is left undecided: skipped, or Jev didn't answer.  What is open is committed.
End(a) ==
    /\ pend[a] = {} /\ InHand(a) # {}
    /\ decision' = [q \in Pairs |-> IF q \in held[a] THEN Decision("reject", Source(a)) ELSE decision[q]]
    /\ held' = [held EXCEPT ![a] = {}]
    /\ todo' = [todo EXCEPT ![a] = {}]
    /\ UNCHANGED <<pend, file, cut, watching, excused>>

-----------------------------------------------------------------------------
(* Taking pairs out *)

\* _approved: the pairs in the file that code approved; a person's approval stands.  (The
\* decisions it records for pairs that have none are those of older files: see Backed.)
Approved == {p \in file : decision[p] = Decision("pair", "code")}

\* recheck: any of them may be found stale.
Recheck(ids) ==
    /\ cut[Refresh].at = "idle" /\ InHand(Refresh) = {}
    /\ ids # {} /\ ids \subseteq Approved
    /\ cut' = [cut EXCEPT ![Refresh] = [NoCut EXCEPT !.at = "found", !.ids = ids]]
    /\ UNCHANGED <<deciding, file, watching, excused>>

\* revoke, later: remove_pairs reads the file,
RemoveRead ==
    /\ cut[Refresh].at = "found"
    /\ cut' = [cut EXCEPT ![Refresh].at = "read", ![Refresh].left = file]
    /\ UNCHANGED <<deciding, file, watching, excused>>

\* as it does when a person takes pairs out on the dashboard,
Remove(ids) ==
    /\ cut[Web].at = "idle" /\ ids # {} /\ ids \subseteq file
    /\ cut' = [cut EXCEPT ![Web] = [at |-> "read", ids |-> ids, left |-> file]]
    /\ excused' = excused \cup ids
    /\ UNCHANGED <<deciding, file, watching>>

\* and puts one without the pairs in its place, whatever became of the first meanwhile.
Replace(r) ==
    LET left == cut[r].left \ cut[r].ids IN
    /\ cut[r].at = "read"
    /\ IF left # cut[r].left
       THEN /\ Written(left)
            /\ excused' = excused \cup (file \ cut[r].left) \cup (left \ file)
       ELSE UNCHANGED <<file, watching, excused>>
    /\ cut' = [cut EXCEPT ![r] = IF r = Refresh THEN [@ EXCEPT !.at = "replaced"] ELSE NoCut]
    /\ UNCHANGED deciding

\* Mutant of Revoked: the decisions stand.
NotRevoked == decision

\* revoke, when the file is done: the decisions become rejections.
Revoked == [p \in Pairs |-> IF p \in cut[Refresh].ids THEN Decision("reject", "recheck") ELSE decision[p]]

Revoke ==
    /\ cut[Refresh].at = "replaced" /\ CanWrite(Refresh)
    /\ decision' = Revoked
    /\ cut' = [cut EXCEPT ![Refresh] = NoCut]
    /\ UNCHANGED <<held, todo, pend, file, watching, excused>>

-----------------------------------------------------------------------------

\* A process is killed, or waits too long for SQLite's lock and ends: what it hadn't
\* committed is rolled back.
Crash(a) ==
    /\ InHand(a) # {} \/ (a = Refresh /\ cut[a].at # "idle")
    /\ todo' = [todo EXCEPT ![a] = {}] /\ held' = [held EXCEPT ![a] = {}]
    /\ pend' = [pend EXCEPT ![a] = {}]
    /\ excused' = excused \cup pend[a] \cup (IF a = Refresh THEN cut[a].ids ELSE {})
    /\ cut' = IF a = Refresh THEN [cut EXCEPT ![a] = NoCut] ELSE cut
    /\ UNCHANGED <<decision, file, watching>>

\* Mutant of Reload: the file is loaded first, and its mtime taken after.
ReloadFirst ==
    /\ \/ /\ scanner.at = "idle" /\ changed
          /\ scanner' = [at |-> "seen", current |-> TRUE, early |-> tick]
          /\ UNCHANGED changed
       \/ /\ scanner.at = "seen"
          /\ scanner' = [scanner EXCEPT !.at = "idle"]
          /\ changed' = FALSE
    /\ UNCHANGED <<deciding, file, cut, tick, excused>>

\* PairFile.refresh: the mtime, and the file if it is a new one.
Reload ==
    /\ \/ /\ scanner.at = "idle" /\ changed
          /\ changed' = FALSE
          /\ scanner' = [scanner EXCEPT !.at = "seen"]
       \/ /\ scanner.at = "seen"
          /\ scanner' = [at |-> "idle", current |-> TRUE, early |-> tick]
          /\ UNCHANGED changed
    /\ UNCHANGED <<deciding, file, cut, tick, excused>>

Next ==
    \/ \E a \in Approvers :
        \/ \E s \in SUBSET Pairs : Look(a, s)
        \/ \E p \in Pairs : Decide(a, p)
        \/ AppendPair(a) \/ End(a) \/ Crash(a)
    \/ \E ids \in SUBSET Pairs : Recheck(ids) \/ Remove(ids)
    \/ \E r \in Removers : Replace(r)
    \/ RemoveRead \/ Revoke \/ Ticks \/ Reload

Spec == Init /\ [][Next]_vars

-----------------------------------------------------------------------------

\* A pair is never in pairs.csv with no decision behind it, wherever a process is killed
\* (decide's docstring).
Backed == \A p \in file : decision[p] # Undecided

Settled(p) ==
    /\ \A a \in Approvers : p \notin InHand(a)
    /\ \A r \in Removers : p \notin cut[r].ids

\* What was decided of a pair and whether it is watched agree, once nobody has it in hand:
\* a rejected pair isn't watched and an approved one is.  The exceptions are those nothing in
\* the code prevents: two processes that looked before either decided, a line appended between
\* another's read and rewrite of the file, a process killed between its two writes; and a pair
\* taken out on the dashboard, whose approval stands.
Agree ==
    \A p \in Pairs \ excused :
        Settled(p) => (p \in file <=> decision[p].verdict = "pair")

\* The scanner has what is in the file, or will look again, unless it loaded the file in the
\* tick of its last write: then a line may have been added after the load, which it does not
\* see before the file is next written.  In between its stat and its load, or in any other
\* tick, no rewrite is missed.
SeesTheFile == scanner.current \/ changed \/ scanner.at = "seen" \/ scanner.early

\* Jev reviews a candidate "that no rule or person has decided yet" (jev.py): what a person
\* decided is never overwritten.
PersonStands ==
    [][\A p \in Pairs : decision[p].by = "person" => decision'[p] = decision[p]]_vars
=============================================================================
