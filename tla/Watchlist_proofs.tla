-------------------------- MODULE Watchlist_proofs --------------------------
(***************************************************************************)
(* Pairing and Discovery, for any pairs, markets and processes: that no     *)
(* pair is watched without a decision, that decisions and pairs.csv agree,  *)
(* that a person's decision stands unless two had the pair in hand, that    *)
(* the scanner sees every rewrite but one in the tick it loaded the file    *)
(* in, and that no market falls between two of the discovery service's      *)
(* questions.                                                              *)
(***************************************************************************)
EXTENDS MCWatchlist, FiniteSetTheorems, TLAPS

-----------------------------------------------------------------------------
(* The types of Pairing: TypeOK, its cardinalities said of the elements *)

Places == {"idle", "found", "read", "replaced"}

PTypes ==
    /\ decision \in [Pairs -> Decisions]
    /\ held \in [Approvers -> SUBSET Pairs] /\ todo \in [Approvers -> SUBSET Pairs]
    /\ pend \in [Approvers -> SUBSET Pairs]
    /\ file \subseteq Pairs
    /\ cut \in [Removers -> [at : Places, ids : SUBSET Pairs, left : SUBSET Pairs]]
    /\ tick \in BOOLEAN /\ changed \in BOOLEAN
    /\ scanner \in [at : {"idle", "seen"}, current : BOOLEAN, early : BOOLEAN]
    /\ excused \subseteq Pairs

\* SQLite lets one write; a process appends one pair at a time, and has each at one stage.
Apart ==
    /\ \A a, b \in Approvers : held[a] # {} /\ held[b] # {} => a = b
    /\ \A a \in Approvers : \A p, q \in pend[a] : p = q
    /\ \A a \in Approvers : todo[a] \cap held[a] = {}

WInv == PTypes /\ Apart

LEMMA SourceType == ASSUME NEW a \in Approvers PROVE Source(a) \in {"person", "code"}
    BY DEF Source

LEMMA DecisionType ==
    ASSUME NEW v \in {"pair", "reject"}, NEW by \in {"person", "code", "recheck"}
    PROVE  /\ Decision(v, by) \in Decisions /\ Decision(v, by) # Undecided
           /\ Decision(v, by).verdict = v /\ Decision(v, by).by = by
    BY DEF Decision, Decisions, Undecided

LEMMA CommittedType ==
    ASSUME PTypes, NEW a \in Approvers, NEW p \in Pairs, NEW v \in {"pair", "reject"}
    PROVE  Committed(a, p, v) \in [Pairs -> Decisions]
    BY SourceType, DecisionType DEF Committed, PTypes

\* What Decide does of the pairs in hand, the approval and the two rejections.
LEMMA WDecide ==
    ASSUME WInv, NEW a \in Approvers, NEW p \in Pairs, Decide(a, p)
    PROVE  WInv'
<1> USE DEF WInv
<1>1. /\ p \in todo[a] /\ pend[a] = {} /\ \A b \in Approvers \ {a} : held[b] = {}
      /\ todo' = [todo EXCEPT ![a] = @ \ {p}]
      /\ UNCHANGED <<file, cut, watching, excused>>
    BY DEF Decide, CanWrite
<1>2. CASE Approve(a, p)
    <2>1. PTypes'
        BY <1>1, <1>2, CommittedType DEF Approve, PTypes, watching
    <2>2. Apart'
        BY <1>1, <1>2 DEF Approve, PTypes, Apart
    <2> QED  BY <2>1, <2>2
<1>3. CASE /\ decision' = Committed(a, p, "reject") /\ held' = [held EXCEPT ![a] = {}]
           /\ UNCHANGED pend
    <2>1. PTypes'
        BY <1>1, <1>3, CommittedType DEF PTypes, watching
    <2>2. Apart'
        BY <1>1, <1>3 DEF PTypes, Apart
    <2> QED  BY <2>1, <2>2
<1>4. CASE /\ a \in Code /\ held' = [held EXCEPT ![a] = @ \cup {p}]
           /\ UNCHANGED <<decision, pend>>
    <2>1. PTypes'
        BY <1>1, <1>4 DEF PTypes, watching
    <2>2. Apart'
        BY <1>1, <1>4 DEF PTypes, Apart
    <2> QED  BY <2>1, <2>2
<1> QED
    BY <1>2, <1>3, <1>4 DEF Decide, Reject

LEMMA WStep ==
    ASSUME WInv, [Next]_vars
    PROVE  WInv'
<1> USE DEF WInv
<1>1. CASE UNCHANGED vars
    BY <1>1 DEF vars, deciding, watching, PTypes, Apart
<1>2. ASSUME NEW a \in Approvers, NEW s \in SUBSET Pairs, Look(a, s) PROVE WInv'
    <2>1. PTypes'
        BY <1>2 DEF Look, PTypes, watching
    <2>2. Apart'
        BY <1>2 DEF Look, InHand, PTypes, Apart
    <2> QED  BY <2>1, <2>2
<1>3. ASSUME NEW a \in Approvers, NEW p \in Pairs, Decide(a, p) PROVE WInv'
    BY <1>3, WDecide
<1>4. ASSUME NEW a \in Approvers, AppendPair(a) PROVE WInv'
    <2>1. PTypes'
        <3>1. /\ tick' \in BOOLEAN /\ changed' \in BOOLEAN
              /\ scanner' \in [at : {"idle", "seen"}, current : BOOLEAN, early : BOOLEAN]
            BY <1>4 DEF AppendPair, Written, PTypes
        <3> QED  BY <1>4, <3>1 DEF AppendPair, Written, PTypes
    <2>2. Apart'
        BY <1>4 DEF AppendPair, Written, PTypes, Apart
    <2> QED  BY <2>1, <2>2
<1>5. ASSUME NEW a \in Approvers, End(a) PROVE WInv'
    <2>1. PTypes'
        BY <1>5, SourceType, DecisionType DEF End, PTypes, watching
    <2>2. Apart'
        BY <1>5 DEF End, PTypes, Apart
    <2> QED  BY <2>1, <2>2
<1>6. ASSUME NEW a \in Approvers, Crash(a) PROVE WInv'
    <2>1. PTypes'
        <3>1. cut' \in [Removers -> [at : Places, ids : SUBSET Pairs, left : SUBSET Pairs]]
            BY <1>6 DEF Crash, PTypes, NoCut, Places
        <3>2. excused' \subseteq Pairs
            BY <1>6 DEF Crash, PTypes, Removers
        <3> QED  BY <1>6, <3>1, <3>2 DEF Crash, PTypes, watching
    <2>2. Apart'
        BY <1>6 DEF Crash, PTypes, Apart
    <2> QED  BY <2>1, <2>2
<1>7. ASSUME NEW ids \in SUBSET Pairs, Recheck(ids) \/ Remove(ids) PROVE WInv'
    <2>1. PTypes'
        <3>1. cut' \in [Removers -> [at : Places, ids : SUBSET Pairs, left : SUBSET Pairs]]
            <4>1. /\ [NoCut EXCEPT !.at = "found", !.ids = ids] \in [at : Places, ids : SUBSET Pairs, left : SUBSET Pairs]
                  /\ [at |-> "read", ids |-> ids, left |-> file] \in [at : Places, ids : SUBSET Pairs, left : SUBSET Pairs]
                BY DEF NoCut, Places, PTypes
            <4>2. CASE Recheck(ids)
                BY <4>1, <4>2 DEF Recheck, PTypes
            <4>3. CASE Remove(ids)
                BY <4>1, <4>3 DEF Remove, PTypes
            <4> QED  BY <1>7, <4>2, <4>3
        <3>2. excused' \subseteq Pairs
            BY <1>7 DEF Recheck, Remove, PTypes
        <3> QED  BY <1>7, <3>1, <3>2 DEF Recheck, Remove, PTypes, deciding, watching
    <2>2. Apart'
        BY <1>7 DEF Recheck, Remove, PTypes, Apart, deciding
    <2> QED  BY <2>1, <2>2
<1>8. ASSUME NEW r \in Removers, Replace(r) PROVE WInv'
    <2>1. PTypes'
        <3>1. cut' \in [Removers -> [at : Places, ids : SUBSET Pairs, left : SUBSET Pairs]]
            BY <1>8 DEF Replace, PTypes, NoCut, Places
        <3>2. file' \subseteq Pairs /\ excused' \subseteq Pairs
            BY <1>8 DEF Replace, Written, PTypes
        <3>3. /\ tick' \in BOOLEAN /\ changed' \in BOOLEAN
              /\ scanner' \in [at : {"idle", "seen"}, current : BOOLEAN, early : BOOLEAN]
            BY <1>8 DEF Replace, Written, PTypes, watching
        <3> QED  BY <1>8, <3>1, <3>2, <3>3 DEF Replace, PTypes, deciding
    <2>2. Apart'
        BY <1>8 DEF Replace, PTypes, Apart, deciding
    <2> QED  BY <2>1, <2>2
<1>9. CASE RemoveRead \/ Ticks
    <2>1. PTypes'
        <3>1. CASE RemoveRead
            BY <3>1 DEF RemoveRead, PTypes, Places, deciding, watching
        <3>2. CASE Ticks
            BY <3>2 DEF Ticks, PTypes, deciding
        <3> QED  BY <1>9, <3>1, <3>2
    <2>2. Apart'
        BY <1>9 DEF RemoveRead, Ticks, PTypes, Apart, deciding
    <2> QED  BY <2>1, <2>2
<1>10. CASE Revoke
    <2>1. PTypes'
        BY <1>10, DecisionType DEF Revoke, Revoked, PTypes, NoCut, Places, watching
    <2>2. Apart'
        BY <1>10 DEF Revoke, PTypes, Apart
    <2> QED  BY <2>1, <2>2
<1>11. CASE Reload
    <2>1. PTypes'
        <3>1. changed' \in BOOLEAN
            BY <1>11 DEF Reload, PTypes
        <3>2. scanner' \in [at : {"idle", "seen"}, current : BOOLEAN, early : BOOLEAN]
            <4>1. scanner \in [at : {"idle", "seen"}, current : BOOLEAN, early : BOOLEAN]
                BY DEF PTypes
            <4>2. CASE scanner' = [scanner EXCEPT !.at = "seen"]
                BY <4>1, <4>2
            <4>3. CASE scanner' = [at |-> "idle", current |-> TRUE, early |-> tick]
                BY <4>3 DEF PTypes
            <4> QED  BY <1>11, <4>2, <4>3 DEF Reload
        <3> QED  BY <1>11, <3>1, <3>2 DEF Reload, PTypes, deciding
    <2>2. Apart'
        BY <1>11 DEF Reload, PTypes, Apart, deciding
    <2> QED  BY <2>1, <2>2
<1> QED
    BY <1>1, <1>2, <1>3, <1>4, <1>5, <1>6, <1>7, <1>8, <1>9, <1>10, <1>11 DEF Next

LEMMA WInit == Init => WInv
<1> SUFFICES ASSUME Init PROVE WInv
    OBVIOUS
<1>1. cut \in [Removers -> [at : Places, ids : SUBSET Pairs, left : SUBSET Pairs]]
    BY DEF Init, NoCut, Places
<1>2. decision \in [Pairs -> Decisions]
    BY DEF Init, Decisions
<1>3. scanner \in [at : {"idle", "seen"}, current : BOOLEAN, early : BOOLEAN] /\ changed \in BOOLEAN /\ tick \in BOOLEAN
    BY DEF Init
<1> QED  BY <1>1, <1>2, <1>3 DEF Init, WInv, PTypes, Apart

LEMMA WTypeOK == WInv => TypeOK
<1> SUFFICES ASSUME WInv PROVE TypeOK
    OBVIOUS
<1>1. ASSUME NEW S, \A x, y \in S : x = y PROVE Cardinality(S) <= 1
    <2>1. CASE S = {}
        BY <2>1, FS_EmptySet
    <2>2. CASE S # {}
        <3>1. PICK x \in S : TRUE
            BY <2>2
        <3>2. S = {x}
            BY <1>1, <3>1
        <3>3. Cardinality(S) = 1
            BY <3>2, FS_Singleton
        <3> QED  BY <3>3
    <2> QED  BY <2>1, <2>2
<1>2. Cardinality({a \in Approvers : held[a] # {}}) <= 1
    <2> DEFINE H == {a \in Approvers : held[a] # {}}
    <2>1. \A x, y \in H : x = y
        BY DEF WInv, Apart
    <2> HIDE DEF H
    <2> QED  BY <1>1, <2>1 DEF H
<1>3. ASSUME NEW a \in Approvers PROVE Cardinality(pend[a]) <= 1
    <2>1. \A x, y \in pend[a] : x = y
        BY DEF WInv, Apart
    <2> QED  BY <1>1, <2>1
<1> QED
    BY <1>2, <1>3 DEF WInv, PTypes, TypeOK, Places

-----------------------------------------------------------------------------
(* The scanner and the file *)

\* A rewrite in the tick of the last has the mtime the scanner saw, so it must know, of the
\* file it holds, that it is one loaded in that tick.
Seen ==
    /\ SeesTheFile
    /\ tick /\ ~changed /\ scanner.at = "idle" => scanner.early

\* Whatever isn't a rewrite, a reload or a tick leaves what the scanner saw as it is.
LEMMA SStep ==
    ASSUME PTypes, Seen, [Next]_vars
    PROVE  Seen'
<1>1. CASE UNCHANGED watching
    BY <1>1 DEF Seen, SeesTheFile, watching
<1>2. ASSUME NEW pairs, Written(pairs) PROVE Seen'
    <2>1. /\ tick' = TRUE /\ changed' = (changed \/ ~tick)
          /\ scanner'.at = scanner.at /\ scanner'.early = (scanner.early /\ tick)
        BY <1>2 DEF Written, PTypes
    <2>2. scanner.at \in {"idle", "seen"}
        BY DEF PTypes
    <2> QED  BY <2>1, <2>2 DEF Seen, SeesTheFile
<1>3. CASE Reload
    <2>1. CASE scanner.at = "idle" /\ scanner' = [scanner EXCEPT !.at = "seen"]
        <3>1. scanner'.at = "seen"
            BY <2>1 DEF PTypes
        <3> QED  BY <3>1 DEF Seen, SeesTheFile
    <2>2. CASE scanner' = [at |-> "idle", current |-> TRUE, early |-> tick]
        <3>1. scanner'.current /\ scanner'.early = tick /\ tick' = tick
            BY <1>3, <2>2 DEF Reload
        <3> QED  BY <3>1 DEF Seen, SeesTheFile
    <2> QED  BY <1>3, <2>1, <2>2 DEF Reload
<1>4. CASE Ticks
    BY <1>4 DEF Ticks, Seen, SeesTheFile
<1>5. ASSUME NEW a \in Approvers, AppendPair(a) PROVE Seen'
    BY <1>2, <1>5 DEF AppendPair
<1>6. ASSUME NEW r \in Removers, Replace(r) PROVE Seen'
    BY <1>1, <1>2, <1>6 DEF Replace
<1>7. ASSUME NEW a \in Approvers, NEW s, NEW p, Look(a, s) \/ Decide(a, p) \/ End(a) \/ Crash(a)
      PROVE  Seen'
    BY <1>1, <1>7 DEF Look, Decide, End, Crash
<1>8. ASSUME NEW ids, Recheck(ids) \/ Remove(ids) PROVE Seen'
    BY <1>1, <1>8 DEF Recheck, Remove
<1>9. CASE RemoveRead \/ Revoke \/ UNCHANGED vars
    BY <1>1, <1>9 DEF RemoveRead, Revoke, vars
<1> QED
    BY <1>3, <1>4, <1>5, <1>6, <1>7, <1>8, <1>9 DEF Next

\* The scanner misses no rewrite of pairs.csv for good, neither between its stat and its load
\* nor in any tick of the clock but the one in which it loaded the file.
THEOREM SeesUnlessLoadedEarly == Spec => []SeesTheFile
<1>1. Init => Seen
    BY DEF Init, Seen, SeesTheFile
<1>2. WInv => PTypes
    BY DEF WInv
<1>3. Seen => SeesTheFile
    BY DEF Seen
<1> QED
    BY <1>1, <1>2, <1>3, WInit, WStep, SStep, PTL DEF Spec

-----------------------------------------------------------------------------
(* A decision behind every line *)

Decided == {p \in Pairs : decision[p] # Undecided}

\* What is in the file, about to be, or was when a removal read it, is decided.
Behind ==
    /\ file \subseteq Decided
    /\ \A a \in Approvers : pend[a] \subseteq Decided
    /\ \A r \in Removers : cut[r].left \subseteq Decided

\* No decision is ever taken back to none.
LEMMA StaysDecided ==
    ASSUME PTypes, [Next]_vars
    PROVE  Decided \subseteq Decided'
<1>1. CASE UNCHANGED decision
    BY <1>1 DEF Decided
<1>2. ASSUME NEW a \in Approvers, NEW p \in Pairs, Decide(a, p) PROVE Decided \subseteq Decided'
    <2>1. ASSUME NEW v \in {"pair", "reject"}, decision' = Committed(a, p, v)
          PROVE  Decided \subseteq Decided'
        BY <2>1, SourceType, DecisionType DEF Committed, Decided
    <2> QED
        BY <1>1, <1>2, <2>1 DEF Decide, Approve, Reject
<1>3. ASSUME NEW a \in Approvers, End(a) PROVE Decided \subseteq Decided'
    BY <1>3, SourceType, DecisionType DEF End, Decided
<1>4. CASE Revoke
    BY <1>4, DecisionType DEF Revoke, Revoked, Decided
<1>5. ASSUME NEW a \in Approvers, NEW s, Look(a, s) \/ AppendPair(a) \/ Crash(a) PROVE Decided \subseteq Decided'
    BY <1>1, <1>5 DEF Look, AppendPair, Crash
<1>6. ASSUME NEW ids, NEW r, Recheck(ids) \/ Remove(ids) \/ Replace(r) PROVE Decided \subseteq Decided'
    BY <1>1, <1>6 DEF Recheck, Remove, Replace, deciding
<1>7. CASE RemoveRead \/ Ticks \/ Reload \/ UNCHANGED vars
    BY <1>1, <1>7 DEF RemoveRead, Ticks, Reload, deciding, vars
<1> QED
    BY <1>2, <1>3, <1>4, <1>5, <1>6, <1>7 DEF Next

LEMMA BStep ==
    ASSUME PTypes, Behind, [Next]_vars
    PROVE  Behind'
<1>0. Decided \subseteq Decided'
    BY StaysDecided
<1>1. CASE UNCHANGED <<file, pend, cut>>
    BY <1>0, <1>1 DEF Behind
<1>2. ASSUME NEW a \in Approvers, NEW p \in Pairs, Approve(a, p), UNCHANGED <<file, cut>> PROVE Behind'
    <2>1. p \in Decided'
        BY <1>2, SourceType, DecisionType DEF Approve, Committed, Decided
    <2>2. \A b \in Approvers : pend'[b] \subseteq pend[b] \cup {p}
        BY <1>2 DEF Approve, PTypes
    <2> QED
        BY <1>0, <1>2, <2>1, <2>2 DEF Behind
<1>3. ASSUME NEW a \in Approvers, NEW p \in Pairs, Decide(a, p) PROVE Behind'
    BY <1>1, <1>2, <1>3 DEF Decide, Reject
<1>4. ASSUME NEW a \in Approvers, AppendPair(a) PROVE Behind'
    BY <1>0, <1>4 DEF AppendPair, Written, Behind, PTypes
<1>5. ASSUME NEW a \in Approvers, Crash(a) PROVE Behind'
    <2>1. \A r \in Removers : cut'[r].left \subseteq cut[r].left
        BY <1>5 DEF Crash, PTypes, NoCut
    <2>2. \A b \in Approvers : pend'[b] \subseteq pend[b]
        BY <1>5 DEF Crash, PTypes
    <2> QED
        BY <1>0, <1>5, <2>1, <2>2 DEF Crash, Behind
<1>6. ASSUME NEW ids \in SUBSET Pairs, Recheck(ids) \/ Remove(ids) PROVE Behind'
    <2>1. \A r \in Removers : cut'[r].left \subseteq cut[r].left \cup file
        <3>1. CASE Recheck(ids)
            BY <3>1 DEF Recheck, PTypes, NoCut
        <3>2. CASE Remove(ids)
            BY <3>2 DEF Remove, PTypes
        <3> QED  BY <1>6, <3>1, <3>2
    <2> QED
        BY <1>0, <1>6, <2>1 DEF Recheck, Remove, deciding, Behind
<1>7. ASSUME NEW r \in Removers, Replace(r) PROVE Behind'
    <2>1. \A s \in Removers : cut'[s].left \subseteq cut[s].left
        BY <1>7 DEF Replace, PTypes, NoCut
    <2>2. file' \subseteq file \cup cut[r].left
        BY <1>7 DEF Replace, Written
    <2> QED
        BY <1>0, <1>7, <2>1, <2>2 DEF Replace, deciding, Behind
<1>8. CASE RemoveRead
    <2>1. \A r \in Removers : cut'[r].left \subseteq cut[r].left \cup file
        BY <1>8 DEF RemoveRead, PTypes
    <2> QED
        BY <1>0, <1>8, <2>1 DEF RemoveRead, deciding, Behind
<1>9. CASE Revoke
    <2>1. \A r \in Removers : cut'[r].left \subseteq cut[r].left
        BY <1>9 DEF Revoke, PTypes, NoCut
    <2> QED
        BY <1>0, <1>9, <2>1 DEF Revoke, Behind
<1>10. ASSUME NEW a \in Approvers, NEW s, Look(a, s) \/ End(a) PROVE Behind'
    BY <1>1, <1>10 DEF Look, End
<1>11. CASE Ticks \/ Reload \/ UNCHANGED vars
    BY <1>1, <1>11 DEF Ticks, Reload, deciding, vars
<1> QED
    BY <1>3, <1>4, <1>5, <1>6, <1>7, <1>8, <1>9, <1>10, <1>11 DEF Next

\* No line of pairs.csv is without a decision, wherever a process is killed.
THEOREM EachLineDecided == Spec => []Backed
<1>1. Init => Behind
    BY DEF Init, Behind, NoCut
<1>2. Behind => Backed
    BY DEF Behind, Backed, Decided
<1>3. WInv => PTypes
    BY DEF WInv
<1> QED
    BY <1>1, <1>2, <1>3, WInit, WStep, BStep, PTL DEF Spec

-----------------------------------------------------------------------------
(* Decisions and the file *)

\* At most one process has the pair in hand;
Sole(p) == \A a, b \in Approvers : p \in InHand(a) /\ p \in InHand(b) => a = b

\* what it has yet to decide, or rejected in its open transaction, nobody has decided, and
\* what it approved it is about to append;
Fresh(p) ==
    \A a \in Approvers :
        /\ p \in todo[a] \cup held[a] => decision[p] = Undecided /\ p \notin file
        /\ p \in pend[a] => decision[p].verdict = "pair" /\ p \notin file

\* what a recheck is taking out was approved, nobody has it in hand, and it is in the file
\* until the file is replaced;
Going(p) ==
    /\ p \notin cut[Web].ids
    /\ p \in cut[Refresh].ids =>
        /\ decision[p].verdict = "pair" /\ decision[p].by = "code"
        /\ \A a \in Approvers : p \notin InHand(a)
        /\ cut[Refresh].at # "idle"
        /\ cut[Refresh].at # "replaced" => p \in file
        /\ cut[Refresh].at = "read" => p \in cut[Refresh].left
        /\ cut[Refresh].at = "replaced" => p \notin file

\* and otherwise the two agree.
Same(p) ==
    (\A a \in Approvers : p \notin InHand(a)) /\ p \notin cut[Refresh].ids
    => (p \in file <=> decision[p].verdict = "pair")

Right(p) == Sole(p) /\ Fresh(p) /\ Going(p) /\ Same(p)

RightOnes == \A p \in Pairs \ excused : Right(p)

\* A step that leaves a pair where it is, in every hand, in the file and in the cuts, leaves
\* it right.
LEMMA Untouched ==
    ASSUME NEW p, Right(p),
           \A a \in Approvers : /\ (p \in todo'[a]) <=> (p \in todo[a])
                                /\ (p \in held'[a]) <=> (p \in held[a])
                                /\ (p \in pend'[a]) <=> (p \in pend[a]),
           (p \in file') <=> (p \in file), decision'[p] = decision[p], UNCHANGED cut
    PROVE  Right(p)'
<1>1. \A a \in Approvers : (p \in InHand(a)') <=> (p \in InHand(a))
    BY DEF InHand
<1>2. Sole(p)'
    BY <1>1 DEF Right, Sole
<1>3. Fresh(p)'
    BY DEF Right, Fresh
<1>4. Going(p)'
    BY <1>1 DEF Right, Going
<1>5. Same(p)'
    BY <1>1 DEF Right, Same
<1> QED  BY <1>2, <1>3, <1>4, <1>5 DEF Right

\* Two who look at once excuse what both take.
LEMMA RightLook ==
    ASSUME WInv, NEW a \in Approvers, NEW s \in SUBSET Pairs, Look(a, s),
           NEW p \in Pairs \ excused', Right(p)
    PROVE  Right(p)'
<1>1. /\ InHand(a) = {} /\ s \subseteq Open
      /\ todo' = [todo EXCEPT ![a] = s]
      /\ UNCHANGED <<decision, held, pend, file, cut>>
    BY DEF Look
<1>2. todo'[a] = s /\ \A b \in Approvers \ {a} : todo'[b] = todo[b]
    BY <1>1 DEF WInv, PTypes
<1>3. CASE p \notin s
    <2>1. p \notin todo[a]
        BY <1>1 DEF InHand
    <2> QED
        BY <1>1, <1>2, <1>3, <2>1, Untouched
<1>4. CASE p \in s
    <2>1. \A b \in Approvers \ {a} : p \notin InHand(b)
        BY <1>4 DEF Look
    <2>2. decision[p] = Undecided /\ p \notin file
        BY <1>1, <1>4 DEF Open
    <2>3. p \notin held[a] /\ p \notin pend[a]
        BY <1>1 DEF InHand
    <2>4. \A b \in Approvers : p \in InHand(b)' <=> b = a
        BY <1>1, <1>2, <1>4, <2>1, <2>3 DEF InHand
    <2>5. Sole(p)'
        BY <2>4 DEF Sole
    <2>6. Fresh(p)'
        BY <1>1, <1>2, <1>4, <2>2, <2>1, <2>3 DEF Fresh, InHand
    <2>7. p \notin cut[Refresh].ids
        BY <2>2 DEF Right, Going, Undecided
    <2>8. Going(p)'
        BY <1>1, <2>7 DEF Right, Going
    <2>9. Same(p)'
        BY <2>4 DEF Same
    <2> QED  BY <2>5, <2>6, <2>8, <2>9 DEF Right
<1> QED  BY <1>3, <1>4

\* What is committed with a decision on p: p's own, and the rejections before it.
LEMMA RightCommitted ==
    ASSUME WInv, NEW a \in Approvers, NEW q \in Pairs, NEW v \in {"pair", "reject"},
           q \in todo[a], pend[a] = {},
           decision' = Committed(a, q, v),
           todo' = [todo EXCEPT ![a] = @ \ {q}], held' = [held EXCEPT ![a] = {}],
           IF v = "pair" THEN pend' = [pend EXCEPT ![a] = {q}] ELSE pend' = pend,
           UNCHANGED <<file, cut>>,
           NEW p \in Pairs, Right(p)
    PROVE  Right(p)'
<1>1. /\ todo'[a] = todo[a] \ {q} /\ held'[a] = {}
      /\ pend'[a] = IF v = "pair" THEN {q} ELSE {}
      /\ \A b \in Approvers \ {a} : todo'[b] = todo[b] /\ held'[b] = held[b] /\ pend'[b] = pend[b]
    BY DEF WInv, PTypes
<1>2. CASE p \notin {q} \cup held[a]
    <2>1. decision'[p] = decision[p]
        BY <1>2 DEF Committed
    <2> QED
        BY <1>1, <1>2, <2>1, Untouched
<1>3. CASE p \in {q} \cup held[a]
    <2>1. decision[p] = Undecided /\ p \notin file /\ p \in InHand(a)
        BY <1>3 DEF Right, Fresh, InHand
    <2>2. \A b \in Approvers \ {a} : p \notin InHand(b) /\ p \notin InHand(b)'
        BY <1>1, <2>1 DEF Right, Sole, InHand
    <2>3. p \notin todo'[a] /\ p \notin held'[a]
        BY <1>1, <1>3 DEF WInv, Apart
    <2>4. p \notin cut[Refresh].ids
        BY <2>1 DEF Right, Going
    <2>5. decision'[p].verdict = IF p = q THEN v ELSE "reject"
        BY <1>3, SourceType, DecisionType DEF Committed
    <2>6. p \in pend'[a] <=> p = q /\ v = "pair"
        BY <1>1
    <2>7. Sole(p)'
        BY <2>2 DEF Sole
    <2>8. Fresh(p)'
        BY <2>1, <2>2, <2>3, <2>5, <2>6 DEF Fresh, InHand
    <2>9. Going(p)'
        BY <2>4 DEF Right, Going
    <2>10. Same(p)'
        BY <2>1, <2>2, <2>3, <2>5, <2>6 DEF Same, InHand
    <2> QED  BY <2>7, <2>8, <2>9, <2>10 DEF Right
<1> QED  BY <1>2, <1>3

\* A rejection that stays in the transaction.
LEMMA RightHeld ==
    ASSUME WInv, NEW a \in Approvers, NEW q \in Pairs, q \in todo[a],
           todo' = [todo EXCEPT ![a] = @ \ {q}], held' = [held EXCEPT ![a] = @ \cup {q}],
           UNCHANGED <<decision, pend, file, cut>>,
           NEW p \in Pairs, Right(p)
    PROVE  Right(p)'
<1>1. /\ todo'[a] = todo[a] \ {q} /\ held'[a] = held[a] \cup {q}
      /\ \A b \in Approvers \ {a} : todo'[b] = todo[b] /\ held'[b] = held[b]
    BY DEF WInv, PTypes
<1>2. \A b \in Approvers : (p \in InHand(b)') <=> (p \in InHand(b))
    BY <1>1 DEF InHand
<1>3. \A b \in Approvers : (p \in (todo[b] \cup held[b])') <=> (p \in todo[b] \cup held[b])
    BY <1>1
<1>4. Sole(p)'
    BY <1>2 DEF Right, Sole
<1>5. Fresh(p)'
    BY <1>3 DEF Right, Fresh
<1>6. Going(p)'
    BY <1>2 DEF Right, Going
<1>7. Same(p)'
    BY <1>2 DEF Right, Same
<1> QED  BY <1>4, <1>5, <1>6, <1>7 DEF Right

LEMMA RightDecide ==
    ASSUME WInv, NEW a \in Approvers, NEW q \in Pairs, Decide(a, q),
           NEW p \in Pairs, Right(p)
    PROVE  Right(p)'
<1>1. /\ q \in todo[a] /\ pend[a] = {}
      /\ todo' = [todo EXCEPT ![a] = @ \ {q}]
      /\ UNCHANGED <<file, cut>>
    BY DEF Decide
<1>2. CASE Approve(a, q)
    BY <1>1, <1>2, RightCommitted DEF Approve
<1>3. CASE decision' = Committed(a, q, "reject") /\ held' = [held EXCEPT ![a] = {}] /\ UNCHANGED pend
    BY <1>1, <1>3, RightCommitted
<1>4. CASE held' = [held EXCEPT ![a] = @ \cup {q}] /\ UNCHANGED <<decision, pend>>
    BY <1>1, <1>4, RightHeld
<1> QED
    BY <1>2, <1>3, <1>4 DEF Decide, Reject

LEMMA RightAppend ==
    ASSUME WInv, NEW a \in Approvers, AppendPair(a), NEW p \in Pairs, Right(p)
    PROVE  Right(p)'
<1>1. /\ file' = file \cup pend[a] /\ pend'[a] = {}
      /\ \A b \in Approvers \ {a} : pend'[b] = pend[b]
      /\ UNCHANGED <<decision, held, todo, cut>>
    BY DEF AppendPair, Written, WInv, PTypes
<1>2. CASE p \notin pend[a]
    BY <1>1, <1>2, Untouched
<1>3. CASE p \in pend[a]
    <2>1. decision[p].verdict = "pair" /\ p \in InHand(a)
        BY <1>3 DEF Right, Fresh, InHand
    <2>2. \A b \in Approvers \ {a} : p \notin InHand(b) /\ p \notin InHand(b)'
        BY <1>1, <2>1 DEF Right, Sole, InHand
    <2>3. p \notin todo[a] /\ p \notin held[a]
        BY <2>1 DEF Right, Fresh, Undecided
    <2>4. \A b \in Approvers : p \notin InHand(b)'
        BY <1>1, <2>2, <2>3 DEF InHand
    <2>5. p \notin cut[Refresh].ids
        BY <2>1 DEF Right, Going
    <2>6. Sole(p)' /\ Fresh(p)'
        BY <2>4 DEF Sole, Fresh, InHand
    <2>7. Going(p)' /\ Same(p)'
        BY <1>1, <1>3, <2>1, <2>5 DEF Right, Going, Same
    <2> QED  BY <2>6, <2>7 DEF Right
<1> QED  BY <1>2, <1>3

\* What is open is committed, and the rest stays undecided.
LEMMA RightEnd ==
    ASSUME WInv, NEW a \in Approvers, End(a), NEW p \in Pairs, Right(p)
    PROVE  Right(p)'
<1>1. /\ todo'[a] = {} /\ held'[a] = {} /\ pend[a] = {}
      /\ \A b \in Approvers \ {a} : todo'[b] = todo[b] /\ held'[b] = held[b]
      /\ UNCHANGED <<pend, file, cut>>
    BY DEF End, WInv, PTypes
<1>2. CASE p \notin InHand(a)
    <2>1. decision'[p] = decision[p]
        BY <1>2 DEF End, InHand
    <2> QED
        BY <1>1, <1>2, <2>1, Untouched DEF InHand
<1>3. CASE p \in InHand(a)
    <2>1. decision[p] = Undecided /\ p \notin file
        BY <1>1, <1>3 DEF Right, Fresh, InHand
    <2>2. \A b \in Approvers : p \notin InHand(b)'
        BY <1>1, <1>3 DEF Right, Sole, InHand
    <2>3. p \notin cut[Refresh].ids
        BY <1>3 DEF Right, Going
    <2>4. decision'[p].verdict # "pair"
        BY <2>1, SourceType, DecisionType DEF End, Undecided
    <2>5. Sole(p)' /\ Fresh(p)'
        BY <2>2 DEF Sole, Fresh, InHand
    <2>6. Going(p)'
        BY <1>1, <2>3 DEF Right, Going
    <2>7. Same(p)'
        BY <1>1, <2>1, <2>4 DEF Same
    <2> QED  BY <2>5, <2>6, <2>7 DEF Right
<1> QED  BY <1>2, <1>3

\* What was undecided is again, and what was between two writes is excused.
LEMMA RightCrash ==
    ASSUME WInv, NEW a \in Approvers, Crash(a), NEW p \in Pairs \ excused', Right(p)
    PROVE  Right(p)'
<1>1. /\ todo'[a] = {} /\ held'[a] = {} /\ pend'[a] = {}
      /\ \A b \in Approvers \ {a} : todo'[b] = todo[b] /\ held'[b] = held[b] /\ pend'[b] = pend[b]
      /\ UNCHANGED <<decision, file>> /\ p \notin pend[a]
    BY DEF Crash, WInv, PTypes
<1>2. p \notin cut[Refresh].ids \/ cut' = cut
    BY DEF Crash
<1>3. cut'[Web] = cut[Web] /\ (p \notin cut[Refresh].ids => p \notin cut'[Refresh].ids)
    BY WatchlistAssumption DEF Crash, WInv, PTypes, ProcessesApart, NoCut, Removers
<1>4. \A b \in Approvers : p \in InHand(b)' => p \in InHand(b) /\ b # a
    BY <1>1 DEF InHand
<1>5. Sole(p)'
    BY <1>4 DEF Right, Sole
<1>6. Fresh(p)'
    BY <1>1 DEF Right, Fresh
<1>7. Going(p)'
    BY <1>1, <1>2, <1>3, <1>4 DEF Right, Going
<1>8. Same(p)'
    <2>1. CASE p \in InHand(a)
        <3>1. decision[p] = Undecided /\ p \notin file
            BY <1>1, <2>1 DEF Right, Fresh, InHand
        <3> QED  BY <1>1, <3>1 DEF Same, Undecided
    <2>2. CASE p \notin InHand(a)
        <3>1. \A b \in Approvers : (p \in InHand(b)') <=> (p \in InHand(b))
            BY <1>1, <2>2 DEF InHand
        <3>2. p \notin cut'[Refresh].ids => p \notin cut[Refresh].ids
            BY <1>2
        <3> QED  BY <1>1, <3>1, <3>2 DEF Right, Same
    <2> QED  BY <2>1, <2>2
<1> QED  BY <1>5, <1>6, <1>7, <1>8 DEF Right

\* Only what is approved and in the file is taken out by a recheck.
LEMMA RightRecheck ==
    ASSUME WInv, NEW ids \in SUBSET Pairs, Recheck(ids), NEW p \in Pairs, Right(p)
    PROVE  Right(p)'
<1>1. /\ cut[Refresh].at = "idle" /\ ids \subseteq Approved
      /\ cut'[Refresh].at = "found" /\ cut'[Refresh].ids = ids /\ cut'[Web] = cut[Web]
      /\ UNCHANGED <<decision, held, todo, pend, file>>
    BY WatchlistAssumption DEF Recheck, WInv, PTypes, ProcessesApart, NoCut, Removers, deciding
<1>2. \A b \in Approvers : (p \in InHand(b)') <=> (p \in InHand(b))
    BY <1>1 DEF InHand
<1>3. Sole(p)' /\ Fresh(p)'
    BY <1>1, <1>2 DEF Right, Sole, Fresh
<1>4. ASSUME p \in ids
      PROVE  p \in file /\ decision[p].verdict = "pair" /\ decision[p].by = "code" /\ decision[p] # Undecided
    BY <1>1, <1>4, DecisionType DEF Approved
<1>5. p \in ids => \A b \in Approvers : p \notin InHand(b)
    BY <1>4 DEF Right, Fresh, InHand
<1>6. Going(p)'
    BY <1>1, <1>2, <1>4, <1>5 DEF Right, Going
<1>7. p \notin cut[Refresh].ids
    BY <1>1 DEF Right, Going
<1>8. Same(p)'
    BY <1>1, <1>2, <1>7 DEF Right, Same
<1> QED  BY <1>3, <1>6, <1>8 DEF Right

\* What a person takes out is excused.
LEMMA RightRemove ==
    ASSUME WInv, NEW ids \in SUBSET Pairs, Remove(ids), NEW p \in Pairs \ excused', Right(p)
    PROVE  Right(p)'
<1>1. /\ p \notin ids /\ cut'[Web].ids = ids /\ cut'[Refresh] = cut[Refresh]
      /\ UNCHANGED <<decision, held, todo, pend, file>>
    BY WatchlistAssumption DEF Remove, WInv, PTypes, ProcessesApart, Removers, deciding
<1>2. \A b \in Approvers : (p \in InHand(b)') <=> (p \in InHand(b))
    BY <1>1 DEF InHand
<1>3. Sole(p)' /\ Fresh(p)' /\ Going(p)' /\ Same(p)'
    BY <1>1, <1>2 DEF Right, Sole, Fresh, Going, Same
<1> QED  BY <1>3 DEF Right

LEMMA RightRemoveRead ==
    ASSUME WInv, RemoveRead, NEW p \in Pairs, Right(p)
    PROVE  Right(p)'
<1>1. /\ cut[Refresh].at = "found" /\ cut'[Refresh].at = "read" /\ cut'[Refresh].left = file
      /\ cut'[Refresh].ids = cut[Refresh].ids /\ cut'[Web] = cut[Web]
      /\ UNCHANGED <<decision, held, todo, pend, file>>
    BY WatchlistAssumption DEF RemoveRead, WInv, PTypes, ProcessesApart, Removers, deciding
<1>2. \A b \in Approvers : (p \in InHand(b)') <=> (p \in InHand(b))
    BY <1>1 DEF InHand
<1>3. Sole(p)' /\ Fresh(p)' /\ Same(p)'
    BY <1>1, <1>2 DEF Right, Sole, Fresh, Same
<1>4. Going(p)'
    BY <1>1, <1>2 DEF Right, Going
<1> QED  BY <1>3, <1>4 DEF Right

\* A rewrite takes out what it was to, and nothing else but what it excuses.
LEMMA RightReplace ==
    ASSUME WInv, NEW r \in Removers, Replace(r), NEW p \in Pairs \ excused', Right(p)
    PROVE  Right(p)'
<1> DEFINE left == cut[r].left \ cut[r].ids
<1>1. /\ cut[r].at = "read" /\ Refresh # Web
      /\ UNCHANGED <<decision, held, todo, pend>>
      /\ \A s \in Removers \ {r} : cut'[s] = cut[s]
    BY WatchlistAssumption DEF Replace, WInv, PTypes, ProcessesApart, deciding
<1>2. \A b \in Approvers : (p \in InHand(b)') <=> (p \in InHand(b))
    BY <1>1 DEF InHand
<1>3. \/ left # cut[r].left /\ file' = left /\ (p \in file => p \in cut[r].left) /\ (p \in left => p \in file)
      \/ left = cut[r].left /\ file' = file
    BY DEF Replace, Written
<1>4. p \in cut[r].ids => p \notin file' \/ p \notin cut[r].left
    BY <1>3
<1>5. p \notin cut[r].ids => (p \in file' <=> p \in file)
    BY <1>3
<1>6. Sole(p)'
    BY <1>2 DEF Right, Sole
<1>7. CASE r = Refresh
    <2>1. /\ cut'[Refresh].at = "replaced" /\ cut'[Refresh].ids = cut[Refresh].ids
          /\ cut'[Web] = cut[Web]
        BY <1>1, <1>7 DEF Replace, WInv, PTypes, Removers
    <2>2. p \in cut[Refresh].ids => p \notin file' /\ \A b \in Approvers : p \notin InHand(b)
        BY <1>1, <1>4, <1>7 DEF Right, Going
    <2>3. Fresh(p)'
        BY <1>1, <1>5, <1>7, <2>2 DEF Right, Fresh, InHand
    <2>4. Going(p)'
        BY <1>1, <1>2, <2>1, <2>2 DEF Right, Going
    <2>5. Same(p)'
        BY <1>1, <1>2, <1>5, <1>7, <2>1 DEF Right, Same
    <2> QED  BY <1>6, <2>3, <2>4, <2>5 DEF Right
<1>8. CASE r = Web
    <2>1. cut'[Web].ids = {} /\ cut'[Refresh] = cut[Refresh]
        BY <1>1, <1>8 DEF Replace, WInv, PTypes, Removers, NoCut
    <2>2. p \in file' <=> p \in file
        BY <1>5, <1>8 DEF Right, Going
    <2>3. Fresh(p)' /\ Going(p)' /\ Same(p)'
        BY <1>1, <1>2, <2>1, <2>2 DEF Right, Fresh, Going, Same
    <2> QED  BY <1>6, <2>3 DEF Right
<1> QED  BY <1>7, <1>8 DEF Removers

LEMMA RightRevoke ==
    ASSUME WInv, Revoke, NEW p \in Pairs, Right(p)
    PROVE  Right(p)'
<1>1. /\ cut[Refresh].at = "replaced" /\ decision' = Revoked
      /\ cut'[Refresh].ids = {} /\ cut'[Web] = cut[Web]
      /\ UNCHANGED <<held, todo, pend, file>>
    BY WatchlistAssumption DEF Revoke, WInv, PTypes, ProcessesApart, Removers, NoCut
<1>2. \A b \in Approvers : (p \in InHand(b)') <=> (p \in InHand(b))
    BY <1>1 DEF InHand
<1>3. Sole(p)'
    BY <1>2 DEF Right, Sole
<1>4. CASE p \in cut[Refresh].ids
    <2>1. p \notin file /\ \A b \in Approvers : p \notin InHand(b)
        BY <1>1, <1>4 DEF Right, Going
    <2>2. decision'[p].verdict = "reject"
        BY <1>1, <1>4, DecisionType DEF Revoked
    <2>3. Fresh(p)' /\ Going(p)' /\ Same(p)'
        BY <1>1, <2>1, <2>2 DEF Right, Fresh, Going, Same, InHand
    <2> QED  BY <1>3, <2>3 DEF Right
<1>5. CASE p \notin cut[Refresh].ids
    <2>1. decision'[p] = decision[p]
        BY <1>1, <1>5 DEF Revoked
    <2>2. Fresh(p)' /\ Going(p)' /\ Same(p)'
        BY <1>1, <1>2, <1>5, <2>1 DEF Right, Fresh, Going, Same
    <2> QED  BY <1>3, <2>2 DEF Right
<1> QED  BY <1>4, <1>5

LEMMA ExcusedStays ==
    ASSUME [Next]_vars PROVE excused \subseteq excused'
    BY DEF Next, vars, watching, deciding, Look, Decide, AppendPair, End, Crash, Recheck, Remove,
       Replace, RemoveRead, Revoke, Ticks, Reload

LEMMA RightStep ==
    ASSUME WInv, RightOnes, [Next]_vars
    PROVE  RightOnes'
<1> SUFFICES ASSUME NEW p \in Pairs \ excused' PROVE Right(p)'
    BY DEF RightOnes
<1>0. Right(p)
    BY ExcusedStays DEF RightOnes
<1>1. CASE Ticks \/ Reload \/ UNCHANGED vars
    BY <1>0, <1>1, Untouched DEF Ticks, Reload, deciding, vars
<1>2. ASSUME NEW a \in Approvers, NEW s \in SUBSET Pairs, Look(a, s) PROVE Right(p)'
    BY <1>0, <1>2, RightLook
<1>3. ASSUME NEW a \in Approvers, NEW q \in Pairs, Decide(a, q) PROVE Right(p)'
    BY <1>0, <1>3, RightDecide
<1>4. ASSUME NEW a \in Approvers, AppendPair(a) \/ End(a) \/ Crash(a) PROVE Right(p)'
    BY <1>0, <1>4, RightAppend, RightEnd, RightCrash
<1>5. ASSUME NEW ids \in SUBSET Pairs, Recheck(ids) \/ Remove(ids) PROVE Right(p)'
    BY <1>0, <1>5, RightRecheck, RightRemove
<1>6. ASSUME NEW r \in Removers, Replace(r) PROVE Right(p)'
    BY <1>0, <1>6, RightReplace
<1>7. CASE RemoveRead \/ Revoke
    BY <1>0, <1>7, RightRemoveRead, RightRevoke
<1> QED
    BY <1>1, <1>2, <1>3, <1>4, <1>5, <1>6, <1>7 DEF Next

LEMMA RightInit == Init => RightOnes
    BY DEF Init, RightOnes, Right, Sole, Fresh, Going, Same, InHand, NoCut, Undecided, Removers

\* A rejected pair isn't watched and an approved one is, but for the exceptions Agree names:
\* whoever decides, rechecks, takes out or is killed, in whatever order.
THEOREM DecisionsAgree == Spec => []Agree
<1>1. Init => RightOnes
    BY RightInit
<1>2. RightOnes => Agree
    BY DEF RightOnes, Right, Same, Agree, Settled, Removers
<1> QED
    BY <1>1, <1>2, WInit, WStep, RightStep, PTL DEF Spec


\* What a person decided is never overwritten, but for the pairs Agree excepts: a decision of
\* Jev's over a person's (PersonStands) takes two who have the pair in hand at once.
PersonStandsAlone ==
    [][\A p \in Pairs \ excused' : decision[p].by = "person" => decision'[p] = decision[p]]_vars

LEMMA PersonStep ==
    ASSUME WInv, RightOnes, [Next]_vars
    PROVE  \A p \in Pairs \ excused' : decision[p].by = "person" => decision'[p] = decision[p]
<1> SUFFICES ASSUME NEW p \in Pairs \ excused', decision[p].by = "person" PROVE decision'[p] = decision[p]
    OBVIOUS
<1>0. Right(p) /\ decision[p] # Undecided
    BY ExcusedStays DEF RightOnes, Undecided
<1>1. CASE decision' = decision
    BY <1>1
<1>2. \A a \in Approvers : p \notin todo[a] \cup held[a]
    BY <1>0 DEF Right, Fresh
<1>3. ASSUME NEW a \in Approvers, NEW q \in Pairs, Decide(a, q) PROVE decision'[p] = decision[p]
    <2>1. p # q
        BY <1>2, <1>3 DEF Decide
    <2>2. ASSUME NEW v, decision' = Committed(a, q, v) PROVE decision'[p] = decision[p]
        BY <1>2, <2>1, <2>2 DEF Committed
    <2> QED  BY <1>3, <2>2 DEF Decide, Approve, Reject
<1>4. ASSUME NEW a \in Approvers, End(a) PROVE decision'[p] = decision[p]
    BY <1>2, <1>4 DEF End
<1>5. CASE Revoke
    <2>1. p \notin cut[Refresh].ids
        BY <1>0 DEF Right, Going
    <2> QED  BY <1>5, <2>1 DEF Revoke, Revoked
<1>6. ASSUME NEW a, NEW s, Look(a, s) \/ AppendPair(a) \/ Crash(a) PROVE decision' = decision
    BY <1>6 DEF Look, AppendPair, Crash
<1>7. ASSUME NEW ids, NEW r, Recheck(ids) \/ Remove(ids) \/ Replace(r) PROVE decision' = decision
    BY <1>7 DEF Recheck, Remove, Replace, deciding
<1>8. CASE RemoveRead \/ Ticks \/ Reload \/ UNCHANGED vars
    BY <1>1, <1>8 DEF RemoveRead, Ticks, Reload, deciding, vars
<1> QED
    BY <1>1, <1>3, <1>4, <1>5, <1>6, <1>7, <1>8 DEF Next

\* A verdict of code's goes over a person's only where two had the pair in hand at once, or for another
\* of the reasons a pair is excused.
THEOREM PersonOutdoneInHandOnly == Spec => PersonStandsAlone
<1>1. Init => RightOnes
    BY RightInit
<1>2. WInv /\ RightOnes /\ [Next]_vars
      => [\A p \in Pairs \ excused' : decision[p].by = "person" => decision'[p] = decision[p]]_vars
    BY PersonStep
<1> QED
    BY <1>1, <1>2, WInit, WStep, RightStep, PTL DEF Spec, PersonStandsAlone

-----------------------------------------------------------------------------
(* The least and the greatest of a set of times *)

\* A set of naturals has a least element: intervals are well-founded under inclusion.
LEMMA HasLeast ==
    ASSUME NEW S \in SUBSET Nat, S # {}
    PROVE  \E x \in S : \A y \in S : x <= y
<1> DEFINE T == {0 .. x : x \in S}
           R == StrictSubsetOrdering(Nat)
<1>1. T \subseteq FiniteSubsetsOf(Nat) /\ T # {}
    <2>1. \A x \in S : 0 .. x \in FiniteSubsetsOf(Nat)
        BY FS_Interval DEF FiniteSubsetsOf
    <2> QED  BY <2>1
<1>2. IsWellFoundedOn(R, FiniteSubsetsOf(Nat))
    BY FS_StrictSubsetOrderingWellFounded
<1>3. \E t \in T : \A u \in T : <<u, t>> \notin R
    <2> HIDE DEF T, R
    <2> QED  BY <1>1, <1>2, WFMin
<1>4. PICK x \in S : \A y \in S : <<0 .. y, 0 .. x>> \notin R
    BY <1>3
<1>5. ASSUME NEW y \in S, y < x PROVE FALSE
    <2>1. 0 .. y \in SUBSET Nat /\ 0 .. x \in SUBSET Nat /\ 0 .. y \subseteq 0 .. x
        BY <1>5
    <2>2. x \in 0 .. x /\ x \notin 0 .. y
        BY <1>5
    <2>3. <<0 .. y, 0 .. x>> \in R
        BY <2>1, <2>2 DEF StrictSubsetOrdering
    <2> QED  BY <2>3, <1>4
<1> QED
    BY <1>5

LEMMA LeastIsMin ==
    ASSUME NEW S \in SUBSET Nat, S # {}
    PROVE  Listed!Min(S) \in S /\ \A y \in S : Listed!Min(S) <= y
<1>1. \E x \in S : \A y \in S : x <= y
    BY HasLeast
<1> QED
    BY <1>1 DEF Listed!Min

\* The greatest of a set of integers under a bound: the least, counted down from there.
LEMMA GreatestIsMax ==
    ASSUME NEW S \in SUBSET Int, S # {}, NEW b \in Int, \A x \in S : x <= b
    PROVE  Listed!Max(S) \in S /\ \A y \in S : Listed!Max(S) >= y
<1> DEFINE D == {b - x : x \in S}
<1>1. D \in SUBSET Nat /\ D # {}
    <2>1. \A x \in S : b - x \in Nat
        OBVIOUS
    <2> QED  BY <2>1
<1>2. PICK d \in D : \A e \in D : d <= e
    <2> HIDE DEF D
    <2> QED  BY <1>1, HasLeast
<1>3. PICK x \in S : d = b - x
    OBVIOUS
<1>4. \A y \in S : x >= y
    BY <1>2, <1>3
<1> QED
    BY <1>4 DEF Listed!Max

-----------------------------------------------------------------------------
(* Discovery *)

DTypes ==
    /\ now \in Nat /\ now >= 1 /\ now <= MaxNow
    /\ born \in [Markets -> 0 .. now]
    /\ state \in [Markets -> Listed!States]
    /\ rows \in [Markets -> 0 .. now] /\ built \in 1 .. now
    /\ catalog \in [on : BOOLEAN, from : 0 .. now, left : SUBSET Markets]
    /\ catalog.on => catalog.from >= 1
    /\ up \in BOOLEAN /\ known \subseteq Markets /\ found \subseteq Markets
    /\ since \in Int /\ since <= now
    /\ polled \in 0 .. now /\ (found # {} => polled >= 1)
    /\ marks \in [indexed : 0 .. now, last : 0 .. now]
    /\ missed \subseteq Markets

LEMMA Bounds ==
    /\ Overlap \in Nat /\ Margin \in Nat /\ Lag \in Nat /\ MaxNow \in Nat /\ Lag <= Overlap
    BY WatchlistAssumption DEF Listed!LagCovered

LEMMA MarkType == ASSUME DTypes PROVE Listed!Mark \in 1 .. now /\ Listed!Mark <= built
<1> DEFINE S == {built} \cup {rows[m] : m \in Listed!Stored(rows)}
<1>1. S \subseteq 1 .. now
    BY DEF DTypes, Listed!Stored
<1>2. built \in S /\ S \in SUBSET Nat
    <2>1. 1 .. now \subseteq Nat
        BY DEF DTypes
    <2> QED  BY <1>1, <2>1
<1> HIDE DEF S
<1>3. Listed!Min(S) \in S /\ Listed!Min(S) <= built
    BY <1>2, LeastIsMin
<1>4. Listed!Mark = Listed!Min(S)
    BY DEF S, Listed!Mark
<1> QED
    BY <1>1, <1>3, <1>4

\* The latest listing seen is a time there was, or what the service had.
LEMMA LatestType ==
    ASSUME DTypes, NEW answer \in SUBSET Markets
    PROVE  /\ Listed!Latest(answer) \in Int /\ Listed!Latest(answer) <= now
           /\ \/ Listed!Latest(answer) = since
              \/ \E m \in answer : Listed!Latest(answer) = born[m]
<1> DEFINE S == {since} \cup {born[m] : m \in answer}
<1>1. S \in SUBSET Int /\ S # {} /\ (\A x \in S : x <= now) /\ now \in Int
    BY DEF DTypes
<1>2. Listed!Max(S) \in S
    <2> HIDE DEF S
    <2> QED  BY <1>1, GreatestIsMax
<1>3. Listed!Latest(answer) = Listed!Max(S)
    BY DEF S, Listed!Latest
<1> QED
    BY <1>1, <1>2, <1>3 DEF S

\* A market the service need not ask about again: stored, to be, left out, or closed.
Kept(m) == m \in missed \cup Listed!Stored(rows) \cup catalog.left \/ state[m] = "closed"

\* Where a market goes from there.
LEMMA OnwardIs ==
    ASSUME NEW s, NEW t \in Listed!Onward(s)
    PROVE  t \in Listed!States /\ t # "unlisted" /\ s # "unlisted" /\ s # "closed"
    BY DEF Listed!Onward, Listed!States

\* Only listed markets are anywhere.
Came ==
    /\ \A m \in Markets :
        /\ rows[m] # 0 \/ m \in known \cup found => state[m] # "unlisted"
        /\ m \in catalog.left => state[m] # "unlisted"
    /\ ~catalog.on => catalog.left = {}

\* What was listed long before the last catalog began was in it, or was left out.
Covered == \A m \in Listed!Listed : born[m] + Lag < built => Kept(m)

\* A catalog has come to all it should and to all that was stored, but for what is left.
Covering ==
    catalog.on =>
        \A m \in Listed!Listed :
            born[m] + Lag < catalog.from \/ rows[m] # 0
            => m \in missed \cup catalog.left \/ rows[m] >= catalog.from \/ state[m] = "closed"

\* What the service knows, and what it won't ask about again, is kept or about to be.
Met == \A m \in known : Kept(m) \/ m \in found
Asked == up => \A m \in Listed!Listed : born[m] < since - Overlap => Kept(m) \/ m \in found

DInv == DTypes /\ Came /\ Covered /\ Covering /\ Met /\ Asked

LEMMA TypesVenue ==
    ASSUME DTypes, NEW m,
           Listed!List(m) \/ Listed!Tick \/ Listed!Becomes(m)
    PROVE  DTypes'
<1> USE DEF Listed!venue, Listed!table, Listed!service
<1>1. CASE Listed!List(m)
    <2>1. PICK s \in {"initialized", "active"} : state' = [state EXCEPT ![m] = s]
        BY <1>1 DEF Listed!List
    <2>2. born' \in [Markets -> 0 .. now]
        <3>1. now \in 0 .. now /\ born' = [born EXCEPT ![m] = now]
            BY <1>1 DEF Listed!List, DTypes
        <3>2. born \in [Markets -> 0 .. now]
            BY DEF DTypes
        <3> QED  BY <3>1, <3>2
    <2>3. state' \in [Markets -> Listed!States]
        BY <2>1 DEF DTypes, Listed!States
    <2> QED  BY <1>1, <2>2, <2>3 DEF Listed!List, DTypes
<1>2. CASE Listed!Tick
    BY <1>2, Bounds DEF Listed!Tick, DTypes
<1>3. CASE Listed!Becomes(m)
    <2>1. state' \in [Markets -> Listed!States]
        BY <1>3, OnwardIs DEF Listed!Becomes, DTypes
    <2> QED  BY <1>3, <2>1 DEF Listed!Becomes, DTypes
<1> QED
    BY <1>1, <1>2, <1>3

LEMMA TypesCatalog ==
    ASSUME DTypes, NEW m,
           \/ Listed!CatalogBegins \/ Listed!CatalogPage(m)
           \/ Listed!CatalogEnds \/ Listed!CatalogFails
    PROVE  DTypes'
<1> USE DEF Listed!venue, Listed!table, Listed!service
<1>1. CASE Listed!CatalogBegins
    <2>1. {n \in Listed!Sure \cup Listed!Stored(rows) : state[n] = "active"} \in SUBSET Markets
        BY DEF Listed!Sure, Listed!Listed, Listed!Stored
    <2>2. missed' \subseteq Markets
        BY <1>1 DEF Listed!CatalogBegins, Listed!Listed, DTypes
    <2>3. /\ catalog' \in [on : BOOLEAN, from : 0 .. now, left : SUBSET Markets]
          /\ catalog'.from = now
        BY <1>1, <2>1 DEF Listed!CatalogBegins, DTypes
    <2> QED  BY <1>1, <2>2, <2>3 DEF Listed!CatalogBegins, DTypes
<1>2. CASE Listed!CatalogPage(m)
    <2>1. rows' \in [Markets -> 0 .. now]
        BY <1>2 DEF Listed!CatalogPage, DTypes
    <2>2. /\ catalog' \in [on : BOOLEAN, from : 0 .. now, left : SUBSET Markets]
          /\ catalog'.on = catalog.on /\ catalog'.from = catalog.from
        BY <1>2 DEF Listed!CatalogPage, DTypes
    <2> QED  BY <1>2, <2>1, <2>2 DEF Listed!CatalogPage, DTypes
<1>3. CASE Listed!CatalogEnds
    <2>1. rows' \in [Markets -> 0 .. now]
        BY <1>3 DEF Listed!CatalogEnds, DTypes
    <2>2. /\ catalog' \in [on : BOOLEAN, from : 0 .. now, left : SUBSET Markets]
          /\ catalog'.on = FALSE
        BY <1>3 DEF Listed!CatalogEnds, Listed!NoCatalog, DTypes
    <2> QED  BY <1>3, <2>1, <2>2 DEF Listed!CatalogEnds, DTypes
<1>4. CASE Listed!CatalogFails
    <2>1. /\ catalog' \in [on : BOOLEAN, from : 0 .. now, left : SUBSET Markets]
          /\ catalog'.on = FALSE
        BY <1>4 DEF Listed!CatalogFails, Listed!NoCatalog, DTypes
    <2> QED  BY <1>4, <2>1 DEF Listed!CatalogFails, DTypes
<1> QED
    BY <1>1, <1>2, <1>3, <1>4

LEMMA TypesService ==
    ASSUME DTypes,
           \/ Listed!Start \/ Listed!Dies \/ Listed!Poll
           \/ Listed!Match \/ Listed!MaybeRebuild
    PROVE  DTypes'
<1> USE DEF Listed!venue, Listed!table, Listed!service
<1>0. Listed!Mark \in 1 .. now /\ Listed!Stored(rows) \subseteq Markets
    BY MarkType DEF Listed!Stored
<1>1. CASE Listed!Start
    <2>1. since' \in Int /\ since' <= now
        BY <1>0, <1>1, Bounds DEF Listed!Start, DTypes
    <2>2. marks' \in [indexed : 0 .. now, last : 0 .. now]
        BY <1>0, <1>1 DEF Listed!Start, DTypes
    <2> QED  BY <1>0, <1>1, <2>1, <2>2 DEF Listed!Start, Listed!Build, DTypes
<1>2. CASE Listed!Dies
    <2>1. marks' \in [indexed : 0 .. now, last : 0 .. now]
        BY <1>2 DEF Listed!Dies, DTypes
    <2>2. since' \in Int /\ since' <= now
        BY <1>2 DEF Listed!Dies, DTypes
    <2> QED  BY <1>2, <2>1, <2>2 DEF Listed!Dies, DTypes
<1>3. CASE Listed!Poll
    <2>1. PICK answer \in SUBSET Listed!Asked, failed \in SUBSET (Markets \ known) :
            /\ since' = Listed!Latest(answer) /\ found' \subseteq answer
            /\ known' = known \cup found' /\ missed' \subseteq missed \cup failed \cup answer
        BY <1>3 DEF Listed!Poll
    <2>2. answer \in SUBSET Markets
        BY DEF Listed!Asked, Listed!Listed
    <2>3. since' \in Int /\ since' <= now
        BY <2>1, <2>2, LatestType
    <2>4. polled' \in 0 .. now /\ (found' # {} => polled' >= 1)
        BY <1>3 DEF Listed!Poll, DTypes
    <2> QED  BY <1>3, <2>1, <2>2, <2>3, <2>4 DEF Listed!Poll, DTypes
<1>4. CASE Listed!Match
    <2>1. rows' \in [Markets -> 0 .. now] /\ missed' \subseteq Markets /\ polled' \in 0 .. now
        BY <1>4 DEF Listed!Match, Listed!Older, DTypes
    <2> QED  BY <1>4, <2>1 DEF Listed!Match, DTypes
<1>5. CASE Listed!MaybeRebuild
    <2>1. marks' \in [indexed : 0 .. now, last : 0 .. now] /\ known' \subseteq Markets
        BY <1>0, <1>5 DEF Listed!MaybeRebuild, Listed!Build, DTypes
    <2> QED  BY <1>5, <2>1 DEF Listed!MaybeRebuild, DTypes
<1> QED
    BY <1>1, <1>2, <1>3, <1>4, <1>5

LEMMA DTypesStep ==
    ASSUME DTypes, [Listed!Next]_(Listed!vars)
    PROVE  DTypes'
<1>1. CASE UNCHANGED Listed!vars
    BY <1>1 DEF Listed!vars, Listed!venue, Listed!table, Listed!service, DTypes
<1>2. ASSUME NEW m, Listed!List(m) \/ Listed!CatalogPage(m) \/ Listed!Becomes(m)
      PROVE  DTypes'
    BY <1>2, TypesVenue, TypesCatalog
<1>3. CASE Listed!Tick
    BY <1>3, TypesVenue
<1>4. CASE Listed!CatalogBegins \/ Listed!CatalogEnds \/ Listed!CatalogFails
    BY <1>4, TypesCatalog
<1>5. CASE Listed!Start \/ Listed!Dies \/ Listed!Poll \/ Listed!Match \/ Listed!MaybeRebuild
    BY <1>5, TypesService
<1> QED
    BY <1>1, <1>2, <1>3, <1>4, <1>5 DEF Listed!Next

\* What is kept stays so: only a finished catalog deletes, and only what it didn't come to.
LEMMA KeptStays ==
    ASSUME DInv, [Listed!Next]_(Listed!vars), NEW m \in Markets, Kept(m)
    PROVE  Kept(m)'
<1> USE DEF Listed!venue, Listed!table, Listed!service, DInv
<1>1. CASE UNCHANGED <<state, rows, catalog>> /\ missed \subseteq missed'
    BY <1>1 DEF Kept, Listed!Stored
<1>2. ASSUME NEW n \in Markets, Listed!List(n) PROVE Kept(m)'
    <2>1. m # n \/ state'[m] = state[m] \/ state[m] = "unlisted"
        BY <1>2 DEF Listed!List
    <2>2. state[m] = "closed" => state'[m] = "closed"
        BY <1>2 DEF Listed!List, DTypes
    <2> QED  BY <1>2, <2>2 DEF Listed!List, Kept, Listed!Stored
<1>3. ASSUME NEW n \in Markets, Listed!Becomes(n) PROVE  Kept(m)'
    <2>1. state[m] = "closed" => state'[m] = "closed"
        BY <1>3, OnwardIs DEF Listed!Becomes, DTypes
    <2> QED  BY <1>3, <2>1 DEF Listed!Becomes, Kept, Listed!Stored
<1>4. ASSUME NEW n \in Markets, Listed!CatalogPage(n) PROVE Kept(m)'
    <2>1. catalog.from \in Nat /\ catalog.from >= 1 /\ catalog'.left = catalog.left \ {n}
        BY <1>4 DEF Listed!CatalogPage, DTypes
    <2>2. m # n => rows'[m] = rows[m]
        BY <1>4 DEF Listed!CatalogPage, DTypes
    <2>3. state[n] = "active" => rows'[n] = catalog.from
        BY <1>4 DEF Listed!CatalogPage, DTypes
    <2>4. state[n] # "active" => rows' = rows /\ n \in missed'
        BY <1>4 DEF Listed!CatalogPage
    <2> QED  BY <1>4, <2>1, <2>2, <2>3, <2>4 DEF Listed!CatalogPage, Kept, Listed!Stored
<1>5. CASE Listed!CatalogBegins
    <2>1. catalog.left = {}
        BY <1>5 DEF Listed!CatalogBegins, Came
    <2> QED  BY <1>5, <2>1 DEF Listed!CatalogBegins, Kept, Listed!Stored
<1>6. CASE Listed!CatalogEnds
    <2>1. CASE m \in Listed!Outdated
        <3>1. rows[m] # 0 /\ rows[m] < catalog.from /\ rows[m] \in Nat /\ catalog.from \in Nat
            BY <2>1 DEF Listed!Outdated, Listed!Stored, DTypes
        <3>2. m \in Listed!Listed
            BY <3>1 DEF Came, Listed!Listed
        <3>3. m \in missed \/ state[m] = "closed"
            BY <1>6, <3>1, <3>2 DEF Covering, Listed!CatalogEnds
        <3> QED  BY <1>6, <3>3 DEF Listed!CatalogEnds, Kept
    <2>2. CASE m \notin Listed!Outdated
        <3>1. rows'[m] = rows[m]
            BY <1>6, <2>2 DEF Listed!CatalogEnds
        <3> QED  BY <1>6, <3>1 DEF Listed!CatalogEnds, Kept, Listed!Stored
    <2> QED  BY <2>1, <2>2
<1>7. CASE Listed!CatalogFails
    BY <1>7 DEF Listed!CatalogFails, Kept, Listed!Stored
<1>8. CASE Listed!Match
    <2>1. rows'[m] # 0 \/ rows'[m] = rows[m]
        <3>1. polled # 0
            BY <1>8 DEF Listed!Match, DTypes
        <3> QED  BY <1>8, <3>1 DEF Listed!Match
    <2> QED  BY <1>8, <2>1 DEF Listed!Match, Kept, Listed!Stored
<1>9. CASE Listed!Poll
    BY <1>1, <1>9 DEF Listed!Poll
<1>10. CASE UNCHANGED Listed!vars \/ Listed!Tick \/ Listed!Start \/ Listed!Dies \/ Listed!MaybeRebuild
    BY <1>1, <1>10 DEF Listed!vars, Listed!Tick, Listed!Start, Listed!Dies, Listed!MaybeRebuild
<1> QED
    BY <1>2, <1>3, <1>4, <1>5, <1>6, <1>7, <1>8, <1>9, <1>10 DEF Listed!Next

LEMMA CameStep ==
    ASSUME DInv, [Listed!Next]_(Listed!vars)
    PROVE  Came'
<1> USE DEF Listed!venue, Listed!table, Listed!service, DInv
<1>1. CASE UNCHANGED <<state, rows, catalog, known, found>>
    BY <1>1 DEF Came
<1>2. ASSUME NEW n \in Markets, Listed!List(n) PROVE Came'
    <2>1. \A m \in Markets : state'[m] # "unlisted" \/ state'[m] = state[m]
        BY <1>2 DEF Listed!List, DTypes
    <2>2. n \notin catalog.left /\ \A m \in Markets \ {n} : state'[m] = state[m]
        BY <1>2 DEF Listed!List, Came, DTypes
    <2> QED  BY <1>2, <2>1, <2>2 DEF Listed!List, Came
<1>3. ASSUME NEW n \in Markets, Listed!Becomes(n) PROVE  Came'
    <2>1. state'[n] # "unlisted" /\ \A m \in Markets \ {n} : state'[m] = state[m]
        BY <1>3, OnwardIs DEF Listed!Becomes, DTypes
    <2> QED  BY <1>3, <2>1 DEF Listed!Becomes, Came
<1>4. ASSUME NEW n \in Markets, Listed!CatalogPage(n) PROVE Came'
    <2>1. catalog'.left = catalog.left \ {n} /\ catalog'.on = catalog.on
        BY <1>4 DEF Listed!CatalogPage, DTypes
    <2>2. \A m \in Markets : rows'[m] = rows[m] \/ state[m] # "unlisted"
        BY <1>4 DEF Listed!CatalogPage, DTypes
    <2> QED  BY <1>4, <2>1, <2>2 DEF Listed!CatalogPage, Came
<1>5. CASE Listed!CatalogBegins
    <2>1. catalog'.on /\ \A m \in catalog'.left : state[m] = "active"
        BY <1>5 DEF Listed!CatalogBegins
    <2> QED  BY <1>5, <2>1 DEF Listed!CatalogBegins, Came
<1>6. CASE Listed!CatalogEnds \/ Listed!CatalogFails
    <2>1. catalog'.left = {}
        BY <1>6 DEF Listed!CatalogEnds, Listed!CatalogFails, Listed!NoCatalog
    <2>2. \A m \in Markets : rows'[m] # 0 => rows[m] # 0
        BY <1>6 DEF Listed!CatalogEnds, Listed!CatalogFails
    <2> QED  BY <1>6, <2>1, <2>2 DEF Listed!CatalogEnds, Listed!CatalogFails, Came
<1>7. CASE Listed!Match
    <2>1. \A m \in Markets : rows'[m] # 0 => rows[m] # 0 \/ m \in found
        BY <1>7 DEF Listed!Match
    <2> QED  BY <1>7, <2>1 DEF Listed!Match, Came
<1>8. CASE Listed!Poll
    <2>1. \A m \in found' : m \in Listed!Listed
        BY <1>8 DEF Listed!Poll, Listed!Asked
    <2>2. known' = known \cup found'
        BY <1>8 DEF Listed!Poll
    <2> QED  BY <1>8, <2>1, <2>2 DEF Listed!Poll, Came, Listed!Listed
<1>9. CASE Listed!Start \/ Listed!Dies \/ Listed!MaybeRebuild
    <2>1. \A m \in known' \cup found' : m \in known \cup found \/ rows[m] # 0
        BY <1>9 DEF Listed!Start, Listed!Dies, Listed!MaybeRebuild, Listed!Build, Listed!Stored
    <2> QED  BY <1>9, <2>1 DEF Listed!Start, Listed!Dies, Listed!MaybeRebuild, Came
<1>10. CASE UNCHANGED Listed!vars \/ Listed!Tick
    BY <1>1, <1>10 DEF Listed!vars, Listed!Tick
<1> QED
    BY <1>2, <1>3, <1>4, <1>5, <1>6, <1>7, <1>8, <1>9, <1>10 DEF Listed!Next

\* A market is listed once, at a time that was now.
LEMMA ListedOnce ==
    ASSUME DInv, [Listed!Next]_(Listed!vars), NEW m \in Listed!Listed'
    PROVE  /\ m \in Markets
           /\ \/ m \in Listed!Listed /\ born'[m] = born[m]
              \/ /\ m \notin Listed!Listed /\ Listed!List(m) /\ born'[m] = now
                 /\ rows'[m] = 0 /\ UNCHANGED <<now, Listed!table, catalog, Listed!service, missed>>
<1> USE DEF Listed!venue, Listed!table, Listed!service, DInv, Listed!Listed
<1>1. CASE UNCHANGED Listed!venue
    BY <1>1
<1>2. ASSUME NEW n \in Markets, Listed!List(n)
      PROVE  /\ m \in Markets
             /\ \/ m \in Listed!Listed /\ born'[m] = born[m]
                \/ /\ m \notin Listed!Listed /\ Listed!List(m) /\ born'[m] = now
                   /\ rows'[m] = 0 /\ UNCHANGED <<now, Listed!table, catalog, Listed!service, missed>>
    <2>1. CASE m = n
        BY <1>2, <2>1 DEF Listed!List, DTypes, Came
    <2>2. CASE m # n
        BY <1>2, <2>2 DEF Listed!List, DTypes
    <2> QED  BY <2>1, <2>2
<1>3. ASSUME NEW n \in Markets, Listed!Becomes(n) PROVE  m \in Listed!Listed /\ born'[m] = born[m]
    BY <1>3, OnwardIs DEF Listed!Becomes, DTypes
<1>4. ASSUME NEW n \in Markets, Listed!CatalogPage(n) PROVE UNCHANGED Listed!venue
    BY <1>4 DEF Listed!CatalogPage
<1>5. CASE Listed!CatalogBegins \/ Listed!CatalogEnds \/ Listed!CatalogFails \/ UNCHANGED Listed!vars \/ Listed!Tick
    BY <1>1, <1>5 DEF Listed!CatalogBegins, Listed!CatalogEnds, Listed!CatalogFails, Listed!vars, Listed!Tick
<1>6. CASE Listed!Start \/ Listed!Dies \/ Listed!Poll \/ Listed!Match \/ Listed!MaybeRebuild
    BY <1>1, <1>6 DEF Listed!Start, Listed!Dies, Listed!Poll, Listed!Match, Listed!MaybeRebuild
<1>7. m \in Markets
    OBVIOUS
<1> QED
    BY <1>1, <1>2, <1>3, <1>4, <1>5, <1>6, <1>7 DEF Listed!Next

LEMMA CoveredStep ==
    ASSUME DInv, [Listed!Next]_(Listed!vars)
    PROVE  Covered'
<1> SUFFICES ASSUME NEW m \in Listed!Listed', born'[m] + Lag < built' PROVE Kept(m)'
    BY DEF Covered
<1>0. m \in Markets
    BY ListedOnce
<1>1. CASE built' = built
    <2>1. built \in Nat /\ built <= now /\ now \in Nat
        BY DEF DInv, DTypes
    <2>2. m \in Listed!Listed /\ born'[m] = born[m]
        BY <1>1, <2>1, ListedOnce, Bounds
    <2>3. Kept(m)
        BY <1>1, <2>2 DEF DInv, Covered
    <2> QED  BY <1>0, <2>3, KeptStays
<1>2. CASE Listed!CatalogEnds
    <2>1. m \in Listed!Listed /\ born[m] + Lag < catalog.from
        BY <1>2 DEF Listed!CatalogEnds, Listed!Listed, Listed!venue
    <2>2. m \in missed \cup catalog.left \/ rows[m] >= catalog.from \/ state[m] = "closed"
        BY <1>2, <2>1 DEF DInv, Covering, Listed!CatalogEnds
    <2>3. catalog.from >= 1 /\ catalog.from \in Nat /\ rows[m] \in Nat
        BY <1>0, <1>2 DEF Listed!CatalogEnds, DInv, DTypes
    <2>4. Kept(m)
        BY <1>0, <2>2, <2>3 DEF Kept, Listed!Stored
    <2> QED  BY <1>0, <2>4, KeptStays
<1>3. built' = built \/ Listed!CatalogEnds
    BY DEF Listed!Next, Listed!vars, Listed!table, Listed!List, Listed!Becomes, Listed!Tick, Listed!CatalogBegins,
       Listed!CatalogPage, Listed!CatalogFails, Listed!Start, Listed!Dies, Listed!Poll, Listed!Match, Listed!MaybeRebuild
<1> QED
    BY <1>1, <1>2, <1>3

LEMMA CoveringStep ==
    ASSUME DInv, [Listed!Next]_(Listed!vars)
    PROVE  Covering'
<1> DEFINE Come(m) == m \in missed \cup catalog.left \/ rows[m] >= catalog.from \/ state[m] = "closed"
<1> SUFFICES ASSUME catalog'.on, NEW m \in Listed!Listed', born'[m] + Lag < catalog'.from \/ rows'[m] # 0
             PROVE  Come(m)'
    BY DEF Covering
<1> USE DEF Listed!venue, Listed!table, Listed!service, DInv
<1>0. m \in Markets /\ catalog.from \in Nat /\ catalog.from <= now /\ now \in Nat
    BY ListedOnce DEF DTypes
<1>1. CASE born'[m] = now /\ rows'[m] = 0 /\ catalog' = catalog
    BY <1>0, <1>1, Bounds
<1>2. CASE m \in Listed!Listed /\ born'[m] = born[m]
    <2>0. ASSUME catalog.on, born[m] + Lag < catalog.from \/ rows[m] # 0 PROVE Come(m)
        BY <1>2, <2>0 DEF Covering
    <2>1. CASE /\ UNCHANGED <<rows, catalog>> /\ missed \subseteq missed'
               /\ state[m] = "closed" => state'[m] = "closed"
        BY <1>2, <2>0, <2>1
    <2>2. ASSUME NEW n \in Markets, Listed!List(n) \/ Listed!Becomes(n)
          PROVE  Come(m)'
        <3>1. state[m] = "closed" => state'[m] = "closed"
            BY <1>0, <2>2, OnwardIs DEF Listed!List, Listed!Becomes, DTypes
        <3> QED  BY <2>1, <2>2, <3>1 DEF Listed!List, Listed!Becomes
    <2>3. ASSUME NEW n \in Markets, Listed!CatalogPage(n) PROVE Come(m)'
        <3>1. catalog.on /\ catalog'.left = catalog.left \ {n} /\ catalog'.from = catalog.from
            BY <2>3 DEF Listed!CatalogPage, DTypes
        <3>2. CASE m # n
            <4>1. rows'[m] = rows[m]
                BY <1>0, <2>3, <3>2 DEF Listed!CatalogPage, DTypes
            <4> QED  BY <1>2, <2>0, <2>3, <3>1, <3>2, <4>1 DEF Listed!CatalogPage
        <3>3. CASE m = n
            <4>1. CASE state[n] = "active"
                <5>1. rows'[m] = catalog.from
                    BY <2>3, <3>3, <4>1 DEF Listed!CatalogPage, DTypes
                <5> QED  BY <1>0, <3>1, <5>1
            <4>2. CASE state[n] # "active"
                BY <2>3, <3>3, <4>2 DEF Listed!CatalogPage
            <4> QED  BY <4>1, <4>2
        <3> QED  BY <3>2, <3>3
    <2>4. CASE Listed!CatalogBegins
        <3>1. catalog'.from = now /\ rows' = rows /\ state' = state
            BY <2>4 DEF Listed!CatalogBegins
        <3>2. m \in Listed!Sure \cup Listed!Stored(rows)
            BY <1>0, <1>2, <3>1 DEF Listed!Sure, Listed!Stored
        <3>3. m \in catalog'.left \/ m \in missed'
            BY <1>2, <2>4, <3>2 DEF Listed!CatalogBegins
        <3> QED  BY <3>3
    <2>5. CASE Listed!CatalogEnds \/ Listed!CatalogFails
        BY <2>5 DEF Listed!CatalogEnds, Listed!CatalogFails, Listed!NoCatalog
    <2>6. CASE Listed!Match
        <3>1. CASE m \in found
            <4>1. rows'[m] = polled /\ polled \in Nat /\ catalog' = catalog
                BY <1>0, <2>6, <3>1 DEF Listed!Match, DTypes
            <4>2. polled < catalog.from => m \in missed' \cup catalog.left
                BY <2>6, <3>1 DEF Listed!Match, Listed!Older
            <4> QED  BY <1>0, <4>1, <4>2
        <3>2. CASE m \notin found
            <4>1. rows'[m] = rows[m]
                BY <1>0, <2>6, <3>2 DEF Listed!Match
            <4> QED  BY <1>0, <1>2, <2>0, <2>6, <4>1 DEF Listed!Match
        <3> QED  BY <3>1, <3>2
    <2>7. CASE Listed!Poll
        BY <2>1, <2>7 DEF Listed!Poll
    <2>8. CASE UNCHANGED Listed!vars \/ Listed!Tick \/ Listed!Start \/ Listed!Dies \/ Listed!MaybeRebuild
        BY <2>1, <2>8 DEF Listed!vars, Listed!Tick, Listed!Start, Listed!Dies, Listed!MaybeRebuild
    <2> QED
        BY <2>2, <2>3, <2>4, <2>5, <2>6, <2>7, <2>8 DEF Listed!Next
<1> QED
    BY <1>1, <1>2, ListedOnce

LEMMA MetStep ==
    ASSUME DInv, [Listed!Next]_(Listed!vars)
    PROVE  Met'
<1> SUFFICES ASSUME NEW m \in known' PROVE Kept(m)' \/ m \in found'
    BY DEF Met
<1> USE DEF Listed!venue, Listed!table, Listed!service, DInv
<1>0. m \in Markets
    BY DTypesStep DEF DTypes
<1>1. CASE m \in known /\ found' = found
    BY <1>0, <1>1, KeptStays DEF Met
<1>2. CASE m \in Listed!Stored(rows)
    BY <1>0, <1>2, KeptStays DEF Kept
<1>3. CASE Listed!Poll
    BY <1>0, <1>3, KeptStays DEF Listed!Poll, Met
<1>4. CASE Listed!Match
    <2>1. CASE m \in found
        BY <1>0, <1>4, <2>1 DEF Listed!Match, Kept, Listed!Stored, DTypes
    <2>2. CASE m \notin found
        BY <1>0, <1>4, <2>2, KeptStays DEF Listed!Match, Met
    <2> QED  BY <2>1, <2>2
<1>5. CASE Listed!Start \/ Listed!Dies \/ Listed!MaybeRebuild
    BY <1>1, <1>2, <1>5 DEF Listed!Start, Listed!Dies, Listed!MaybeRebuild, Listed!Build
<1>6. ASSUME NEW n, Listed!List(n) \/ Listed!CatalogPage(n) \/ Listed!Becomes(n)
      PROVE  known' = known /\ found' = found
    BY <1>6 DEF Listed!List, Listed!CatalogPage, Listed!Becomes
<1>7. CASE \/ Listed!CatalogBegins \/ Listed!CatalogEnds \/ Listed!CatalogFails
           \/ UNCHANGED Listed!vars \/ Listed!Tick
    BY <1>1, <1>7 DEF Listed!CatalogBegins, Listed!CatalogEnds, Listed!CatalogFails, Listed!vars, Listed!Tick
<1> QED
    BY <1>1, <1>3, <1>4, <1>5, <1>6, <1>7 DEF Listed!Next

\* The cursor only passes what was listed long enough ago to be in the answer.
LEMMA AskedStep ==
    ASSUME DInv, [Listed!Next]_(Listed!vars)
    PROVE  Asked'
<1> SUFFICES ASSUME up', NEW m \in Listed!Listed', born'[m] < since' - Overlap
             PROVE  Kept(m)' \/ m \in found'
    BY DEF Asked
<1> USE DEF Listed!venue, Listed!table, Listed!service, DInv
<1>0. /\ m \in Markets /\ since \in Int /\ since <= now /\ now \in Nat /\ born[m] \in Nat
      /\ Overlap \in Nat /\ Lag \in Nat /\ Lag <= Overlap /\ Margin \in Nat
    <2>1. m \in Markets
        BY ListedOnce
    <2> QED  BY <2>1, Bounds DEF DTypes
<1>1. CASE /\ up /\ since' = since /\ found' = found
           /\ m \in Listed!Listed /\ born'[m] = born[m]
    BY <1>0, <1>1, KeptStays DEF Asked
<1>2. ASSUME NEW n, \/ Listed!List(n) \/ Listed!CatalogPage(n) \/ Listed!CatalogBegins
                    \/ Listed!CatalogEnds \/ Listed!CatalogFails \/ UNCHANGED Listed!vars \/ Listed!Tick
                    \/ Listed!Becomes(n)
      PROVE  Kept(m)' \/ m \in found'
    <2>1. up' = up /\ since' = since /\ found' = found
        BY <1>2 DEF Listed!List, Listed!CatalogPage, Listed!CatalogBegins, Listed!CatalogEnds,
           Listed!CatalogFails, Listed!vars, Listed!Tick, Listed!Becomes
    <2>2. CASE born'[m] = now
        BY <1>0, <2>1, <2>2
    <2>3. CASE m \in Listed!Listed /\ born'[m] = born[m]
        BY <1>1, <2>1, <2>3
    <2> QED  BY <2>2, <2>3, ListedOnce
<1>3. CASE Listed!Start
    <2>1. since' <= built - Margin /\ since' \in Int /\ built \in Nat
        BY <1>3, <1>0, MarkType DEF Listed!Start, DTypes
    <2>2. m \in Listed!Listed /\ born[m] + Lag < built
        BY <1>0, <1>3, <2>1 DEF Listed!Start, Listed!Listed
    <2> QED  BY <1>0, <2>2, KeptStays DEF Covered
<1>4. CASE Listed!Poll
    <2>1. PICK answer \in SUBSET Listed!Asked, failed \in SUBSET (Markets \ known) :
            /\ Listed!Sure \cap Listed!Asked \subseteq answer
            /\ since' = Listed!Latest(answer)
            /\ LET halted == {n \in answer : state[n] = "inactive"} IN
               /\ found' = {n \in answer \ (known \cup failed \cup halted) : state[n] # "closed"}
               /\ missed' = missed \cup failed \cup halted
        BY <1>4 DEF Listed!Poll
    <2>2. up /\ found = {} /\ m \in Listed!Listed /\ UNCHANGED <<state, born, rows, catalog>>
        BY <1>4 DEF Listed!Poll, Listed!Listed
    <2>3. CASE born[m] < since - Overlap
        BY <1>0, <2>2, <2>3, KeptStays DEF Asked
    <2>4. CASE born[m] >= since - Overlap
        <3>1. m \in Listed!Asked
            BY <2>2, <2>4 DEF Listed!Asked
        <3>2. answer \in SUBSET Markets
            BY DEF Listed!Asked, Listed!Listed
        <3>3. since' <= now /\ since' \in Int
            BY <2>1, <3>2, LatestType
        <3>4. m \in Listed!Sure
            BY <1>0, <2>2, <3>3 DEF Listed!Sure
        <3>5. m \in answer
            BY <2>1, <3>1, <3>4
        <3>6. CASE m \in known
            BY <1>0, <2>2, <3>6, KeptStays DEF Met
        <3>7. CASE m \in failed \/ state[m] \in {"inactive", "closed"}
            BY <2>1, <2>2, <3>5, <3>7 DEF Kept
        <3>8. CASE m \notin known \cup failed /\ state[m] \notin {"inactive", "closed"}
            BY <2>1, <3>5, <3>8
        <3> QED  BY <3>6, <3>7, <3>8
    <2> QED  BY <1>0, <2>3, <2>4
<1>5. CASE Listed!Match
    <2>1. m \in Listed!Listed /\ born[m] < since - Overlap /\ up
        BY <1>5 DEF Listed!Match, Listed!Listed
    <2>2. CASE m \in found
        BY <1>0, <1>5, <2>2 DEF Listed!Match, Kept, Listed!Stored, DTypes
    <2>3. CASE m \notin found
        BY <1>0, <2>1, <2>3, KeptStays DEF Asked
    <2> QED  BY <2>2, <2>3
<1>6. CASE Listed!MaybeRebuild
    BY <1>1, <1>6 DEF Listed!MaybeRebuild, Listed!Listed
<1>7. CASE Listed!Dies
    BY <1>7 DEF Listed!Dies
<1> QED
    BY <1>2, <1>3, <1>4, <1>5, <1>6, <1>7 DEF Listed!Next

LEMMA DInit == Listed!Init => DInv
<1> SUFFICES ASSUME Listed!Init PROVE DInv
    OBVIOUS
<1>1. DTypes
    <2>1. catalog \in [on : BOOLEAN, from : 0 .. now, left : SUBSET Markets] /\ ~catalog.on
        BY DEF Listed!Init, Listed!NoCatalog
    <2>2. marks \in [indexed : 0 .. now, last : 0 .. now]
        BY DEF Listed!Init
    <2>3. MaxNow \in Nat /\ MaxNow >= 1
        BY WatchlistAssumption, Bounds
    <2>4. /\ born \in [Markets -> 0 .. now] /\ rows \in [Markets -> 0 .. now]
          /\ state \in [Markets -> Listed!States]
        BY DEF Listed!Init, Listed!States
    <2>5. now = 1 /\ built \in 1 .. now /\ since \in Int /\ since <= now
        BY DEF Listed!Init
    <2>6. up \in BOOLEAN /\ known \subseteq Markets /\ found = {} /\ missed \subseteq Markets
        BY DEF Listed!Init
    <2>7. now \in Nat /\ now >= 1 /\ now <= MaxNow
        BY <2>3, <2>5
    <2>8. polled \in 0 .. now
        BY <2>5 DEF Listed!Init
    <2> QED  BY <2>1, <2>2, <2>4, <2>5, <2>6, <2>7, <2>8 DEF DTypes
<1>2. Came /\ Covered /\ Covering /\ Met /\ Asked
    BY DEF Listed!Init, Listed!NoCatalog, Came, Covered, Covering, Met, Asked, Listed!Listed
<1> QED
    BY <1>1, <1>2 DEF DInv

LEMMA DStep ==
    ASSUME DInv, [Listed!Next]_(Listed!vars)
    PROVE  DInv'
<1>1. DTypes
    BY DEF DInv
<1> QED
    BY <1>1, DTypesStep, CameStep, CoveredStep, CoveringStep, MetStep, AskedStep DEF DInv

\* No market falls between two of the discovery service's questions, wherever it or a catalog
\* dies, if the overlap is no less than the time a market takes to show up.
THEOREM NoMarketBetween == Listed!Spec => []NoneBetween
<1>1. DInv => NoneBetween
    BY DEF DInv, Asked, Kept, NoneBetween, Listed!NoneBetween
<1> QED
    BY <1>1, DInit, DStep, PTL DEF Listed!Spec

\* A behaviour of the model is one of each part; so the types of both hold of it.
THEOREM WatchlistTypes == MCSpec => []TypesOK
<1>1. MCInit => WInv /\ DInv
    BY WInit, DInit DEF MCInit
<1>2. [MCNext]_<<part, vars, listing>> => [Next]_vars /\ [Listed!Next]_(Listed!vars)
    <2>1. UNCHANGED listing => UNCHANGED Listed!vars
        BY DEF listing, Listed!vars, Listed!venue, Listed!table, Listed!service
    <2> QED  BY <2>1 DEF MCNext
<1>3. WInv => TypeOK
    BY WTypeOK
<1>4. DInv => Listed!TypeOK
    <2> SUFFICES ASSUME DInv PROVE Listed!TypeOK
        OBVIOUS
    <2>1. 0 .. now \subseteq Listed!Times /\ now \in Listed!Times
        BY Bounds DEF DInv, DTypes, Listed!Times
    <2>2. born \in [Markets -> Listed!Times] /\ rows \in [Markets -> Listed!Times] /\ built \in Listed!Times
        BY <2>1 DEF DInv, DTypes
    <2>3. /\ catalog \in [on : BOOLEAN, from : Listed!Times, left : SUBSET Markets]
          /\ marks \in [indexed : Listed!Times, last : Listed!Times]
        BY <2>1 DEF DInv, DTypes
    <2>4. /\ state \in [Markets -> Listed!States]
          /\ up \in BOOLEAN /\ known \subseteq Markets /\ found \subseteq Markets /\ since \in Int
          /\ missed \subseteq Markets /\ polled \in Listed!Times
        BY <2>1 DEF DInv, DTypes
    <2> QED
        BY <2>1, <2>2, <2>3, <2>4 DEF Listed!TypeOK
<1>5. WInv /\ DInv => TypesOK
    BY <1>3, <1>4 DEF TypesOK
<1> QED
    BY <1>1, <1>2, <1>5, WStep, DStep, PTL DEF MCSpec
=============================================================================
