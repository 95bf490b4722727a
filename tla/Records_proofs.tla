-------------------------- MODULE Records_proofs --------------------------
(***************************************************************************)
(* What is kept, and how fast it may be asked for: that without torn writes *)
(* the order journal lists exactly the orders whose outcome is open, and   *)
(* that each torn write costs it at most one of them (Journal); that       *)
(* pruning deletes what is old, all of it and nothing else, and stops      *)
(* within a batch when the service does (Retention); and that the calls to *)
(* a venue keep their distance (RateLimiter).                              *)
(***************************************************************************)
EXTENDS MCRecords, Sums

-----------------------------------------------------------------------------
(***************************************************************************)
(* Journal: the orders whose outcome is open                               *)
(***************************************************************************)

\* Nothing in the file is about an order that was never sent.
Unused == \A i \in Ids \ used : ~In(Sent(i)) /\ ~Known(i)

\* The inductive invariant.  What a resume has listed was sent, so that a later order
\* isn't cleared in advance.
Listed == found # None => found \subseteq used
Sound == ~cut /\ Unused /\ Listed /\ Unresolved = open
JInv == TypeOK /\ (torn = 0 => Sound)

\* An appended line is in the file with all the others.
LEMMA InAppended ==
    ASSUME TypeOK, NEW line \in Line, file' = Append(file, line)
    PROVE  \A l : In(l)' <=> (In(l) \/ l = line)
<1>1. file \in Seq(Line) /\ file' = Append(file, line)
  BY DEF TypeOK
<1>2. /\ DOMAIN file' = 1..(Len(file) + 1) /\ DOMAIN file = 1..Len(file)
      /\ \A k \in 1..Len(file) : file'[k] = file[k]
      /\ file'[Len(file) + 1] = line /\ Len(file) \in Nat
  BY <1>1
<1>3. ASSUME NEW l PROVE In(l)' => (In(l) \/ l = line)
  <2>1. SUFFICES ASSUME NEW k \in DOMAIN file', file'[k] = l PROVE In(l) \/ l = line
    BY DEF In
  <2>2. CASE k = Len(file) + 1
    BY <1>2, <2>1, <2>2
  <2>3. CASE k # Len(file) + 1
    <3>1. k \in DOMAIN file /\ file[k] = l
      BY <1>2, <2>1, <2>3
    <3> QED BY <3>1 DEF In
  <2> QED BY <2>2, <2>3
<1>4. ASSUME NEW l, In(l) \/ l = line PROVE In(l)'
  <2>1. CASE In(l)
    <3>1. PICK k \in DOMAIN file : file[k] = l
      BY <2>1 DEF In
    <3>2. k \in DOMAIN file' /\ file'[k] = l
      BY <1>2, <3>1
    <3> QED BY <3>2 DEF In
  <2>2. CASE l = line
    <3>1. Len(file) + 1 \in DOMAIN file' /\ file'[Len(file) + 1] = l
      BY <1>2, <2>2
    <3> QED BY <3>1 DEF In
  <2> QED BY <1>4, <2>1, <2>2
<1> QED BY <1>3, <1>4

LEMMA Appended ==
    ASSUME TypeOK, NEW line \in Line, ~cut, Add(line)
    PROVE  \A l : In(l)' <=> (In(l) \/ l = line)
BY InAppended DEF Add

\* Lines are lines, and the three kinds are told apart.
LEMMA Kinds ==
    ASSUME NEW i \in Ids, NEW j \in Ids, NEW is \in SUBSET Ids, NEW s \in {"known", "unknown"}
    PROVE  /\ Sent(i) \in Line /\ Done(i, s) \in Line /\ Cleared(is) \in Line
           /\ (Sent(i) = Sent(j) => i = j) /\ Sent(i) # Done(j, s) /\ Sent(i) # Cleared(is)
           /\ Done(i, s) # Cleared(is)
           /\ (Done(i, "known") = Done(j, s) => i = j /\ s = "known")
<1>1. /\ Sent(i).event = "send" /\ Sent(j).event = "send" /\ Done(j, s).event = "done" /\ Done(i, s).event = "done"
      /\ Cleared(is).event = "cleared" /\ Sent(i).id = i /\ Sent(j).id = j
      /\ Done(j, s).id = j /\ Done(j, s).status = s /\ Done(i, "known").id = i /\ Done(i, "known").status = "known"
  BY DEF Sent, Done, Cleared
<1>2. Sent(i) \in Line /\ Done(i, s) \in Line /\ Cleared(is) \in Line
  BY DEF Line
<1> QED BY <1>1, <1>2

\* What a new line does to the set the journal lists.
LEMMA AddSent ==
    ASSUME TypeOK, ~cut, NEW i \in Ids, Add(Sent(i))
    PROVE  /\ \A j \in Ids : In(Sent(j))' <=> (In(Sent(j)) \/ j = i)
           /\ \A j \in Ids : Known(j)' <=> Known(j)
<1>1. \A l : In(l)' <=> (In(l) \/ l = Sent(i))
  BY Appended, Kinds
<1>2. \A j \in Ids : In(Sent(j))' <=> (In(Sent(j)) \/ j = i)
  BY <1>1, Kinds
<1>3. ASSUME NEW j \in Ids PROVE Known(j)' <=> Known(j)
  <2>1. In(Done(j, "known"))' <=> In(Done(j, "known"))
    BY <1>1, Kinds
  <2>2. \A is \in SUBSET Ids : In(Cleared(is))' <=> In(Cleared(is))
    BY <1>1, Kinds
  <2> QED BY <2>1, <2>2 DEF Known
<1> QED BY <1>2, <1>3

LEMMA AddDone ==
    ASSUME TypeOK, ~cut, NEW i \in Ids, NEW s \in {"known", "unknown"}, Add(Done(i, s))
    PROVE  /\ \A j \in Ids : In(Sent(j))' <=> In(Sent(j))
           /\ \A j \in Ids : Known(j)' <=> (Known(j) \/ (j = i /\ s = "known"))
<1>1. \A l : In(l)' <=> (In(l) \/ l = Done(i, s))
  BY Appended, Kinds
<1>2. \A j \in Ids : In(Sent(j))' <=> In(Sent(j))
  BY <1>1, Kinds
<1>3. ASSUME NEW j \in Ids PROVE Known(j)' <=> (Known(j) \/ (j = i /\ s = "known"))
  <2>1. In(Done(j, "known"))' <=> (In(Done(j, "known")) \/ (j = i /\ s = "known"))
    BY <1>1, Kinds
  <2>2. \A is \in SUBSET Ids : In(Cleared(is))' <=> In(Cleared(is))
    BY <1>1, Kinds
  <2> QED BY <2>1, <2>2 DEF Known
<1> QED BY <1>2, <1>3

LEMMA AddCleared ==
    ASSUME TypeOK, ~cut, NEW is \in SUBSET Ids, Add(Cleared(is))
    PROVE  /\ \A j \in Ids : In(Sent(j))' <=> In(Sent(j))
           /\ \A j \in Ids : Known(j)' <=> (Known(j) \/ j \in is)
<1> Cleared(is) \in Line
  BY DEF Line
<1>1. \A l : In(l)' <=> (In(l) \/ l = Cleared(is))
  BY Appended
<1>2. \A j \in Ids : In(Sent(j))' <=> In(Sent(j))
  BY <1>1, Kinds
<1>3. ASSUME NEW j \in Ids PROVE Known(j)' <=> (Known(j) \/ j \in is)
  <2>1. In(Done(j, "known"))' <=> In(Done(j, "known"))
    BY <1>1, Kinds
  <2>2. \A xs \in SUBSET Ids : In(Cleared(xs))' <=> (In(Cleared(xs)) \/ Cleared(xs) = Cleared(is))
    BY <1>1
  <2>3. \A xs \in SUBSET Ids : Cleared(xs) = Cleared(is) => xs = is
    <3>1. \A xs \in SUBSET Ids : Cleared(xs).ids = xs
      BY DEF Cleared
    <3> QED BY <3>1
  <2> QED BY <2>1, <2>2, <2>3 DEF Known
<1> QED BY <1>2, <1>3

\* Where the file is as it was, so is all that is read from it.
LEMMA SameFile ==
    ASSUME UNCHANGED file
    PROVE  /\ \A j \in Ids : (In(Sent(j))' <=> In(Sent(j))) /\ (Known(j)' <=> Known(j))
           /\ Unresolved' = Unresolved
<1>1. \A l : In(l)' <=> In(l)
  BY DEF In
<1> QED BY <1>1 DEF Known, Unresolved

-----------------------------------------------------------------------------

\* Writing a line, or failing to, keeps the file a file.
LEMMA FileTypes ==
    ASSUME TypeOK, \/ (\E line \in Line : Add(line)) \/ AddFails \/ UNCHANGED <<file, cut, torn>>
    PROVE  /\ file' \in Seq(Line) /\ cut' \in BOOLEAN /\ (cut' => file' # <<>>)
           /\ torn' \in 0..MaxTorn
<1> USE TornAssumption DEF TypeOK
<1>1. CASE UNCHANGED <<file, cut, torn>>
  BY <1>1
<1>2. ASSUME NEW line \in Line, Add(line)
      PROVE  file' \in Seq(Line) /\ cut' = FALSE /\ torn' = torn
  <2>1. Garbled \in Line /\ (cut => Len(file) \in DOMAIN file)
    BY DEF Line
  <2>2. CASE cut
    <3>1. file' = [file EXCEPT ![Len(file)] = Garbled]
      BY <1>2, <2>2 DEF Add
    <3> QED BY <1>2, <2>1, <2>2, <3>1 DEF Add
  <2>3. CASE ~cut
    <3>1. file' = Append(file, line)
      BY <1>2, <2>3 DEF Add
    <3> QED BY <1>2, <3>1 DEF Add
  <2> QED BY <2>2, <2>3
<1>3. CASE AddFails
  <2>1. Garbled \in Line
    BY DEF Line
  <2>2. CASE UNCHANGED <<file, cut, torn>>
    BY <2>2
  <2>3. CASE torn < MaxTorn /\ cut' = TRUE /\ torn' = torn + 1 /\ file' = Append(file, Garbled)
    BY <2>1, <2>3
  <2> QED BY <1>3, <2>2, <2>3 DEF AddFails
<1> QED BY <1>1, <1>2, <1>3

\* The types are kept by every step.
LEMMA TypeStep == TypeOK /\ [Next]_vars => TypeOK'
<1> SUFFICES ASSUME TypeOK, [Next]_vars PROVE TypeOK'
  OBVIOUS
<1> DEFINE FileOK == /\ file \in Seq(Line) /\ cut \in BOOLEAN /\ (cut => file # <<>>)
                     /\ torn \in 0..MaxTorn
<1> DEFINE RestOK == /\ up \in BOOLEAN /\ halted \in BOOLEAN
                     /\ order \in used \cup {None} /\ found \in {None} \cup SUBSET Ids
                     /\ used \subseteq Ids /\ open \subseteq used
<1>0. (TypeOK <=> FileOK /\ RestOK) /\ (TypeOK' <=> FileOK' /\ RestOK')
  BY DEF TypeOK
<1>1. ASSUME NEW i \in Ids, Send(i) PROVE FileOK' /\ RestOK'
  <2>1. Sent(i) \in Line
    BY DEF Line
  <2> QED BY <1>1, <2>1, FileTypes, <1>0 DEF Send
<1>2. ASSUME NEW i \in Ids, SendFails(i) PROVE FileOK' /\ RestOK'
  BY <1>2, FileTypes, <1>0 DEF SendFails
<1>3. ASSUME NEW s \in {"known", "unknown"}, Learn(s) PROVE FileOK' /\ RestOK'
  <2>1. Done(order, s) \in Line
    BY <1>3 DEF Line, Learn, TypeOK
  <2>2. halted' \in BOOLEAN
    BY <1>3 DEF Learn, TypeOK
  <2> QED BY <1>3, <2>1, <2>2, FileTypes, <1>0 DEF Learn
<1>4. ASSUME LearnFails PROVE FileOK' /\ RestOK'
  BY <1>4, FileTypes, <1>0 DEF LearnFails
<1>5. ASSUME Crash PROVE FileOK' /\ RestOK'
  BY <1>5, FileTypes, <1>0 DEF Crash
<1>6. ASSUME Restart PROVE FileOK' /\ RestOK'
  <2>1. halted' \in BOOLEAN
    BY <1>6 DEF Restart, TypeOK
  <2> QED BY <1>6, <2>1, <1>0 DEF Restart
<1>7. ASSUME ResumeRead PROVE FileOK' /\ RestOK'
  <2>1. Unresolved \subseteq Ids
    BY DEF Unresolved
  <2> QED BY <1>7, <2>1, <1>0 DEF ResumeRead
<1>8. ASSUME ResumeApply PROVE FileOK' /\ RestOK'
  <2>1. found \in SUBSET Ids /\ Cleared(found) \in Line
    BY <1>8 DEF Line, ResumeApply, TypeOK
  <2>2. (UNCHANGED <<file, cut, torn>>) \/ Add(Cleared(found))
    BY <1>8 DEF ResumeApply
  <2> QED BY <1>8, <2>1, <2>2, FileTypes, <1>0 DEF ResumeApply
<1>9. ASSUME ResumeFails PROVE FileOK' /\ RestOK'
  BY <1>9, FileTypes, <1>0 DEF ResumeFails
<1>10. ASSUME UNCHANGED vars PROVE FileOK' /\ RestOK'
  BY <1>10, <1>0 DEF vars
<1>11. FileOK' /\ RestOK'
  BY <1>1, <1>2, <1>3, <1>4, <1>5, <1>6, <1>7, <1>8, <1>9, <1>10 DEF Next
<1> QED BY <1>0, <1>11

\* A failed write that leaves nothing behind leaves the file as it was.
LEMMA FailsClean ==
    ASSUME TypeOK, torn' = 0, AddFails
    PROVE  UNCHANGED <<file, cut, torn>>
BY DEF AddFails, TypeOK

\* A torn line stays in the count.
LEMMA TornStays ==
    ASSUME TypeOK, [Next]_vars, torn' = 0
    PROVE  torn = 0
<1>1. CASE UNCHANGED torn
  BY <1>1
<1>2. CASE AddFails
  BY <1>2, FailsClean
<1>3. ASSUME NEW line, Add(line) PROVE UNCHANGED torn
  BY <1>3 DEF Add
<1> QED BY <1>1, <1>2, <1>3 DEF Next, vars, Send, SendFails, Learn, LearnFails, Crash, Restart,
                                 ResumeRead, ResumeApply, ResumeFails

\* Each step keeps the journal exact.
LEMMA ExactStep ==
    ASSUME JInv, [Next]_vars
    PROVE  JInv'
<1> USE DEF JInv
<1> SUFFICES ASSUME torn' = 0 PROVE TypeOK' /\ Sound'
  BY TypeStep
<1>torn. Sound
  BY TornStays
<1>0. TypeOK'
  BY TypeStep
<1>a. ~cut /\ Unused /\ Listed /\ \A i \in Ids : i \in open <=> In(Sent(i)) /\ ~Known(i)
  BY <1>torn DEF Sound, Unresolved, TypeOK
<1>b. ASSUME ~cut', Listed', Unused', \A i \in Ids : (i \in open)' <=> In(Sent(i))' /\ ~Known(i)'
      PROVE  Sound'
  <2>1. open' \subseteq Ids
    BY <1>0 DEF TypeOK
  <2>2. Unresolved' = open'
    BY <1>b, <2>1 DEF Unresolved
  <2> QED BY <1>b, <2>2 DEF Sound
<1>c. ASSUME UNCHANGED <<file, cut, used, open>>, Listed' PROVE Sound'
  <2>1. \A j \in Ids : (In(Sent(j))' <=> In(Sent(j))) /\ (Known(j)' <=> Known(j))
    BY <1>c, SameFile
  <2>2. Unused'
    BY <1>a, <1>c, <2>1 DEF Unused
  <2> QED BY <1>a, <1>b, <1>c, <2>1, <2>2
<1>1. ASSUME NEW i \in Ids, Send(i) PROVE Sound'
  <2>1. Add(Sent(i)) /\ ~cut' /\ i \notin used /\ used' = used \cup {i} /\ open' = open \cup {i} /\ found' = found
    BY <1>1, <1>a DEF Send, Add
  <2>2. /\ \A j \in Ids : In(Sent(j))' <=> (In(Sent(j)) \/ j = i)
        /\ \A j \in Ids : Known(j)' <=> Known(j)
    BY <1>a, <2>1, AddSent
  <2>3. ~Known(i)
    BY <1>a, <2>1 DEF Unused
  <2>4. Unused' /\ Listed'
    BY <1>a, <2>1, <2>2 DEF Unused, Listed
  <2> QED BY <1>a, <1>b, <2>1, <2>2, <2>3, <2>4
<1>2. ASSUME NEW i \in Ids, SendFails(i) PROVE Sound'
  <2>1. UNCHANGED <<file, cut, open, found>> /\ used' = used \cup {i}
    BY <1>2, <1>a, FailsClean DEF SendFails
  <2>2. \A j \in Ids : (In(Sent(j))' <=> In(Sent(j))) /\ (Known(j)' <=> Known(j))
    BY <2>1, SameFile
  <2>3. Unused' /\ Listed'
    BY <1>a, <2>1, <2>2 DEF Unused, Listed
  <2> QED BY <1>a, <1>b, <2>1, <2>2, <2>3
<1>3. ASSUME NEW s \in {"known", "unknown"}, Learn(s) PROVE Sound'
  <2>1. /\ order \in Ids /\ order \in used /\ Add(Done(order, s)) /\ ~cut'
        /\ UNCHANGED <<used, found>>
        /\ open' = IF s = "known" THEN open \ {order} ELSE open
    BY <1>3, <1>a DEF Learn, Add, TypeOK
  <2>2. /\ \A j \in Ids : In(Sent(j))' <=> In(Sent(j))
        /\ \A j \in Ids : Known(j)' <=> (Known(j) \/ (j = order /\ s = "known"))
    BY <1>a, <2>1, AddDone
  <2>3. Unused' /\ Listed'
    BY <1>a, <2>1, <2>2 DEF Unused, Listed
  <2> QED BY <1>a, <1>b, <2>1, <2>2, <2>3
<1>4. ASSUME LearnFails PROVE Sound'
  <2>1. UNCHANGED <<file, cut, open, used, found>>
    BY <1>4, <1>a, FailsClean DEF LearnFails
  <2> QED BY <1>a, <1>c, <2>1 DEF Listed
<1>5. ASSUME Crash PROVE Sound'
  <2>1. UNCHANGED <<file, cut, open, used, found>>
    BY <1>5, <1>a, FailsClean DEF Crash
  <2> QED BY <1>a, <1>c, <2>1 DEF Listed
<1>6. ASSUME Restart PROVE Sound'
  BY <1>6, <1>a, <1>c DEF Restart, Listed
<1>7. ASSUME ResumeRead PROVE Sound'
  <2>1. UNCHANGED <<file, cut, open, used>> /\ found' = open
    BY <1>7, <1>torn DEF ResumeRead, Sound
  <2>2. Listed'
    BY <2>1 DEF Listed, TypeOK
  <2> QED BY <1>c, <2>1, <2>2
<1>8. ASSUME ResumeApply PROVE Sound'
  <2>1. found \in SUBSET Ids /\ found \subseteq used /\ found' = None /\ used' = used /\ open' = open \ found /\ ~cut'
    BY <1>8, <1>a DEF ResumeApply, TypeOK, Listed, Add
  <2>2. CASE found = {}
    <3>1. UNCHANGED <<file, cut, used, open>> /\ Listed'
      BY <1>8, <1>a, <2>1, <2>2 DEF ResumeApply, Listed
    <3> QED BY <1>c, <3>1
  <2>3. CASE found # {}
    <3>1. Add(Cleared(found))
      BY <1>8, <2>3 DEF ResumeApply
    <3>2. /\ \A j \in Ids : In(Sent(j))' <=> In(Sent(j))
          /\ \A j \in Ids : Known(j)' <=> (Known(j) \/ j \in found)
      BY <2>1, <1>a, <3>1, AddCleared
    <3>3. Unused' /\ Listed'
      BY <1>a, <2>1, <3>2 DEF Unused, Listed
    <3> QED BY <1>a, <1>b, <2>1, <3>2, <3>3
  <2> QED BY <2>2, <2>3
<1>9. ASSUME ResumeFails PROVE Sound'
  <2>1. UNCHANGED <<file, cut, open, used>> /\ found' = None
    BY <1>9, <1>a, FailsClean DEF ResumeFails
  <2> QED BY <1>a, <1>c, <2>1 DEF Listed
<1>10. ASSUME UNCHANGED vars PROVE Sound'
  BY <1>10, <1>a, <1>c DEF vars, Listed
<1>11. Sound'
  BY <1>1, <1>2, <1>3, <1>4, <1>5, <1>6, <1>7, <1>8, <1>9, <1>10 DEF Next
<1> QED BY <1>0, <1>11

\* As long as no write has left part of a line behind, the orders the journal lists are, across
\* crashes, failed writes and resumes, those whose outcome is open: Journal.unresolved
\* is the set LiveTrade takes it for.
THEOREM JournalExact == Spec => []Exact
<1>1. Init => JInv
  <2> SUFFICES ASSUME Init PROVE JInv
    OBVIOUS
  <2>1. \A l : ~In(l)
    <3>1. DOMAIN file = {}
      BY DEF Init
    <3> QED BY <3>1 DEF In
  <2>2. TypeOK
    <3>1. file \in Seq(Line)
      BY DEF Init
    <3>2. cut \in BOOLEAN /\ (cut => file # <<>>) /\ up \in BOOLEAN /\ halted \in BOOLEAN
      BY DEF Init
    <3>3. /\ order \in used \cup {None} /\ found \in {None} \cup SUBSET Ids
          /\ used \subseteq Ids /\ open \subseteq used /\ torn \in 0..MaxTorn
      BY TornAssumption DEF Init
    <3> QED BY <3>1, <3>2, <3>3 DEF TypeOK
  <2>3. Unresolved = {}
    BY <2>1 DEF Unresolved
  <2> QED BY <2>1, <2>2, <2>3 DEF Init, JInv, Sound, Unused, Known, Listed
<1>2. JInv /\ [Next]_vars => JInv'
  BY ExactStep
<1>3. JInv => Exact
  BY DEF JInv, Sound, Exact
<1> QED BY <1>1, <1>2, <1>3, PTL DEF Spec

-----------------------------------------------------------------------------
(* With torn writes *)

\* The open orders the journal doesn't list, and the inductive invariant: a line cut
\* short and not yet written on will cost one more.
Lost == open \ Unresolved
EndsCut == cut => file[Len(file)] = Garbled
Few == IsFiniteSet(Lost) /\ Cardinality(Lost) + (IF cut THEN 1 ELSE 0) <= torn
LInv == TypeOK /\ Unused /\ Listed /\ EndsCut /\ Few

\* What is written after a cut line is lost, and the file reads as before.
LEMMA AddToCut ==
    ASSUME TypeOK, EndsCut, cut, NEW line, Add(line)
    PROVE  file' = file /\ ~cut' /\ torn' = torn
<1>1. file' = [file EXCEPT ![Len(file)] = Garbled] /\ cut' = FALSE /\ torn' = torn
  BY DEF Add
<1>2. file \in Seq(Line) /\ file[Len(file)] = Garbled
  BY DEF TypeOK, EndsCut
<1>3. file' = file
  BY <1>1, <1>2
<1> QED BY <1>1, <1>3

\* The start of a line says nothing about any order.
LEMMA AddCutShort ==
    ASSUME TypeOK, EndsCut, AddFails
    PROVE  /\ \A j \in Ids : (In(Sent(j))' <=> In(Sent(j))) /\ (Known(j)' <=> Known(j))
           /\ EndsCut'
           /\ \/ UNCHANGED <<cut, torn>>
              \/ ~cut /\ cut' /\ torn' = torn + 1
<1>1. CASE UNCHANGED <<file, cut, torn>>
  BY <1>1, SameFile DEF EndsCut
<1>2. CASE ~cut /\ cut' = TRUE /\ torn' = torn + 1 /\ file' = Append(file, Garbled)
  <2>1. Garbled \in Line
    BY DEF Line
  <2>2. \A l : In(l)' <=> (In(l) \/ l = Garbled)
    BY <1>2, <2>1, InAppended
  <2>3. ASSUME NEW j \in Ids, NEW is \in SUBSET Ids
        PROVE  Sent(j) # Garbled /\ Done(j, "known") # Garbled /\ Cleared(is) # Garbled
    <3>1. /\ Sent(j).event = "send" /\ Done(j, "known").event = "done" /\ Cleared(is).event = "cleared"
          /\ Garbled.event = "garbled"
      BY DEF Sent, Done, Cleared, Garbled
    <3> QED BY <3>1
  <2>4. \A j \in Ids : (In(Sent(j))' <=> In(Sent(j))) /\ (Known(j)' <=> Known(j))
    BY <2>2, <2>3 DEF Known
  <2>5. file'[Len(file')] = Garbled
    BY <1>2, <2>1 DEF TypeOK
  <2> QED BY <1>2, <2>4, <2>5 DEF EndsCut
<1> QED BY <1>1, <1>2 DEF AddFails

\* Fewer lost orders on no fewer torn lines.
LEMMA FewerLost ==
    ASSUME TypeOK, Few, Lost' \subseteq Lost,
           \/ torn' = torn /\ (cut' => cut)
           \/ torn' = torn + 1 /\ ~cut
    PROVE  Few'
<1>1. IsFiniteSet(Lost) /\ Cardinality(Lost) \in Nat
  BY FS_CardinalityType DEF Few
<1>2. IsFiniteSet(Lost') /\ Cardinality(Lost') <= Cardinality(Lost) /\ Cardinality(Lost') \in Nat
  BY <1>1, FS_Subset, FS_CardinalityType
<1>3. torn \in Nat
  BY TornAssumption DEF TypeOK
<1> QED BY <1>1, <1>2, <1>3 DEF Few

LEMMA LostStep ==
    ASSUME LInv, [Next]_vars
    PROVE  LInv'
<1> USE DEF LInv
<1>0. TypeOK'
  BY TypeStep
<1>types. open \subseteq Ids /\ used \subseteq Ids /\ open' \subseteq Ids
  BY <1>0 DEF TypeOK
<1>lost. \A j : (j \in Lost <=> j \in open /\ ~(In(Sent(j)) /\ ~Known(j)))
                /\ (j \in Lost' <=> j \in open' /\ ~(In(Sent(j))' /\ ~Known(j)'))
  BY <1>types DEF Lost, Unresolved
<1>unused. \A j \in Ids \ used : ~In(Sent(j)) /\ ~Known(j)
  BY DEF Unused
<1> SUFFICES Unused' /\ Listed' /\ EndsCut' /\ Few'
  BY <1>0
\* A step that writes nothing, or only the start of a line.
<1>1. ASSUME AddFails \/ UNCHANGED <<file, cut, torn>>, open' = open, used \subseteq used', Listed'
      PROVE  Unused' /\ Listed' /\ EndsCut' /\ Few'
  <2>1. \A j \in Ids : (In(Sent(j))' <=> In(Sent(j))) /\ (Known(j)' <=> Known(j))
    BY <1>1, SameFile, AddCutShort
  <2>2. EndsCut' /\ (UNCHANGED <<cut, torn>> \/ (~cut /\ cut' /\ torn' = torn + 1))
    BY <1>1, AddCutShort DEF EndsCut
  <2>3. Lost' \subseteq Lost
    BY <1>1, <1>lost, <1>types, <2>1
  <2>4. Unused'
    BY <1>1, <1>unused, <2>1 DEF Unused
  <2> QED BY <1>1, <2>2, <2>3, <2>4, FewerLost
\* A step that writes a line: it is read from now on, or lost with the cut one.
<1>2. ASSUME NEW line \in Line, Add(line) PROVE ~cut' /\ EndsCut' /\ torn' = torn
  BY <1>2 DEF Add, EndsCut
<1>3. ASSUME NEW i \in Ids, Send(i) PROVE Unused' /\ Listed' /\ EndsCut' /\ Few'
  <2>1. Add(Sent(i)) /\ i \notin used /\ used' = used \cup {i} /\ open' = open \cup {i} /\ found' = found
    BY <1>3 DEF Send
  <2>2. ~cut' /\ EndsCut' /\ torn' = torn
    BY <1>2, <2>1, Kinds
  <2>3. Listed'
    BY <2>1 DEF Listed
  <2>4. CASE cut
    <3>1. \A j \in Ids : (In(Sent(j))' <=> In(Sent(j))) /\ (Known(j)' <=> Known(j))
      BY <2>1, <2>4, AddToCut, SameFile
    <3>2. Unused'
      BY <1>unused, <2>1, <3>1 DEF Unused
    <3>3. Lost' \subseteq Lost \cup {i}
      BY <1>lost, <1>types, <2>1, <3>1
    <3>4. IsFiniteSet(Lost \cup {i}) /\ Cardinality(Lost \cup {i}) <= Cardinality(Lost) + 1
          /\ Cardinality(Lost) \in Nat /\ Cardinality(Lost \cup {i}) \in Nat
      <4>1. IsFiniteSet(Lost) /\ Cardinality(Lost) \in Nat
        BY FS_CardinalityType DEF Few
      <4>2. /\ IsFiniteSet(Lost \cup {i})
            /\ Cardinality(Lost \cup {i}) = IF i \in Lost THEN Cardinality(Lost) ELSE Cardinality(Lost) + 1
        BY <4>1, FS_AddElement
      <4> QED BY <4>1, <4>2
    <3>5. IsFiniteSet(Lost') /\ Cardinality(Lost') <= Cardinality(Lost \cup {i}) /\ Cardinality(Lost') \in Nat
      BY <3>3, <3>4, FS_Subset, FS_CardinalityType
    <3>6. torn \in Nat
      BY TornAssumption DEF TypeOK
    <3>7. Few'
      BY <2>2, <2>4, <3>4, <3>5, <3>6 DEF Few
    <3> QED BY <2>2, <2>3, <3>2, <3>7
  <2>5. CASE ~cut
    <3>1. /\ \A j \in Ids : In(Sent(j))' <=> (In(Sent(j)) \/ j = i)
          /\ \A j \in Ids : Known(j)' <=> Known(j)
      BY <2>1, <2>5, AddSent
    <3>2. Unused'
      BY <1>unused, <2>1, <3>1 DEF Unused
    <3>3. Lost' \subseteq Lost
      BY <1>lost, <1>types, <1>unused, <2>1, <3>1
    <3> QED BY <2>2, <2>3, <3>2, <3>3, FewerLost
  <2> QED BY <2>4, <2>5
<1>4. ASSUME NEW s \in {"known", "unknown"}, Learn(s) PROVE Unused' /\ Listed' /\ EndsCut' /\ Few'
  <2>1. /\ order \in Ids /\ order \in used /\ Add(Done(order, s)) /\ UNCHANGED <<used, found>>
        /\ open' = IF s = "known" THEN open \ {order} ELSE open
    BY <1>4 DEF Learn, TypeOK
  <2>2. ~cut' /\ EndsCut' /\ torn' = torn
    BY <1>2, <2>1, Kinds
  <2>3. Listed'
    BY <2>1 DEF Listed
  <2>4. \/ \A j \in Ids : (In(Sent(j))' <=> In(Sent(j))) /\ (Known(j)' <=> Known(j))
        \/ /\ \A j \in Ids : In(Sent(j))' <=> In(Sent(j))
           /\ \A j \in Ids : Known(j)' <=> (Known(j) \/ (j = order /\ s = "known"))
    BY <2>1, AddToCut, SameFile, AddDone
  <2>5. Unused' /\ Lost' \subseteq Lost
    BY <1>lost, <1>types, <1>unused, <2>1, <2>4 DEF Unused
  <2> QED BY <2>2, <2>3, <2>5, FewerLost
<1>5. ASSUME ResumeApply PROVE Unused' /\ Listed' /\ EndsCut' /\ Few'
  <2>1. found \in SUBSET Ids /\ found \subseteq used /\ found' = None /\ used' = used /\ open' = open \ found
    BY <1>5 DEF ResumeApply, TypeOK, Listed
  <2>2. Listed'
    BY <2>1 DEF Listed
  <2>3. /\ EndsCut' /\ torn' = torn /\ (cut' => cut)
        /\ \/ \A j \in Ids : (In(Sent(j))' <=> In(Sent(j))) /\ (Known(j)' <=> Known(j))
           \/ /\ \A j \in Ids : In(Sent(j))' <=> In(Sent(j))
              /\ \A j \in Ids : Known(j)' <=> (Known(j) \/ j \in found)
    <3>1. CASE found = {}
      BY <1>5, <3>1, SameFile DEF ResumeApply, EndsCut
    <3>2. CASE found # {}
      <4>1. Add(Cleared(found)) /\ Cleared(found) \in Line
        BY <1>5, <2>1, <3>2 DEF ResumeApply, Line
      <4> QED BY <1>2, <2>1, <4>1, AddToCut, SameFile, AddCleared
    <3> QED BY <3>1, <3>2
  <2>4. Unused' /\ Lost' \subseteq Lost
    BY <1>lost, <1>types, <1>unused, <2>1, <2>3 DEF Unused
  <2> QED BY <2>2, <2>3, <2>4, FewerLost
<1>6. ASSUME NEW i \in Ids, SendFails(i) PROVE Unused' /\ Listed' /\ EndsCut' /\ Few'
  BY <1>1, <1>6 DEF SendFails, Listed
<1>7. ASSUME LearnFails \/ Crash \/ Restart PROVE Unused' /\ Listed' /\ EndsCut' /\ Few'
  BY <1>1, <1>7 DEF LearnFails, Crash, Restart, Listed
<1>8. ASSUME ResumeRead PROVE Unused' /\ Listed' /\ EndsCut' /\ Few'
  <2>1. Unresolved \subseteq used
    BY <1>unused DEF Unresolved
  <2> QED BY <1>1, <1>8, <2>1 DEF ResumeRead, Listed
<1>9. ASSUME ResumeFails \/ UNCHANGED vars PROVE Unused' /\ Listed' /\ EndsCut' /\ Few'
  BY <1>1, <1>9 DEF ResumeFails, vars, Listed
<1> QED BY <1>3, <1>4, <1>5, <1>6, <1>7, <1>8, <1>9 DEF Next

\* However many writes were torn, and however many orders were open when they were, each
\* keeps at most one open order out of what Journal.unresolved lists.
THEOREM CutsLoseFew == Spec => []EachCutLosesOne
<1>1. Init => LInv
  <2> SUFFICES ASSUME Init PROVE LInv
    OBVIOUS
  <2>1. \A l : ~In(l)
    BY DEF Init, In
  <2>2. TypeOK
    <3>1. file \in Seq(Line)
      BY DEF Init
    <3>2. cut \in BOOLEAN /\ (cut => file # <<>>) /\ up \in BOOLEAN /\ halted \in BOOLEAN
      BY DEF Init
    <3>3. /\ order \in used \cup {None} /\ found \in {None} \cup SUBSET Ids
          /\ used \subseteq Ids /\ open \subseteq used /\ torn \in 0..MaxTorn
      BY TornAssumption DEF Init
    <3> QED BY <3>1, <3>2, <3>3 DEF TypeOK
  <2>3. Lost = {}
    BY DEF Init, Lost
  <2>4. Few
    BY <2>3, FS_EmptySet DEF Init, Few
  <2> QED BY <2>1, <2>2, <2>4 DEF Init, LInv, Unused, Known, Listed, EndsCut
<1>2. LInv /\ [Next]_vars => LInv'
  BY LostStep
<1>3. LInv => EachCutLosesOne
  <2> SUFFICES ASSUME LInv PROVE EachCutLosesOne
    OBVIOUS
  <2>1. Cardinality(Lost) \in Nat /\ torn \in Nat
    BY FS_CardinalityType, TornAssumption DEF LInv, Few, TypeOK
  <2> QED BY <2>1 DEF LInv, Few, Lost, EachCutLosesOne
<1> QED BY <1>1, <1>2, <1>3, PTL DEF Spec

-----------------------------------------------------------------------------
(***************************************************************************)
(* Retention: the pruning of the raw history                               *)
(***************************************************************************)

\* A batch is only begun while the service runs: one that is under way when it stops is
\* the only one that is late.
RInv ==
    /\ late \in Nat /\ late <= 1
    /\ ~halt \/ at = "delete" => late = 0

LEMMA RStep ==
    ASSUME RInv, Pruned!Next \/ UNCHANGED history
    PROVE  RInv'
<1>1. CASE UNCHANGED <<halt, at, late>>
    BY <1>1 DEF RInv
<1>2. CASE Pruned!Halt
    BY <1>2 DEF Pruned!Halt, RInv
<1>3. CASE Pruned!Delete
    <2>1. late = 0 /\ late' \in {0, 1} /\ (~halt => late' = 0)
        BY <1>3 DEF Pruned!Delete, RInv
    <2> QED
        BY <1>3, <2>1 DEF Pruned!Delete, RInv
<1>4. CASE Pruned!Look
    BY <1>4 DEF Pruned!Look, Pruned!Going, RInv
<1>5. CASE Pruned!Begin \/ Pruned!Gone \/ Pruned!Trim \/ Pruned!DeleteFails \/ Pruned!Size
    BY <1>5 DEF Pruned!Begin, Pruned!Gone, Pruned!Trim, Pruned!DeleteFails, Pruned!Size, Pruned!Rests,
                Pruned!Trimming, RInv
<1> QED
    BY <1>1, <1>2, <1>3, <1>4, <1>5 DEF history, Pruned!Next, Pruned!PrunerStep, Pruned!prune, Pruned!Record,
       Pruned!Commit, Pruned!Close, Pruned!Enqueue, Pruned!Execute, Pruned!WriterCommits, Pruned!Tick

\* Once the service stops, at most one more batch is deleted, however long the queue and
\* whatever there is to prune (retention.Pruner).
THEOREM StopsInTime == MCSpec => [](part = "raw" => Pruned!StopsWithinABatch)
<1> DEFINE Inv == part = "raw" => RInv
<1>1. MCInit => Inv
    BY DEF MCInit, Pruned!Init, RInv
<1>2. Inv /\ [MCNext]_all => Inv'
    <2> SUFFICES ASSUME Inv, [MCNext]_all, part' = "raw" PROVE RInv'
        OBVIOUS
    <2>1. part = "raw" /\ (Pruned!Next \/ UNCHANGED history)
        BY DEF MCNext, all
    <2> QED
        BY <2>1, RStep
<1>3. Inv => (part = "raw" => Pruned!StopsWithinABatch)
    BY DEF RInv, Pruned!StopsWithinABatch
<1> QED
    BY <1>1, <1>2, <1>3, PTL DEF MCSpec

-----------------------------------------------------------------------------
(* Retention: what is deleted, and what is kept *)

\* A table's rows come in the order of their times, and their numbers have a last.
Grows(S) == \A r, q \in S : r.id <= q.id => r.ts <= q.ts
Ends(S) == \E b \in Nat : \A r \in S : r.id <= b
RowsFit == \A t \in Pruned!Tables : Grows(rows[t]) /\ Ends(rows[t]) /\ \A r \in rows[t] : r.ts <= now

\* What is committed comes before what is inserted, and that before what is queued, all of
\* it of this hour or the last.
TxnFits == \A k \in 1..Len(txn) :
    /\ now - 1 <= txn[k].ts /\ txn[k].ts <= now
    /\ \A j \in 1..k : txn[j].ts <= txn[k].ts
    /\ \A t \in Pruned!Tables : \A r \in rows[t] : r.ts <= txn[k].ts
QueueFits == \A k \in 1..Len(queue) : queue[k].op = "row" =>
    /\ now - 1 <= queue[k].ts /\ queue[k].ts <= now
    /\ \A j \in 1..k : queue[j].op = "row" => queue[j].ts <= queue[k].ts
    /\ \A j \in 1..Len(txn) : txn[j].ts <= queue[k].ts
    /\ \A t \in Pruned!Tables : \A r \in rows[t] : r.ts <= queue[k].ts

Trims == at \in {"trim", "look", "delete"}

\* What a pass deletes up to.
CutOff ==
    /\ pass.now <= now
    /\ Trims /\ pass.by = "keep" => setting.keep > 0 /\ pass.cut = pass.now - setting.keep
    /\ Trims /\ pass.by = "cap" => pass.cut <= pass.now - Floor

\* The end found for a table splits its rows by age, unless the pass has emptied it; then
\* what is left is new.
OldBelow(S) == (\E r \in S : pass.end <= r.id + 1) /\ \A r \in S : r.id < pass.end => r.ts < pass.cut
YoungAbove(S) == \A r \in S : r.id >= pass.end => r.ts >= pass.cut
Split ==
    at \in {"look", "delete"} =>
        /\ Head(pass.todo) \notin emptied => OldBelow(rows[Head(pass.todo)])
        /\ pass.by = "keep" => YoungAbove(rows[Head(pass.todo)])

\* What a pass is done with has no rows older than keep_raw_days.
Young(S) == \A r \in S : r.ts >= pass.now - setting.keep
Awaits(t) == Trims /\ pass.by = "keep" /\ t \in Pruned!ToSet(pass.todo)
DoneWith ==
    ~halt /\ setting.keep > 0 /\ at \notin {"rest", "gone"} => \A t \in Pruned!Tables : Awaits(t) \/ Young(rows[t])

HInv == Pruned!TypeOK /\ RowsFit /\ TxnFits /\ QueueFits /\ CutOff /\ Split /\ DoneWith

Kept == [id : Nat \ {0}, ts : Pruned!Times]
Items == Pruned!Rows \cup {Pruned!Mark, Pruned!StopMark}
Passes == [now : Pruned!Times, cut : Int, by : {"keep", "cap"}, todo : Seq(Pruned!Tables), end : Nat]

LEMMA RawConstants ==
    /\ Raw \in Seq(Pruned!Tables) /\ Pruned!ToSet(Raw) = Pruned!Tables
    /\ \A s \in Settings : s.keep \in Nat /\ s.cap \in Nat
    /\ Floor \in Nat \ {0} /\ Step \in Nat \ {0} /\ Batch \in Nat \ {0}
    /\ MaxNow \in Nat \ {0} /\ MaxQueue \in Nat \ {0}
<1>1. /\ Raw \in Seq(Nat) /\ Pruned!ToSet(Raw) = 1..Len(Raw)
      /\ Settings \subseteq [keep : Nat, cap : Nat]
      /\ {Floor, Step, Batch, MaxNow, MaxQueue} \subseteq Nat \ {0}
    BY RecordsAssumption DEF Pruned!SizesFit
<1>2. \A i \in 1..Len(Raw) : Raw[i] \in Pruned!Tables
    BY <1>1 DEF Pruned!ToSet, Pruned!Tables
<1>3. Raw \in Seq(Pruned!Tables)
    <2>1. Raw = [i \in 1..Len(Raw) |-> Raw[i]] /\ Len(Raw) \in Nat
        BY <1>1
    <2> QED
        BY <1>2, <2>1
<1> QED
    BY <1>1, <1>3 DEF Pruned!Tables

\* What the type invariant says of each variable.
LEMMA RawTypes ==
    ASSUME Pruned!TypeOK
    PROVE  /\ setting \in Settings /\ setting.keep \in Nat /\ setting.cap \in Nat
           /\ now \in Nat /\ now <= MaxNow
           /\ queue \in Seq(Items) /\ txn \in Seq(Pruned!Rows)
           /\ \A t \in Pruned!Tables : rows[t] \subseteq Kept
           /\ DOMAIN rows = Pruned!Tables
           /\ halt \in BOOLEAN /\ emptied \subseteq Pruned!Tables
           /\ pass \in Passes
           /\ pass.now \in Nat /\ pass.cut \in Int /\ pass.end \in Nat /\ pass.todo \in Seq(Pruned!Tables)
           /\ at \in {"look", "delete"} => Head(pass.todo) \in Pruned!Tables
<1>1. /\ setting \in Settings /\ now \in 0..MaxNow
      /\ queue \in Seq(Items) /\ txn \in Seq(Pruned!Rows)
      /\ \A t \in Pruned!Tables : rows[t] \subseteq Kept
      /\ DOMAIN rows = Pruned!Tables
      /\ halt \in BOOLEAN /\ emptied \subseteq Pruned!Tables
      /\ pass \in Passes
      /\ at \in {"look", "delete"} => pass.todo # <<>>
    BY DEF Pruned!TypeOK, Pruned!Times, Items, Kept, Passes
<1>2. pass.now \in 0..MaxNow /\ pass.cut \in Int /\ pass.end \in Nat /\ pass.todo \in Seq(Pruned!Tables)
    BY <1>1 DEF Pruned!Times, Passes
<1>3. pass.todo # <<>> => Head(pass.todo) \in Pruned!Tables
    BY <1>2
<1> QED
    BY <1>1, <1>2, <1>3, RawConstants

\* The rows with the first and the last number.
LEMMA Extremes ==
    ASSUME NEW S \in SUBSET Kept, S # {}, Ends(S)
    PROVE  /\ \E r \in S : r.id = Pruned!Min(Pruned!Numbers(S)) /\ \A q \in S : r.id <= q.id
           /\ \E r \in S : r.id = Pruned!Max(Pruned!Numbers(S)) /\ \A q \in S : q.id <= r.id
<1> DEFINE I == Pruned!Numbers(S)
<1>1. /\ I \in SUBSET Nat /\ I # {} /\ \A r \in S : r.id \in I
      /\ \A x \in I : \E r \in S : r.id = x
    BY DEF Pruned!Numbers, Kept
<1>2. PICK b \in Nat : \A r \in S : r.id <= b
    BY DEF Ends
<1>3. \A x \in I : x <= b
    BY <1>1, <1>2
<1> HIDE DEF I
<1>4. \E x \in I : \A y \in I : x <= y
    BY ONLY <1>1, HasLeast, Zenon
<1>5. \E x \in I : \A y \in I : y <= x
    BY ONLY <1>1, <1>2, <1>3, HasGreatest, Zenon
<1>6. Pruned!Min(I) \in I /\ \A y \in I : Pruned!Min(I) <= y
    BY <1>4 DEF Pruned!Min
<1>7. \E x \in I : \A y \in I : x >= y
    BY <1>1, <1>5
<1>8. Pruned!Max(I) \in I /\ \A y \in I : Pruned!Max(I) >= y
    BY <1>7 DEF Pruned!Max
<1>9. Pruned!Max(I) \in Nat /\ \A y \in I : y <= Pruned!Max(I)
    BY <1>1, <1>8
<1> QED
    BY <1>1, <1>6, <1>8, <1>9 DEF I

\* boundary splits a table by age.
LEMMA EndFound ==
    ASSUME Pruned!TypeOK, RowsFit, NEW t \in Pruned!Tables, rows[t] # {}, NEW c \in Int
    PROVE  LET end == Pruned!boundary(t, c)
           IN  /\ end \in Nat /\ \E r \in rows[t] : end <= r.id + 1
               /\ \A r \in rows[t] : (r.id < end => r.ts < c) /\ (r.id >= end => r.ts >= c)
<1> DEFINE S == rows[t]
           O == {r \in S : r.ts < c}
<1>1. S \in SUBSET Kept /\ Grows(S) /\ Ends(S) /\ S # {}
    BY RawTypes DEF RowsFit
<1>2. \A r \in S : r.id \in Nat \ {0} /\ r.ts \in Int
    BY <1>1 DEF Kept, Pruned!Times
<1>3. Pruned!boundary(t, c) = IF O = {} THEN Pruned!Min(Pruned!Numbers(S)) ELSE Pruned!Max(Pruned!Numbers(O)) + 1
    BY DEF Pruned!boundary, Pruned!First
<1>4. O \in SUBSET S /\ \A r \in S : r \in O <=> r.ts < c
    OBVIOUS
<1>5. O \in SUBSET Kept /\ Ends(O)
    BY <1>1, <1>4 DEF Ends
<1> HIDE DEF S, O
<1>6. CASE O = {}
    <2>1. PICK r \in S : r.id = Pruned!Min(Pruned!Numbers(S)) /\ \A q \in S : r.id <= q.id
        BY <1>1, Extremes
    <2>2. r.id = Pruned!boundary(t, c)
        BY <1>3, <1>6, <2>1
    <2>3. \A q \in S : ~(q.ts < c) /\ q.id >= r.id
        BY <1>2, <1>4, <1>6, <2>1
    <2> QED
        BY <1>2, <2>2, <2>3 DEF S
<1>7. CASE O # {}
    <2>1. PICK r \in O : r.id = Pruned!Max(Pruned!Numbers(O)) /\ \A q \in O : q.id <= r.id
        BY <1>5, <1>7, Extremes
    <2>2. r.id + 1 = Pruned!boundary(t, c) /\ r \in S /\ r.ts < c
        BY <1>3, <1>4, <1>7, <2>1
    <2>3. ASSUME NEW q \in S PROVE (q.id < r.id + 1 => q.ts < c) /\ (q.id >= r.id + 1 => q.ts >= c)
        <3>1. q.id <= r.id => q.ts <= r.ts
            BY <1>1, <2>2 DEF Grows
        <3>2. q.ts < c => q.id <= r.id
            BY <1>4, <2>1
        <3> QED
            BY <1>2, <2>2, <3>1, <3>2
    <2> QED
        BY <1>2, <2>2, <2>3 DEF S
<1> QED
    BY <1>6, <1>7

-----------------------------------------------------------------------------
\* The Pruner's steps but for a transaction of its own.

LEMMA SameStore ==
    ASSUME RowsFit, TxnFits, QueueFits, UNCHANGED <<now, queue, txn, rows>>
    PROVE  RowsFit' /\ TxnFits' /\ QueueFits'
BY DEF RowsFit, TxnFits, QueueFits, Grows, Ends

LEMMA PruneTypes ==
    ASSUME Pruned!TypeOK, UNCHANGED <<setting, now, queue, txn, writer, rows, late>>,
           halt' \in BOOLEAN, emptied' \subseteq Pruned!Tables,
           at' \in {"rest", "trim", "look", "delete", "size", "gone"},
           pass' \in Passes, at' \in {"look", "delete"} => pass'.todo # <<>>
    PROVE  Pruned!TypeOK'
BY DEF Pruned!TypeOK, Passes

LEMMA HeadAndTail ==
    ASSUME NEW q \in Seq(Pruned!Tables), q # <<>>
    PROVE  /\ Head(q) \in Pruned!Tables /\ Tail(q) \in Seq(Pruned!Tables)
           /\ \A u \in Pruned!ToSet(q) : u = Head(q) \/ u \in Pruned!ToSet(Tail(q))
<1>1. /\ Len(q) \in Nat \ {0} /\ Head(q) = q[1] /\ Tail(q) \in Seq(Pruned!Tables)
      /\ Len(Tail(q)) = Len(q) - 1 /\ \A i \in 1..Len(Tail(q)) : Tail(q)[i] = q[i + 1]
      /\ DOMAIN q = 1..Len(q) /\ DOMAIN Tail(q) = 1..Len(Tail(q)) /\ Head(q) \in Pruned!Tables
    OBVIOUS
<1>2. ASSUME NEW i \in 1..Len(q), i # 1 PROVE q[i] \in Pruned!ToSet(Tail(q))
    <2>1. i - 1 \in DOMAIN Tail(q) /\ Tail(q)[i - 1] = q[i]
        BY <1>1, <1>2
    <2> QED
        BY <2>1 DEF Pruned!ToSet
<1> QED
    BY <1>1, <1>2 DEF Pruned!ToSet

\* The oldest row has a time, if there is a row.
LEMMA OldestInTime ==
    ASSUME Pruned!TypeOK, Pruned!Firsts # {}
    PROVE  Pruned!oldest \in Nat
<1>1. Pruned!Firsts \in SUBSET Nat
    BY RawTypes DEF Pruned!Firsts, Kept, Pruned!Times
<1>2. \E x \in Pruned!Firsts : \A y \in Pruned!Firsts : x <= y
    BY ONLY <1>1, Pruned!Firsts # {}, HasLeast, Zenon
<1> QED
    BY <1>1, <1>2 DEF Pruned!oldest, Pruned!Min

LEMMA BeginStep ==
    ASSUME HInv, Pruned!Begin
    PROVE  HInv'
<1>1. /\ Pruned!TypeOK /\ RowsFit /\ TxnFits /\ QueueFits
      /\ at = "rest" /\ UNCHANGED <<setting, now, queue, txn, writer, rows, halt, emptied, late>>
      /\ setting.keep \in Nat /\ now \in Nat /\ now \in Pruned!Times /\ Raw \in Seq(Pruned!Tables)
    BY RawTypes, RawConstants DEF HInv, Pruned!Begin, Pruned!store, Pruned!TypeOK
<1>2. \/ /\ setting.keep > 0 /\ at' = "trim"
         /\ pass' = [now |-> now, cut |-> now - setting.keep, by |-> "keep", todo |-> Raw, end |-> 0]
      \/ /\ ~(setting.keep > 0) /\ at' = "size"
         /\ pass' = [now |-> now, cut |-> 0, by |-> "keep", todo |-> <<>>, end |-> 0]
    BY DEF Pruned!Begin, Pruned!Trimming, Pruned!NoPass
<1>3. pass' \in Passes
    <2>1. \A c \in Int, todo \in Seq(Pruned!Tables) :
              [now |-> now, cut |-> c, by |-> "keep", todo |-> todo, end |-> 0] \in Passes
        BY <1>1 DEF Passes
    <2>2. now - setting.keep \in Int /\ 0 \in Int /\ <<>> \in Seq(Pruned!Tables)
        BY <1>1
    <2>3. CASE setting.keep > 0
        BY <1>1, <1>2, <2>1, <2>2, <2>3
    <2>4. CASE ~(setting.keep > 0)
        <3>1. pass' = [now |-> now, cut |-> 0, by |-> "keep", todo |-> <<>>, end |-> 0]
            BY <1>2, <2>4, Zenon
        <3>2. [now |-> now, cut |-> 0, by |-> "keep", todo |-> <<>>, end |-> 0] \in Passes
            BY <2>1, <2>2, Zenon
        <3> QED
            BY <3>1, <3>2
    <2> QED
        BY <2>3, <2>4
<1>4. Pruned!TypeOK'
    BY <1>1, <1>2, <1>3, PruneTypes DEF Pruned!TypeOK
<1>5. RowsFit' /\ TxnFits' /\ QueueFits'
    BY <1>1, SameStore
<1>6. CutOff' /\ Split'
    BY <1>1, <1>2 DEF CutOff, Trims, Split
<1>7. DoneWith'
    <2>1. Pruned!ToSet(Raw) = Pruned!Tables
        BY RawConstants
    <2>2. CASE setting.keep > 0
        <3>1. \A t \in Pruned!Tables : Awaits(t)'
            BY <1>1, <1>2, <2>1, <2>2 DEF Awaits, Trims
        <3> QED
            BY <3>1 DEF DoneWith, Pruned!Tables
    <2> QED
        BY <1>1, <2>2 DEF DoneWith
<1> QED
    BY <1>4, <1>5, <1>6, <1>7 DEF HInv

LEMMA TrimStep ==
    ASSUME HInv, Pruned!Trim
    PROVE  HInv'
<1>1. /\ Pruned!TypeOK /\ RowsFit /\ TxnFits /\ QueueFits /\ CutOff /\ DoneWith
      /\ at = "trim" /\ UNCHANGED <<setting, now, queue, txn, writer, rows, halt, emptied, late>>
      /\ pass \in Passes /\ pass.todo \in Seq(Pruned!Tables)
    BY RawTypes DEF HInv, Pruned!Trim, Pruned!store
<1>2. RowsFit' /\ TxnFits' /\ QueueFits'
    BY <1>1, SameStore
<1>3. CASE pass.todo = <<>>
    <2>1. at' = "size" /\ pass' = pass
        BY <1>3 DEF Pruned!Trim
    <2>2. Pruned!TypeOK'
        BY <1>1, <2>1, PruneTypes DEF Pruned!TypeOK
    <2>3. CutOff' /\ Split'
        BY <1>1, <2>1 DEF CutOff, Trims, Split
    <2>4. \A t : ~Awaits(t)
        BY <1>3 DEF Awaits, Pruned!ToSet
    <2>5. DoneWith'
        BY <1>1, <2>1, <2>4 DEF DoneWith, Young
    <2> QED
        BY <1>2, <2>2, <2>3, <2>5 DEF HInv
<1>4. CASE pass.todo # <<>> /\ (rows[Head(pass.todo)] = {} \/ halt)
    <2>1. at' = "trim" /\ pass' = [pass EXCEPT !.todo = Tail(@)]
        BY <1>1, <1>4 DEF Pruned!Trim
    <2>2. /\ pass' \in Passes /\ pass'.todo = Tail(pass.todo)
          /\ pass'.now = pass.now /\ pass'.cut = pass.cut /\ pass'.by = pass.by
        BY <1>1, <1>4, <2>1, HeadAndTail DEF Passes
    <2>3. Pruned!TypeOK'
        BY <1>1, <2>1, <2>2, PruneTypes DEF Pruned!TypeOK
    <2>4. CutOff' /\ Split'
        BY <1>1, <2>1, <2>2 DEF CutOff, Trims, Split
    <2>5. ~halt => \A t \in Pruned!Tables : Awaits(t) => Awaits(t)' \/ Young(rows[t])'
        BY <1>1, <1>4, <2>1, <2>2, HeadAndTail DEF Awaits, Trims, Young
    <2>6. \A t \in Pruned!Tables : Young(rows[t]) => Young(rows[t])'
        BY <1>1, <2>2 DEF Young
    <2>7. DoneWith'
        BY <1>1, <2>1, <2>5, <2>6 DEF DoneWith, Pruned!Tables
    <2> QED
        BY <1>2, <2>3, <2>4, <2>7 DEF HInv
<1>5. CASE pass.todo # <<>> /\ rows[Head(pass.todo)] # {} /\ ~halt
    <2> DEFINE t == Head(pass.todo)
               end == Pruned!boundary(t, pass.cut)
    <2>1. at' = "look" /\ pass' = [pass EXCEPT !.end = end]
        BY <1>1, <1>5 DEF Pruned!Trim
    <2>2. /\ end \in Nat /\ \E r \in rows[t] : end <= r.id + 1
          /\ \A r \in rows[t] : (r.id < end => r.ts < pass.cut) /\ (r.id >= end => r.ts >= pass.cut)
        <3>1. t \in Pruned!Tables /\ rows[t] # {} /\ pass.cut \in Int
            BY <1>1, <1>5, HeadAndTail, RawTypes
        <3> QED
            BY <1>1, <3>1, EndFound
    <2> HIDE DEF end
    <2>3. /\ pass' \in Passes /\ pass'.todo = pass.todo /\ pass'.end = end
          /\ pass'.now = pass.now /\ pass'.cut = pass.cut /\ pass'.by = pass.by
        BY <1>1, <2>1, <2>2 DEF Passes
    <2>4. Pruned!TypeOK'
        BY <1>1, <1>5, <2>1, <2>3, PruneTypes DEF Pruned!TypeOK
    <2>5. CutOff'
        BY <1>1, <2>1, <2>3 DEF CutOff, Trims
    <2>6. Split'
        BY <1>1, <2>2, <2>3 DEF Split, OldBelow, YoungAbove
    <2>7. \A u \in Pruned!Tables : (Awaits(u) => Awaits(u)') /\ (Young(rows[u]) => Young(rows[u])')
        BY <1>1, <2>1, <2>3 DEF Awaits, Trims, Young
    <2>8. DoneWith'
        BY <1>1, <2>1, <2>7 DEF DoneWith, Pruned!Tables
    <2> QED
        BY <1>2, <2>4, <2>5, <2>6, <2>8 DEF HInv
<1> QED
    BY <1>3, <1>4, <1>5

LEMMA LookStep ==
    ASSUME HInv, Pruned!Look
    PROVE  HInv'
<1> DEFINE t == Head(pass.todo)
<1>1. /\ Pruned!TypeOK /\ RowsFit /\ TxnFits /\ QueueFits /\ CutOff /\ DoneWith /\ Split
      /\ at = "look" /\ UNCHANGED <<setting, now, queue, txn, writer, rows, halt, emptied, late>>
      /\ pass \in Passes /\ pass.todo \in Seq(Pruned!Tables) /\ pass.todo # <<>>
      /\ t \in Pruned!Tables /\ rows[t] \subseteq Kept /\ Ends(rows[t])
      /\ pass.end \in Nat
    BY RawTypes DEF HInv, Pruned!Look, Pruned!store, Pruned!TypeOK, RowsFit
<1>2. RowsFit' /\ TxnFits' /\ QueueFits'
    BY <1>1, SameStore
<1>3. CASE Pruned!Going(t)
    <2>1. at' = "delete" /\ pass' = pass
        BY <1>3 DEF Pruned!Look
    <2>2. Pruned!TypeOK'
        BY <1>1, <2>1, PruneTypes DEF Pruned!TypeOK
    <2>3. CutOff' /\ Split'
        BY <1>1, <2>1 DEF CutOff, Trims, Split, OldBelow, YoungAbove
    <2>4. \A u \in Pruned!Tables : (Awaits(u) => Awaits(u)') /\ (Young(rows[u]) => Young(rows[u])')
        BY <1>1, <2>1 DEF Awaits, Trims, Young
    <2>5. DoneWith'
        BY <1>1, <2>1, <2>4 DEF DoneWith, Pruned!Tables
    <2> QED
        BY <1>2, <2>2, <2>3, <2>5 DEF HInv
<1>4. CASE ~Pruned!Going(t)
    <2>1. at' = "trim" /\ pass' = [pass EXCEPT !.todo = Tail(@), !.end = 0]
        BY <1>1, <1>4 DEF Pruned!Look
    <2>2. /\ pass' \in Passes /\ pass'.todo = Tail(pass.todo)
          /\ pass'.now = pass.now /\ pass'.cut = pass.cut /\ pass'.by = pass.by
        BY <1>1, <2>1, HeadAndTail DEF Passes
    <2>3. Pruned!TypeOK'
        BY <1>1, <2>1, <2>2, PruneTypes DEF Pruned!TypeOK
    <2>4. CutOff' /\ Split'
        BY <1>1, <2>1, <2>2 DEF CutOff, Trims, Split
    \* It leaves the table only if it is empty, or its first row, and with it all, is at the
    \* end it was looking for.
    <2>5. ~halt => \A r \in rows[t] : r.id >= pass.end
        <3>1. SUFFICES ASSUME ~halt, NEW q \in rows[t] PROVE q.id >= pass.end
            OBVIOUS
        <3>2. ~(Pruned!First(t) < pass.end)
            BY <1>4, <3>1 DEF Pruned!Going
        <3>3. PICK r \in rows[t] : r.id = Pruned!First(t) /\ \A s \in rows[t] : r.id <= s.id
            BY <1>1, <3>1, Extremes DEF Pruned!First
        <3>4. r.id \in Nat /\ q.id \in Nat /\ r.id <= q.id
            BY <1>1, <3>1, <3>3 DEF Kept
        <3> QED
            BY <1>1, <3>2, <3>3, <3>4
    <2>6. ~halt /\ pass.by = "keep" => Young(rows[t])
        BY <1>1, <2>5 DEF Split, YoungAbove, CutOff, Trims, Young
    <2>7. \A u \in Pruned!Tables : Awaits(u) => Awaits(u)' \/ (u = t /\ pass.by = "keep")
        BY <1>1, <2>1, <2>2, HeadAndTail DEF Awaits, Trims
    <2>8. \A u \in Pruned!Tables : Young(rows[u]) => Young(rows[u])'
        BY <1>1, <2>2 DEF Young
    <2>9. DoneWith'
        BY <1>1, <2>1, <2>6, <2>7, <2>8 DEF DoneWith, Pruned!Tables
    <2> QED
        BY <1>2, <2>3, <2>4, <2>9 DEF HInv
<1> QED
    BY <1>3, <1>4

LEMMA SizeStep ==
    ASSUME HInv, Pruned!Size
    PROVE  HInv'
<1>1. /\ Pruned!TypeOK /\ RowsFit /\ TxnFits /\ QueueFits /\ CutOff /\ DoneWith
      /\ at = "size" /\ UNCHANGED <<setting, now, queue, txn, writer, rows, halt, late>>
      /\ pass \in Passes /\ emptied \subseteq Pruned!Tables /\ Raw \in Seq(Pruned!Tables)
    BY RawTypes, RawConstants DEF HInv, Pruned!Size, Pruned!store
<1>2. RowsFit' /\ TxnFits' /\ QueueFits'
    BY <1>1, SameStore
<1>3. CASE Pruned!OverCap
    <2>1. /\ at' = "trim" /\ pass' = [pass EXCEPT !.cut = Pruned!NextHour, !.by = "cap", !.todo = Raw]
          /\ emptied' = emptied /\ Pruned!NextHour <= pass.now - Floor /\ Pruned!Firsts # {}
        BY <1>3 DEF Pruned!Size, Pruned!Trimming, Pruned!OverCap
    <2>2. Pruned!NextHour \in Int
        BY <1>1, <2>1, OldestInTime, RawConstants DEF Pruned!NextHour
    <2>3. /\ pass' \in Passes /\ pass'.todo = Raw
          /\ pass'.now = pass.now /\ pass'.cut = Pruned!NextHour /\ pass'.by = "cap"
        BY <1>1, <2>1, <2>2 DEF Passes
    <2>4. Pruned!TypeOK'
        BY <1>1, <2>1, <2>3, PruneTypes DEF Pruned!TypeOK
    <2>5. CutOff' /\ Split'
        BY <1>1, <2>1, <2>3 DEF CutOff, Trims, Split
    <2>6. \A u \in Pruned!Tables : ~Awaits(u) /\ (Young(rows[u]) => Young(rows[u])')
        BY <1>1, <2>3 DEF Awaits, Trims, Young
    <2>7. DoneWith'
        BY <1>1, <2>1, <2>6 DEF DoneWith, Pruned!Tables
    <2> QED
        BY <1>2, <2>4, <2>5, <2>7 DEF HInv
<1>4. CASE ~Pruned!OverCap
    <2>1. at' = "rest" /\ pass' = Pruned!NoPass /\ emptied' = {}
        BY <1>4 DEF Pruned!Size, Pruned!Rests
    <2>2. pass' \in Passes /\ pass'.now = 0
        BY <1>1, <2>1, RawConstants DEF Passes, Pruned!NoPass, Pruned!Times
    <2>3. Pruned!TypeOK'
        BY <1>1, <2>1, <2>2, PruneTypes DEF Pruned!TypeOK
    <2>4. CutOff' /\ Split' /\ DoneWith'
        BY <1>1, <2>1, <2>2, RawTypes DEF CutOff, Trims, Split, DoneWith
    <2> QED
        BY <1>2, <2>3, <2>4 DEF HInv
<1> QED
    BY <1>3, <1>4

LEMMA OtherPrunerStep ==
    ASSUME HInv, Pruned!Halt \/ Pruned!Gone \/ Pruned!DeleteFails
    PROVE  HInv'
<1>1. /\ Pruned!TypeOK /\ RowsFit /\ TxnFits /\ QueueFits /\ CutOff /\ DoneWith /\ Split
      /\ UNCHANGED <<setting, now, queue, txn, writer, rows, late>>
      /\ pass \in Passes /\ emptied \subseteq Pruned!Tables /\ halt \in BOOLEAN
    BY RawTypes DEF HInv, Pruned!Halt, Pruned!Gone, Pruned!DeleteFails, Pruned!store
<1>2. RowsFit' /\ TxnFits' /\ QueueFits'
    BY <1>1, SameStore
<1>3. CASE Pruned!Halt
    <2>1. halt' = TRUE /\ UNCHANGED <<at, pass, emptied>>
        BY <1>3 DEF Pruned!Halt
    <2>2. Pruned!TypeOK'
        BY <1>1, <2>1, PruneTypes DEF Pruned!TypeOK
    <2>3. CutOff' /\ Split' /\ DoneWith'
        BY <1>1, <2>1 DEF CutOff, Trims, Split, DoneWith, OldBelow, YoungAbove
    <2> QED
        BY <1>2, <2>2, <2>3 DEF HInv
<1>4. CASE Pruned!Gone
    <2>1. at' = "gone" /\ at = "rest" /\ UNCHANGED <<halt, pass, emptied>>
        BY <1>4 DEF Pruned!Gone
    <2>2. Pruned!TypeOK'
        BY <1>1, <2>1, PruneTypes DEF Pruned!TypeOK
    <2>3. CutOff' /\ Split' /\ DoneWith'
        BY <1>1, <2>1 DEF CutOff, Trims, Split, DoneWith
    <2> QED
        BY <1>2, <2>2, <2>3 DEF HInv
<1>5. CASE Pruned!DeleteFails
    <2>1. at' = "rest" /\ pass' = Pruned!NoPass /\ emptied' = {} /\ halt' = halt
        BY <1>5 DEF Pruned!DeleteFails, Pruned!Rests
    <2>2. pass' \in Passes /\ pass'.now = 0
        BY <1>1, <2>1, RawConstants DEF Passes, Pruned!NoPass, Pruned!Times
    <2>3. Pruned!TypeOK'
        BY <1>1, <2>1, <2>2, PruneTypes DEF Pruned!TypeOK
    <2>4. CutOff' /\ Split' /\ DoneWith'
        BY <1>1, <2>1, <2>2, RawTypes DEF CutOff, Trims, Split, DoneWith
    <2> QED
        BY <1>2, <2>3, <2>4 DEF HInv
<1> QED
    BY <1>3, <1>4, <1>5

\* A batch deletes rows below the end found, and at least the first of them.
LEMMA DeleteStep ==
    ASSUME HInv, Pruned!Delete
    PROVE  /\ HInv'
           /\ \A t \in Pruned!Tables \ emptied : \A r \in rows[t] \ rows'[t] : Pruned!Old(r)
<1> DEFINE t == Head(pass.todo)
           S == rows[t]
           upto == Pruned!Upto(t)
           T == {r \in S : r.id >= upto}
<1>1. /\ Pruned!TypeOK /\ RowsFit /\ TxnFits /\ QueueFits /\ CutOff /\ DoneWith /\ Split
      /\ at = "delete" /\ at' = "look"
      /\ UNCHANGED <<setting, now, queue, txn, writer, halt, pass>>
      /\ rows' = [rows EXCEPT ![t] = T]
      /\ emptied' = (IF rows'[t] = {} THEN emptied \cup {t} ELSE emptied)
      /\ late' \in Nat
    BY DEF HInv, Pruned!Delete, Pruned!store, Pruned!TypeOK
<1>2. /\ pass \in Passes /\ t \in Pruned!Tables /\ pass.end \in Nat /\ pass.now \in Nat /\ pass.cut \in Int
      /\ DOMAIN rows = Pruned!Tables /\ \A u \in Pruned!Tables : rows[u] \subseteq Kept
      /\ setting.keep \in Nat /\ Floor \in Nat /\ emptied \subseteq Pruned!Tables
    BY <1>1, RawTypes, RawConstants
<1>3. /\ DOMAIN rows' = Pruned!Tables /\ rows'[t] = T /\ \A u \in Pruned!Tables \ {t} : rows'[u] = rows[u]
      /\ \A u \in Pruned!Tables : rows'[u] \subseteq rows[u]
    BY <1>1, <1>2
<1>4. \A r \in S : r.id \in Nat /\ r.ts \in Nat
    BY <1>2 DEF Kept, Pruned!Times
<1>5. S # {} => upto \in Int /\ upto <= pass.end
    <2>1. SUFFICES ASSUME S # {} PROVE upto \in Int /\ upto <= pass.end
        OBVIOUS
    <2>2. Ends(S) /\ S \in SUBSET Kept
        BY <1>1, <1>2 DEF RowsFit
    <2>3. PICK q \in S : q.id = Pruned!First(t)
        BY <2>1, <2>2, Extremes DEF Pruned!First
    <2>4. upto = IF q.id + Batch < pass.end THEN q.id + Batch ELSE pass.end
        BY <2>3 DEF Pruned!Upto
    <2> QED
        BY <1>2, <1>4, <2>3, <2>4, RawConstants
<1>6. \A r \in T : r \in S
    OBVIOUS
<1>7. Pruned!TypeOK'
    <2>1. \A u \in Pruned!Tables : rows'[u] \subseteq [id : Nat \ {0}, ts : Pruned!Times]
        BY <1>2, <1>3 DEF Kept
    <2>2. emptied' \subseteq Pruned!Tables
        BY <1>1, <1>2
    <2> QED
        BY <1>1, <1>3, <2>1, <2>2 DEF Pruned!TypeOK
<1>8. RowsFit'
    <2>1. ASSUME NEW u \in Pruned!Tables
          PROVE  Grows(rows'[u]) /\ Ends(rows'[u]) /\ \A r \in rows'[u] : r.ts <= now'
        <3>1. Grows(rows[u]) /\ Ends(rows[u]) /\ \A r \in rows[u] : r.ts <= now
            BY <1>1 DEF RowsFit
        <3>2. rows'[u] \subseteq rows[u] /\ now' = now
            BY <1>1, <1>3
        <3> QED
            BY <3>1, <3>2 DEF Grows, Ends
    <2> QED
        BY <2>1 DEF RowsFit, Pruned!Tables, Grows, Ends
<1>9. TxnFits' /\ QueueFits'
    BY <1>1, <1>3 DEF TxnFits, QueueFits, Pruned!Tables
<1>10. CutOff'
    BY <1>1 DEF CutOff, Trims
\* What goes is below the end found.
<1>11. ASSUME NEW r \in S, r \notin T PROVE r.id < upto /\ r.id < pass.end
    <2>1. ~(r.id >= upto)
        BY <1>11
    <2> QED
        BY <1>2, <1>4, <1>5, <2>1
<1>12. ASSUME NEW u \in Pruned!Tables \ emptied, NEW r \in rows[u] \ rows'[u] PROVE Pruned!Old(r)
    <2>1. u = t /\ r \in S /\ r \notin T
        BY <1>3
    <2>2. r.id < pass.end
        BY <1>11, <2>1
    <2>3. r.ts < pass.cut
        BY <1>1, <2>1, <2>2 DEF Split, OldBelow
    <2>4. pass.by \in {"keep", "cap"}
        BY <1>2 DEF Passes
    <2>5. CASE pass.by = "keep"
        <3>1. pass.cut = pass.now - setting.keep
            BY <1>1, <2>5 DEF CutOff, Trims
        <3> QED
            BY <2>3, <2>5, <3>1 DEF Pruned!Old
    <2>6. CASE pass.by = "cap"
        <3>1. pass.cut <= pass.now - Floor
            BY <1>1, <2>6 DEF CutOff, Trims
        <3>2. r.ts < pass.now - Floor
            BY <1>2, <1>4, <2>1, <2>3, <3>1
        <3> QED
            BY <2>3, <2>6, <3>2 DEF Pruned!Old
    <2> QED
        BY <2>4, <2>5, <2>6
<1>13. Split'
    <2>1. pass.by = "keep" => YoungAbove(rows'[t])
        BY <1>1, <1>3, <1>6 DEF Split, YoungAbove
    <2>2. ASSUME t \notin emptied' PROVE OldBelow(rows'[t])
        <3>1. t \notin emptied /\ T # {}
            BY <1>1, <1>3, <2>2
        <3>2. /\ \E r \in S : pass.end <= r.id + 1
              /\ \A r \in S : r.id < pass.end => r.ts < pass.cut
            BY <1>1, <3>1 DEF Split, OldBelow
        <3>3. PICK q \in T : TRUE
            BY <3>1
        <3>4. PICK r \in S : pass.end <= r.id + 1
            BY <3>2
        <3>5. \E s \in T : pass.end <= s.id + 1
            <4>1. CASE r \in T
                BY <3>4, <4>1
            <4>2. CASE r \notin T
                <5>1. r.id < upto /\ r.id < pass.end /\ q.id >= upto /\ q.id \in Nat /\ r.id \in Nat
                    BY <1>4, <1>11, <3>3, <4>2
                <5>2. pass.end <= q.id + 1
                    BY <1>2, <1>5, <3>4, <5>1
                <5> QED
                    BY <3>3, <5>2
            <4> QED
                BY <4>1, <4>2
        <3>6. \A s \in T : s.id < pass.end => s.ts < pass.cut
            BY <1>6, <3>2
        <3> QED
            BY <1>1, <1>3, <3>5, <3>6 DEF OldBelow
    <2> QED
        BY <1>1, <2>1, <2>2 DEF Split, OldBelow, YoungAbove
<1>14. DoneWith'
    <2>1. \A u \in Pruned!Tables : (Awaits(u) => Awaits(u)')
        BY <1>1 DEF Awaits, Trims
    <2>2. \A u \in Pruned!Tables : (Young(rows[u]) => Young(rows[u])')
        BY <1>1, <1>3 DEF Young
    <2> QED
        BY <1>1, <2>1, <2>2 DEF DoneWith, Pruned!Tables
<1> QED
    BY <1>7, <1>8, <1>9, <1>10, <1>12, <1>13, <1>14 DEF HInv

-----------------------------------------------------------------------------
\* The DbWriter's steps, and an hour.

Rank(t, k) == Pruned!Cardinality(Pruned!Of(t, k - 1))

\* The rows of a transaction for a table are numbered in their order.
LEMMA Ranks ==
    ASSUME NEW t, NEW k \in Nat \ {0}
    PROVE  /\ Rank(t, k) \in Nat /\ Rank(t, k) < k
           /\ \A j \in Pruned!Of(t, k - 1) : Rank(t, j) < Rank(t, k)
<1> DEFINE C(i) == Pruned!Of(t, i - 1)
<1>1. \A S : Pruned!Cardinality(S) = Cardinality(S)
    BY DEF Pruned!Cardinality, Cardinality
<1>2. \A i \in Nat \ {0} : Rank(t, i) = Cardinality(C(i))
    BY <1>1 DEF Rank
<1>3. ASSUME NEW i \in Nat \ {0}
      PROVE  IsFiniteSet(C(i)) /\ Cardinality(C(i)) \in Nat /\ Cardinality(C(i)) < i
    <2>1. IsFiniteSet(1..(i - 1)) /\ Cardinality(1..(i - 1)) = i - 1
        BY FS_Interval
    <2>2. C(i) \in SUBSET (1..(i - 1))
        BY DEF Pruned!Of
    <2> HIDE DEF C
    <2>3. IsFiniteSet(C(i)) /\ Cardinality(C(i)) <= i - 1 /\ Cardinality(C(i)) \in Nat
        BY <2>1, <2>2, FS_Subset, FS_CardinalityType
    <2> QED
        BY <2>3
<1>4. ASSUME NEW j \in C(k) PROVE Rank(t, j) < Rank(t, k)
    <2>1. j \in Nat \ {0} /\ j \notin C(j) /\ C(j) \cup {j} \in SUBSET C(k)
        BY <1>4 DEF Pruned!Of
    <2> HIDE DEF C
    <2>2. IsFiniteSet(C(j)) /\ Cardinality(C(j)) \in Nat /\ IsFiniteSet(C(k)) /\ Cardinality(C(k)) \in Nat
        BY <1>3, <2>1
    <2>3. Cardinality(C(j) \cup {j}) = Cardinality(C(j)) + 1
        BY <2>1, <2>2, FS_AddElement
    <2>4. Cardinality(C(j) \cup {j}) <= Cardinality(C(k))
        BY <2>1, <2>2, FS_Subset
    <2> QED
        BY <1>2, <2>1, <2>2, <2>3, <2>4
<1> QED
    BY <1>2, <1>3, <1>4

\* What a commit adds to a table comes after all that is in it.
Later(S, T) ==
    /\ S \subseteq T
    /\ \A r \in T \ S : r.ts >= now - 1 /\ \A q \in S : q.id < r.id

LEMMA NumberedOn ==
    ASSUME Pruned!TypeOK, RowsFit, NEW t \in Pruned!Tables
    PROVE  Pruned!NextId(t) \in Nat \ {0} /\ \A r \in rows[t] : r.id < Pruned!NextId(t)
<1>1. rows[t] \in SUBSET Kept /\ Ends(rows[t])
    BY RawTypes DEF RowsFit
<1>2. CASE rows[t] = {}
    BY <1>2 DEF Pruned!NextId
<1>3. CASE rows[t] # {}
    <2>1. PICK r \in rows[t] : r.id = Pruned!Max(Pruned!Numbers(rows[t])) /\ \A q \in rows[t] : q.id <= r.id
        BY <1>1, <1>3, Extremes
    <2>2. Pruned!NextId(t) = r.id + 1
        BY <1>3, <2>1 DEF Pruned!NextId
    <2>3. \A q \in rows[t] : q.id \in Nat
        BY <1>1 DEF Kept
    <2> QED
        BY <2>1, <2>2, <2>3
<1> QED
    BY <1>2, <1>3

LEMMA InsertedRows ==
    ASSUME Pruned!TypeOK, RowsFit, TxnFits, NEW t \in Pruned!Tables
    PROVE  LET T == Pruned!Inserted(t)
           IN  /\ T \subseteq Kept /\ Grows(T) /\ Ends(T) /\ Later(rows[t], T)
               /\ \A r \in T : r \in rows[t] \/ \E k \in 1..Len(txn) : r.ts = txn[k].ts
               /\ \A r \in T : r.ts <= now
<1> DEFINE S == rows[t]
           N == Pruned!NextId(t)
           O == Pruned!Of(t, Len(txn))
           New(k) == [id |-> N + Rank(t, k), ts |-> txn[k].ts]
           T == Pruned!Inserted(t)
<1>1. /\ S \in SUBSET Kept /\ Grows(S) /\ Ends(S) /\ \A r \in S : r.ts <= now
      /\ now \in Nat /\ txn \in Seq(Pruned!Rows) /\ Len(txn) \in Nat
    BY RawTypes DEF RowsFit
<1>2. \A r \in S : r.id \in Nat \ {0} /\ r.ts \in Nat
    BY <1>1 DEF Kept, Pruned!Times
<1>3. N \in Nat \ {0} /\ \A r \in S : r.id < N
    BY NumberedOn
<1>4. ASSUME NEW k \in 1..Len(txn)
      PROVE  /\ txn[k].ts \in Pruned!Times /\ txn[k].ts \in Nat /\ now - 1 <= txn[k].ts /\ txn[k].ts <= now
             /\ \A j \in 1..k : txn[j].ts <= txn[k].ts
             /\ \A r \in S : r.ts <= txn[k].ts
    <2>1. txn[k] \in Pruned!Rows
        BY <1>1
    <2>2. txn[k].ts \in Pruned!Times /\ txn[k].ts \in Nat
        BY <2>1 DEF Pruned!Rows, Pruned!Times
    <2> QED
        BY <2>2 DEF TxnFits
<1>5. T = S \cup {New(k) : k \in O}
    BY DEF Pruned!Inserted, Rank
<1>6. \A k \in O : k \in 1..Len(txn) /\ \A j \in O : j < k => j \in Pruned!Of(t, k - 1)
    BY <1>1 DEF Pruned!Of
<1>7. \A k \in O : /\ New(k).id = N + Rank(t, k) /\ New(k).ts = txn[k].ts
                   /\ Rank(t, k) \in Nat /\ Rank(t, k) < k /\ \A j \in O : j < k => Rank(t, j) < Rank(t, k)
    BY <1>1, <1>6, Ranks
<1>8. \A k \in O : New(k) \in Kept
    BY <1>3, <1>4, <1>6, <1>7 DEF Kept
<1> HIDE DEF S, N, O, New, T
<1>9. T \subseteq Kept
    BY <1>1, <1>5, <1>8
<1>10. Grows(T)
    <2>1. SUFFICES ASSUME NEW r \in T, NEW q \in T, r.id <= q.id PROVE r.ts <= q.ts
        BY DEF Grows
    <2>2. CASE r \in S /\ q \in S
        BY <1>1, <2>1, <2>2 DEF Grows
    <2>3. CASE r \in S /\ q \notin S
        <3>1. PICK k \in O : q = New(k)
            BY <1>5, <2>3
        <3> QED
            BY <1>4, <1>6, <1>7, <2>3, <3>1
    <2>4. CASE r \notin S /\ q \in S
        <3>1. PICK k \in O : r = New(k)
            BY <1>5, <2>4
        <3>2. q.id < N /\ r.id = N + Rank(t, k) /\ Rank(t, k) \in Nat /\ q.id \in Nat
            BY <1>2, <1>3, <1>7, <2>4, <3>1
        <3> QED
            BY <1>3, <2>1, <3>2
    <2>5. CASE r \notin S /\ q \notin S
        <3>1. PICK j \in O : r = New(j)
            BY <1>5, <2>5
        <3>2. PICK k \in O : q = New(k)
            BY <1>5, <2>5
        <3>3. j \in Nat /\ k \in Nat /\ Rank(t, j) \in Nat /\ Rank(t, k) \in Nat
              /\ N + Rank(t, j) <= N + Rank(t, k)
            BY <1>1, <1>6, <1>7, <2>1, <3>1, <3>2
        <3>4. ~(k < j)
            BY <1>3, <1>7, <3>3
        <3>5. j \in 1..k
            BY <1>1, <1>6, <3>3, <3>4
        <3> QED
            BY <1>4, <1>6, <1>7, <3>1, <3>2, <3>5
    <2> QED
        BY <2>2, <2>3, <2>4, <2>5
<1>11. Ends(T)
    <2>1. ASSUME NEW r \in T PROVE r.id <= N + Len(txn)
        <3>1. CASE r \in S
            BY <1>1, <1>2, <1>3, <3>1
        <3>2. CASE r \notin S
            <4>1. PICK k \in O : r = New(k)
                BY <1>5, <3>2
            <4>2. k \in Nat /\ k <= Len(txn) /\ r.id = N + Rank(t, k) /\ Rank(t, k) \in Nat /\ Rank(t, k) < k
                BY <1>1, <1>6, <1>7, <4>1
            <4> QED
                BY <1>1, <1>3, <4>2
        <3> QED
            BY <3>1, <3>2
    <2> QED
        BY <1>1, <1>3, <2>1 DEF Ends
<1>12. ASSUME NEW r \in T, r \notin S
       PROVE  \E k \in 1..Len(txn) : r.ts = txn[k].ts /\ \A q \in S : q.id < r.id
    <2>1. PICK k \in O : r = New(k)
        BY <1>5, <1>12
    <2>2. r.id = N + Rank(t, k) /\ Rank(t, k) \in Nat /\ r.ts = txn[k].ts /\ k \in 1..Len(txn)
        BY <1>6, <1>7, <2>1
    <2>3. ASSUME NEW q \in S PROVE q.id < r.id
        BY <1>2, <1>3, <2>2
    <2> QED
        BY <2>2, <2>3
<1>13. Later(S, T)
    BY <1>4, <1>5, <1>12 DEF Later
<1>14. \A r \in T : r \in S \/ \E k \in 1..Len(txn) : r.ts = txn[k].ts
    BY <1>12
<1>15. \A r \in T : r.ts <= now
    BY <1>1, <1>4, <1>14
<1> QED
    BY <1>9, <1>10, <1>11, <1>13, <1>14, <1>15 DEF S, T

\* New rows disturb neither what the Pruner is about to delete nor what it is done with.
LEMMA PrunerUndisturbed ==
    ASSUME HInv, UNCHANGED <<setting, halt, at, pass, emptied>>, now' \in Nat, now <= now',
           \A t \in Pruned!Tables : rows'[t] \subseteq Kept /\ Later(rows[t], rows'[t])
    PROVE  CutOff' /\ Split' /\ DoneWith'
<1>1. /\ Pruned!TypeOK /\ CutOff /\ Split /\ DoneWith
      /\ now \in Nat /\ pass.now \in Nat /\ pass.end \in Nat /\ pass.cut \in Int /\ setting.keep \in Nat
      /\ pass.now <= now
      /\ \A t \in Pruned!Tables : rows[t] \subseteq Kept
      /\ at \in {"look", "delete"} => Head(pass.todo) \in Pruned!Tables
    BY RawTypes DEF HInv, CutOff
<1>2. \A r \in Kept : r.id \in Nat /\ r.ts \in Nat
    BY DEF Kept, Pruned!Times
<1>3. CutOff'
    BY <1>1 DEF CutOff, Trims
<1>4. ASSUME NEW t \in Pruned!Tables, setting.keep > 0, NEW r \in rows'[t] \ rows[t]
      PROVE  r.ts >= pass.now - setting.keep
    <2>1. r.ts >= now - 1 /\ r.ts \in Nat
        BY <1>2, <1>4 DEF Later
    <2> QED
        BY <1>1, <1>4, <2>1
<1>5. Split'
    <2>1. SUFFICES ASSUME at \in {"look", "delete"}
                   PROVE  /\ Head(pass.todo) \notin emptied => OldBelow(rows'[Head(pass.todo)])
                          /\ pass.by = "keep" => YoungAbove(rows'[Head(pass.todo)])
        BY DEF Split, OldBelow, YoungAbove
    <2> DEFINE t == Head(pass.todo)
    <2>2. t \in Pruned!Tables
        BY <1>1, <2>1
    <2>3. ASSUME t \notin emptied PROVE OldBelow(rows'[t])
        <3>1. /\ \A r \in rows[t] : r.id < pass.end => r.ts < pass.cut
              /\ \E r \in rows[t] : pass.end <= r.id + 1
            BY <1>1, <2>1, <2>3 DEF Split, OldBelow
        <3>2. PICK q \in rows[t] : pass.end <= q.id + 1
            BY <3>1
        <3>3. q \in rows'[t] /\ q.id \in Nat
            BY <1>1, <1>2, <2>2, <3>2 DEF Later
        <3>4. ASSUME NEW r \in rows'[t], r \notin rows[t] PROVE ~(r.id < pass.end)
            <4>1. q.id < r.id /\ r.id \in Nat
                BY <1>2, <2>2, <3>2, <3>4 DEF Later
            <4> QED
                BY <1>1, <3>2, <3>3, <4>1
        <3> QED
            BY <3>1, <3>2, <3>3, <3>4 DEF OldBelow
    <2>4. ASSUME pass.by = "keep" PROVE YoungAbove(rows'[t])
        <3>1. setting.keep > 0 /\ pass.cut = pass.now - setting.keep
            BY <1>1, <2>1, <2>4 DEF CutOff, Trims
        <3>2. \A r \in rows[t] : r.id >= pass.end => r.ts >= pass.cut
            BY <1>1, <2>1, <2>4 DEF Split, YoungAbove
        <3> QED
            BY <1>4, <2>2, <3>1, <3>2 DEF YoungAbove
    <2> QED
        BY <2>3, <2>4
<1>6. DoneWith'
    <2>1. \A t \in Pruned!Tables : Awaits(t) => Awaits(t)'
        BY DEF Awaits, Trims
    <2>2. setting.keep > 0 => \A t \in Pruned!Tables : Young(rows[t]) => Young(rows[t])'
        BY <1>4 DEF Young
    <2> QED
        BY <1>1, <2>1, <2>2 DEF DoneWith, Pruned!Tables
<1> QED
    BY <1>3, <1>5, <1>6

LEMMA SameRows ==
    ASSUME HInv, UNCHANGED <<setting, halt, at, pass, emptied, rows>>, now' \in Nat, now <= now'
    PROVE  CutOff' /\ Split' /\ DoneWith' /\ RowsFit'
<1>1. Pruned!TypeOK /\ RowsFit
    BY DEF HInv
<1>2. \A t \in Pruned!Tables : rows'[t] \subseteq Kept /\ Later(rows[t], rows'[t])
    BY <1>1, RawTypes DEF Later
<1>3. CutOff' /\ Split' /\ DoneWith'
    BY <1>2, PrunerUndisturbed
<1>4. \A t \in Pruned!Tables : Grows(rows[t]) /\ Ends(rows[t]) /\ \A r \in rows[t] : r.ts <= now'
    <2>1. SUFFICES ASSUME NEW t \in Pruned!Tables, NEW r \in rows[t] PROVE r.ts <= now'
        BY <1>1 DEF RowsFit
    <2>2. r.ts <= now /\ r.ts \in Nat /\ now \in Nat
        BY <1>1, <2>1, RawTypes DEF RowsFit, Kept, Pruned!Times
    <2> QED
        BY <2>2
<1>5. RowsFit'
    BY <1>4 DEF RowsFit, Grows, Ends, Pruned!Tables
<1> QED
    BY <1>3, <1>5

\* The items of the queue.
LEMMA ItemTypes ==
    ASSUME Pruned!TypeOK
    PROVE  /\ Len(queue) \in Nat /\ Len(txn) \in Nat
           /\ \A k \in 1..Len(queue) : queue[k] \in Items /\ (queue[k].op = "row" => queue[k] \in Pruned!Rows)
           /\ \A k \in 1..Len(txn) : txn[k] \in Pruned!Rows
           /\ \A r \in Pruned!Rows : r.op = "row" /\ r.table \in Pruned!Tables /\ r.ts \in Pruned!Times /\ r.ts \in Nat
<1>1. queue \in Seq(Items) /\ txn \in Seq(Pruned!Rows)
    BY RawTypes
<1>2. \A x \in Items : x.op = "row" => x \in Pruned!Rows
    BY DEF Items, Pruned!Mark, Pruned!StopMark
<1>3. \A r \in Pruned!Rows : r.op = "row" /\ r.table \in Pruned!Tables /\ r.ts \in Pruned!Times /\ r.ts \in Nat
    BY DEF Pruned!Rows, Pruned!Times
<1>4. Len(queue) \in Nat /\ Len(txn) \in Nat
      /\ (\A k \in 1..Len(queue) : queue[k] \in Items) /\ \A k \in 1..Len(txn) : txn[k] \in Pruned!Rows
    BY <1>1
<1> QED
    BY <1>2, <1>3, <1>4

LEMMA EnqueueStep ==
    ASSUME HInv, NEW item \in Items, Pruned!Enqueue(item), item.op = "row" => item.ts = now
    PROVE  HInv'
<1>1. /\ Pruned!TypeOK /\ RowsFit /\ TxnFits /\ QueueFits
      /\ UNCHANGED <<setting, now, txn, writer, rows, halt, at, pass, emptied, late>>
      /\ queue' = Append(queue, item) /\ now \in Nat /\ queue \in Seq(Items)
    BY RawTypes DEF HInv, Pruned!Enqueue, Pruned!prune
<1>2. /\ Len(queue) \in Nat /\ Len(txn) \in Nat
      /\ \A k \in 1..Len(queue) : queue[k] \in Items /\ (queue[k].op = "row" => queue[k] \in Pruned!Rows)
      /\ \A k \in 1..Len(txn) : txn[k] \in Pruned!Rows
    BY <1>1, ItemTypes
<1>3. /\ queue' \in Seq(Items) /\ Len(queue') = Len(queue) + 1
      /\ \A k \in 1..Len(queue) : queue'[k] = queue[k]
      /\ queue'[Len(queue) + 1] = item
    BY <1>1
<1>4. Pruned!TypeOK'
    <2>1. queue' \in Seq(Pruned!Rows \cup {Pruned!Mark, Pruned!StopMark})
        BY <1>3 DEF Items
    <2> QED
        BY <1>1, <2>1 DEF Pruned!TypeOK
<1>5. CutOff' /\ Split' /\ DoneWith' /\ RowsFit'
    BY <1>1, SameRows
<1>6. TxnFits'
    BY <1>1 DEF TxnFits
<1>7. ASSUME NEW k \in 1..Len(queue'), queue'[k].op = "row"
      PROVE  /\ now - 1 <= queue'[k].ts /\ queue'[k].ts <= now
             /\ \A j \in 1..k : queue'[j].op = "row" => queue'[j].ts <= queue'[k].ts
             /\ \A j \in 1..Len(txn) : txn[j].ts <= queue'[k].ts
             /\ \A t \in Pruned!Tables : \A r \in rows[t] : r.ts <= queue'[k].ts
    <2>1. CASE k = Len(queue) + 1
        <3>1. queue'[k].ts = now
            BY <1>3, <1>7, <2>1
        <3>2. \A j \in 1..k : queue'[j].op = "row" => queue'[j].ts <= now
            <4>1. ASSUME NEW j \in 1..k, queue'[j].op = "row" PROVE queue'[j].ts <= now
                <5>1. CASE j = k
                    BY <1>1, <3>1, <5>1
                <5>2. CASE j # k
                    <6>1. j \in 1..Len(queue)
                        BY <1>2, <2>1, <4>1, <5>2
                    <6> QED
                        BY <1>1, <1>3, <4>1, <6>1 DEF QueueFits
                <5> QED
                    BY <5>1, <5>2
            <4> QED
                BY <4>1
        <3>3. \A j \in 1..Len(txn) : txn[j].ts <= now
            BY <1>1 DEF TxnFits
        <3>4. \A t \in Pruned!Tables : \A r \in rows[t] : r.ts <= now
            BY <1>1 DEF RowsFit
        <3> QED
            BY <1>1, <3>1, <3>2, <3>3, <3>4
    <2>2. CASE k # Len(queue) + 1
        <3>1. k \in 1..Len(queue) /\ queue'[k] = queue[k] /\ \A j \in 1..k : queue'[j] = queue[j]
            BY <1>2, <1>3, <2>2
        <3> QED
            BY <1>1, <1>7, <3>1 DEF QueueFits
    <2> QED
        BY <2>1, <2>2
<1>8. QueueFits'
    BY <1>1, <1>7 DEF QueueFits, Pruned!Tables
<1> QED
    BY <1>4, <1>5, <1>6, <1>8 DEF HInv

\* What is left of the queue is later than what it gave.
LEMMA TailFits ==
    ASSUME HInv, queue # <<>>
    PROVE  /\ queue \in Seq(Items) /\ Tail(queue) \in Seq(Items) /\ Head(queue) = queue[1] /\ 1 \in 1..Len(queue)
           /\ \A k \in 1..Len(Tail(queue)) : k + 1 \in 1..Len(queue) /\ Tail(queue)[k] = queue[k + 1]
           /\ \A k \in 1..Len(Tail(queue)) : Tail(queue)[k].op = "row" =>
                  /\ now - 1 <= Tail(queue)[k].ts /\ Tail(queue)[k].ts <= now
                  /\ \A j \in 1..k : Tail(queue)[j].op = "row" => Tail(queue)[j].ts <= Tail(queue)[k].ts
                  /\ \A j \in 1..Len(txn) : txn[j].ts <= Tail(queue)[k].ts
                  /\ Head(queue).op = "row" => Head(queue).ts <= Tail(queue)[k].ts
                  /\ \A t \in Pruned!Tables : \A r \in rows[t] : r.ts <= Tail(queue)[k].ts
<1>1. queue \in Seq(Items) /\ QueueFits
    BY RawTypes DEF HInv
<1>2. /\ Tail(queue) \in Seq(Items) /\ Head(queue) = queue[1] /\ 1 \in 1..Len(queue) /\ Len(queue) \in Nat
      /\ Len(Tail(queue)) = Len(queue) - 1
      /\ \A k \in 1..Len(Tail(queue)) : Tail(queue)[k] = queue[k + 1]
    BY <1>1
<1>3. \A k \in 1..Len(Tail(queue)) : k + 1 \in 1..Len(queue) /\ 1 \in 1..(k + 1) /\ \A j \in 1..k : j + 1 \in 1..(k + 1)
    BY <1>2
<1>4. ASSUME NEW k \in 1..Len(Tail(queue)), Tail(queue)[k].op = "row"
      PROVE  /\ now - 1 <= Tail(queue)[k].ts /\ Tail(queue)[k].ts <= now
             /\ \A j \in 1..k : Tail(queue)[j].op = "row" => Tail(queue)[j].ts <= Tail(queue)[k].ts
             /\ \A j \in 1..Len(txn) : txn[j].ts <= Tail(queue)[k].ts
             /\ Head(queue).op = "row" => Head(queue).ts <= Tail(queue)[k].ts
             /\ \A t \in Pruned!Tables : \A r \in rows[t] : r.ts <= Tail(queue)[k].ts
    <2>1. k + 1 \in 1..Len(queue) /\ Tail(queue)[k] = queue[k + 1]
        BY <1>2, <1>3
    <2>2. \A j \in 1..k : Tail(queue)[j] = queue[j + 1] /\ j + 1 \in 1..(k + 1)
        BY <1>2, <1>3
    <2>3. /\ now - 1 <= queue[k + 1].ts /\ queue[k + 1].ts <= now
          /\ \A j \in 1..(k + 1) : queue[j].op = "row" => queue[j].ts <= queue[k + 1].ts
          /\ \A j \in 1..Len(txn) : txn[j].ts <= queue[k + 1].ts
          /\ \A t \in Pruned!Tables : \A r \in rows[t] : r.ts <= queue[k + 1].ts
        BY <1>1, <1>4, <2>1 DEF QueueFits
    <2> QED
        BY <1>2, <1>3, <2>1, <2>2, <2>3
<1> QED
    BY <1>1, <1>2, <1>3, <1>4

LEMMA ExecuteStep ==
    ASSUME HInv, Pruned!Execute
    PROVE  HInv'
<1> DEFINE first == Head(queue)
<1>1. /\ Pruned!TypeOK /\ RowsFit /\ TxnFits /\ QueueFits /\ queue # <<>> /\ first.op = "row"
      /\ UNCHANGED <<setting, now, writer, rows, halt, at, pass, emptied, late>> /\ writer = "up"
      /\ queue' = Tail(queue) /\ txn' \in {Append(txn, first), txn} /\ now \in Nat
    BY RawTypes DEF HInv, Pruned!Execute, Pruned!prune
<1>2. CutOff' /\ Split' /\ DoneWith' /\ RowsFit'
    BY <1>1, SameRows
<1>3. /\ queue' \in Seq(Items) /\ first = queue[1] /\ 1 \in 1..Len(queue)
      /\ first \in Pruned!Rows /\ txn \in Seq(Pruned!Rows) /\ Len(txn) \in Nat
    BY <1>1, TailFits, ItemTypes, RawTypes
<1>4. /\ now - 1 <= first.ts /\ first.ts <= now
      /\ \A j \in 1..Len(txn) : txn[j].ts <= first.ts
      /\ \A t \in Pruned!Tables : \A r \in rows[t] : r.ts <= first.ts
    BY <1>1, <1>3 DEF QueueFits
<1>5. first.ts \in Nat
    BY <1>1, <1>3, ItemTypes
<1> HIDE DEF first
<1>6. txn' \in Seq(Pruned!Rows)
    <2>1. Append(txn, first) \in Seq(Pruned!Rows)
        BY <1>3
    <2> QED
        BY <1>1, <1>3, <2>1
<1>7. \A j \in 1..Len(txn') : (j \in 1..Len(txn) /\ txn'[j] = txn[j]) \/ (j = Len(txn) + 1 /\ txn'[j] = first)
    <2>1. CASE txn' = txn
        BY <2>1
    <2>2. CASE txn' = Append(txn, first)
        BY <1>3, <2>2
    <2> QED
        BY <1>1, <2>1, <2>2
<1>8. Pruned!TypeOK'
    <2>1. queue' \in Seq(Pruned!Rows \cup {Pruned!Mark, Pruned!StopMark})
        BY <1>3 DEF Items
    <2> QED
        BY <1>1, <1>6, <2>1 DEF Pruned!TypeOK
<1>9. TxnFits'
    <2>1. ASSUME NEW k \in 1..Len(txn')
          PROVE  /\ now - 1 <= txn'[k].ts /\ txn'[k].ts <= now
                 /\ \A j \in 1..k : txn'[j].ts <= txn'[k].ts
                 /\ \A t \in Pruned!Tables : \A r \in rows[t] : r.ts <= txn'[k].ts
        <3>1. CASE k \in 1..Len(txn) /\ txn'[k] = txn[k]
            <4>1. \A j \in 1..k : txn'[j] = txn[j]
                <5>1. \A j \in 1..k : j \in 1..Len(txn') /\ j # Len(txn) + 1
                    BY <1>3, <1>6, <3>1, <2>1
                <5> QED
                    BY <1>7, <5>1
            <4> QED
                BY <1>1, <3>1, <4>1 DEF TxnFits
        <3>2. CASE k = Len(txn) + 1 /\ txn'[k] = first
            <4>1. \A j \in 1..k : j \in 1..Len(txn')
                BY <1>6, <2>1
            <4>2. \A j \in 1..k : txn'[j].ts <= first.ts
                BY <1>4, <1>5, <1>7, <4>1
            <4> QED
                BY <1>4, <3>2, <4>2
        <3> QED
            BY <1>7, <2>1, <3>1, <3>2
    <2> QED
        BY <1>1, <2>1 DEF TxnFits, Pruned!Tables
<1>10. QueueFits'
    <2>1. ASSUME NEW k \in 1..Len(queue'), queue'[k].op = "row"
          PROVE  /\ now - 1 <= queue'[k].ts /\ queue'[k].ts <= now
                 /\ \A j \in 1..k : queue'[j].op = "row" => queue'[j].ts <= queue'[k].ts
                 /\ \A j \in 1..Len(txn') : txn'[j].ts <= queue'[k].ts
                 /\ \A t \in Pruned!Tables : \A r \in rows[t] : r.ts <= queue'[k].ts
        <3>1. /\ now - 1 <= queue'[k].ts /\ queue'[k].ts <= now
              /\ \A j \in 1..k : queue'[j].op = "row" => queue'[j].ts <= queue'[k].ts
              /\ \A j \in 1..Len(txn) : txn[j].ts <= queue'[k].ts
              /\ first.ts <= queue'[k].ts
              /\ \A t \in Pruned!Tables : \A r \in rows[t] : r.ts <= queue'[k].ts
            BY <1>1, <2>1, TailFits DEF first
        <3> QED
            BY <1>7, <3>1
    <2> QED
        BY <1>1, <2>1 DEF QueueFits, Pruned!Tables
<1> QED
    BY <1>2, <1>8, <1>9, <1>10 DEF HInv

LEMMA CommitStep ==
    ASSUME HInv, Pruned!WriterCommits
    PROVE  HInv' /\ \A t \in Pruned!Tables : rows[t] \subseteq rows'[t]
<1>1. /\ Pruned!TypeOK /\ RowsFit /\ TxnFits /\ QueueFits /\ queue # <<>>
      /\ UNCHANGED <<setting, now, halt, at, pass, emptied, late>>
      /\ queue' = Tail(queue) /\ txn' = <<>> /\ writer' \in {"up", "dead"} /\ now \in Nat
      /\ rows' = [t \in Pruned!Tables |-> Pruned!Inserted(t)] \/ rows' = rows
      /\ DOMAIN rows = Pruned!Tables
    BY RawTypes DEF HInv, Pruned!WriterCommits, Pruned!Closed, Pruned!prune
<1>2. ASSUME NEW t \in Pruned!Tables
      PROVE  /\ rows'[t] \subseteq Kept /\ Grows(rows'[t]) /\ Ends(rows'[t]) /\ Later(rows[t], rows'[t])
             /\ \A r \in rows'[t] : r.ts <= now
             /\ \A r \in rows'[t] : r \in rows[t] \/ \E k \in 1..Len(txn) : r.ts = txn[k].ts
    <2>1. CASE rows' = rows
        BY <1>1, <2>1, RawTypes DEF RowsFit, Later
    <2>2. CASE rows' = [u \in Pruned!Tables |-> Pruned!Inserted(u)]
        <3>1. rows'[t] = Pruned!Inserted(t)
            BY <2>2
        <3> QED
            BY <1>1, <3>1, InsertedRows
    <2> QED
        BY <1>1, <2>1, <2>2
<1>3. CutOff' /\ Split' /\ DoneWith'
    <2>1. now' \in Nat /\ now <= now'
        BY <1>1
    <2>2. \A t \in Pruned!Tables : rows'[t] \subseteq Kept /\ Later(rows[t], rows'[t])
        BY <1>2
    <2> QED
        BY <1>1, <2>1, <2>2, PrunerUndisturbed
<1>4. RowsFit'
    BY <1>1, <1>2 DEF RowsFit, Grows, Ends, Pruned!Tables
<1>5. TxnFits'
    BY <1>1 DEF TxnFits
<1>6. QueueFits'
    <2>1. ASSUME NEW k \in 1..Len(queue'), queue'[k].op = "row"
          PROVE  /\ now - 1 <= queue'[k].ts /\ queue'[k].ts <= now
                 /\ \A j \in 1..k : queue'[j].op = "row" => queue'[j].ts <= queue'[k].ts
                 /\ \A t \in Pruned!Tables : \A r \in rows'[t] : r.ts <= queue'[k].ts
        <3>1. /\ now - 1 <= queue'[k].ts /\ queue'[k].ts <= now
              /\ \A j \in 1..k : queue'[j].op = "row" => queue'[j].ts <= queue'[k].ts
              /\ \A j \in 1..Len(txn) : txn[j].ts <= queue'[k].ts
              /\ \A t \in Pruned!Tables : \A r \in rows[t] : r.ts <= queue'[k].ts
            BY <1>1, <2>1, TailFits
        <3> QED
            BY <1>2, <3>1
    <2> QED
        BY <1>1, <2>1 DEF QueueFits, Pruned!Tables
<1>7. Pruned!TypeOK'
    <2>1. queue' \in Seq(Pruned!Rows \cup {Pruned!Mark, Pruned!StopMark})
        BY <1>1, TailFits DEF Items
    <2>2. DOMAIN rows' = Pruned!Tables
        BY <1>1
    <2>3. \A t \in Pruned!Tables : rows'[t] \subseteq [id : Nat \ {0}, ts : Pruned!Times]
        BY <1>2 DEF Kept
    <2> QED
        BY <1>1, <2>1, <2>2, <2>3 DEF Pruned!TypeOK
<1>8. \A t \in Pruned!Tables : rows[t] \subseteq rows'[t]
    BY <1>2 DEF Later
<1> QED
    BY <1>3, <1>4, <1>5, <1>6, <1>7, <1>8 DEF HInv

LEMMA HourStep ==
    ASSUME HInv, Pruned!Tick
    PROVE  HInv'
<1>1. /\ Pruned!TypeOK /\ RowsFit /\ TxnFits /\ QueueFits /\ now \in Nat /\ now < MaxNow /\ MaxNow \in Nat
      /\ UNCHANGED <<setting, queue, txn, writer, rows, halt, at, pass, emptied, late>>
      /\ now' = now + 1
      /\ \A k \in DOMAIN queue : queue[k].op = "row" => queue[k].ts = now
      /\ \A k \in DOMAIN txn : txn[k].ts = now
      /\ DOMAIN queue = 1..Len(queue) /\ DOMAIN txn = 1..Len(txn)
    BY RawTypes, RawConstants DEF HInv, Pruned!Tick, Pruned!store, Pruned!prune
<1>2. CutOff' /\ Split' /\ DoneWith' /\ RowsFit'
    BY <1>1, SameRows
<1>3. TxnFits'
    BY <1>1 DEF TxnFits, Pruned!Tables
<1>4. QueueFits'
    BY <1>1 DEF QueueFits, Pruned!Tables
<1>5. Pruned!TypeOK'
    <2>1. now' \in Pruned!Times
        BY <1>1 DEF Pruned!Times
    <2> QED
        BY <1>1, <2>1 DEF Pruned!TypeOK
<1> QED
    BY <1>2, <1>3, <1>4, <1>5 DEF HInv

-----------------------------------------------------------------------------
\* Only a batch of the Pruner deletes rows.
LEMMA HStep ==
    ASSUME HInv, Pruned!Next \/ UNCHANGED history
    PROVE  HInv' /\ Pruned!DeletesOldUnlessEmptied
<1> DEFINE Same == \A t \in Pruned!Tables : rows[t] \subseteq rows'[t]
<1>0. ASSUME Same PROVE Pruned!DeletesOldUnlessEmptied
    BY <1>0 DEF Pruned!DeletesOldUnlessEmptied, Pruned!Deleted
<1>1. ASSUME NEW t \in Pruned!Tables, Pruned!Record(t) PROVE HInv' /\ Same
    <2>1. Pruned!Row(t) \in Items /\ Pruned!Row(t).ts = now
        BY DEF HInv, Pruned!TypeOK, Pruned!Row, Items, Pruned!Rows
    <2> QED
        BY <1>1, <2>1, EnqueueStep DEF Pruned!Record, Pruned!Enqueue
<1>2. CASE Pruned!Commit \/ Pruned!Close
    <2>1. PICK item \in {Pruned!Mark, Pruned!StopMark} : Pruned!Enqueue(item)
        BY <1>2 DEF Pruned!Commit, Pruned!Close
    <2>2. item \in Items /\ item.op # "row"
        BY DEF Items, Pruned!Mark, Pruned!StopMark
    <2>3. HInv'
        BY <2>1, <2>2, EnqueueStep
    <2> QED
        BY <1>0, <2>1, <2>3 DEF Pruned!Enqueue
<1>3. CASE Pruned!Execute
    BY <1>0, <1>3, ExecuteStep DEF Pruned!Execute
<1>4. CASE Pruned!WriterCommits
    BY <1>0, <1>4, CommitStep
<1>5. CASE Pruned!Tick
    BY <1>0, <1>5, HourStep DEF Pruned!Tick
<1>6. CASE Pruned!Begin
    BY <1>0, <1>6, BeginStep DEF Pruned!Begin
<1>7. CASE Pruned!Trim
    BY <1>0, <1>7, TrimStep DEF Pruned!Trim
<1>8. CASE Pruned!Look
    BY <1>0, <1>8, LookStep DEF Pruned!Look
<1>9. CASE Pruned!Size
    BY <1>0, <1>9, SizeStep DEF Pruned!Size
<1>10. CASE Pruned!Halt \/ Pruned!Gone \/ Pruned!DeleteFails
    BY <1>0, <1>10, OtherPrunerStep DEF Pruned!Halt, Pruned!Gone, Pruned!DeleteFails
<1>11. CASE Pruned!Delete
    BY <1>11, DeleteStep DEF Pruned!DeletesOldUnlessEmptied, Pruned!Deleted
<1>12. CASE UNCHANGED history
    <2>1. HInv'
        BY <1>12 DEF history, HInv, Pruned!TypeOK, RowsFit, TxnFits, QueueFits, CutOff, Split, DoneWith, Trims,
                  Grows, Ends, OldBelow, YoungAbove, Young, Awaits
    <2> QED
        BY <1>0, <1>12, <2>1 DEF history
<1> QED
    BY <1>0, <1>1, <1>2, <1>3, <1>4, <1>5, <1>6, <1>7, <1>8, <1>9, <1>10, <1>11, <1>12
       DEF Pruned!Next, Pruned!PrunerStep

\* With however many tables and rows, whatever the settings, and whatever the DbWriter writes
\* or fails to write meanwhile: a pass deletes only rows older than keep_raw_days, or for the
\* cap than the last day, of a table it hasn't emptied; one that runs to its end leaves none
\* older than keep_raw_days; and it stops within a batch (retention.prune).
THEOREM PrunesTheOld == MCSpec => OldUnlessEmptied
<1> DEFINE Inv == part = "raw" => HInv
<1>1. MCInit => Inv
    <2> SUFFICES ASSUME MCInit PROVE HInv
        OBVIOUS
    <2>1. /\ setting \in Settings /\ now = 1 /\ queue = <<>> /\ txn = <<>> /\ writer = "up"
          /\ rows = [t \in Pruned!Tables |-> {}]
          /\ halt = FALSE /\ at = "rest" /\ pass = Pruned!NoPass /\ emptied = {} /\ late = 0
        BY DEF MCInit, Pruned!Init
    <2>2. Pruned!TypeOK
        <3>1. /\ now \in Pruned!Times
              /\ pass \in [now : Pruned!Times, cut : Int, by : {"keep", "cap"}, todo : Seq(Pruned!Tables), end : Nat]
            <4>1. now \in Pruned!Times /\ 0 \in Pruned!Times
                BY <2>1, RawConstants DEF Pruned!Times
            <4>2. \A c \in Int, todo \in Seq(Pruned!Tables) :
                      [now |-> 0, cut |-> c, by |-> "keep", todo |-> todo, end |-> 0] \in Passes
                BY <4>1 DEF Passes
            <4>3. <<>> \in Seq(Pruned!Tables) /\ 0 \in Int
                OBVIOUS
            <4>4. [now |-> 0, cut |-> 0, by |-> "keep", todo |-> <<>>, end |-> 0] \in Passes
                BY <4>2, <4>3, Zenon
            <4>5. pass \in Passes
                BY <2>1, <4>4, Zenon DEF Pruned!NoPass
            <4> QED
                BY <4>1, <4>5, Zenon DEF Passes
        <3>2. queue \in Seq(Pruned!Rows \cup {Pruned!Mark, Pruned!StopMark}) /\ txn \in Seq(Pruned!Rows)
            BY <2>1
        <3>3. DOMAIN rows = Pruned!Tables /\ \A t \in Pruned!Tables : rows[t] = {}
            BY <2>1
        <3>4. /\ writer \in {"up", "dead"} /\ (writer = "dead" => txn = <<>>)
              /\ halt \in BOOLEAN /\ late \in Nat /\ emptied \subseteq Pruned!Tables
              /\ at \in {"rest", "trim", "look", "delete", "size", "gone"} /\ at \notin {"look", "delete"}
            BY <2>1
        <3> QED
            BY <2>1, <3>1, <3>2, <3>3, <3>4, Zenon DEF Pruned!TypeOK
    <2>3. RowsFit /\ TxnFits /\ QueueFits
        BY <2>1 DEF RowsFit, TxnFits, QueueFits, Grows, Ends
    <2>4. CutOff /\ Split /\ DoneWith
        BY <2>1 DEF CutOff, Split, DoneWith, Trims, Pruned!NoPass
    <2> QED
        BY <2>2, <2>3, <2>4 DEF HInv
<1>2. Inv /\ [MCNext]_all => Inv' /\ (part = "raw" => Pruned!DeletesOldUnlessEmptied)
    <2>1. ASSUME Inv, [MCNext]_all, part = "raw" \/ part' = "raw"
          PROVE  part = "raw" /\ (Pruned!Next \/ UNCHANGED history)
        BY <2>1 DEF MCNext, all
    <2> QED
        BY <2>1, HStep
<1>3. Inv => (part = "raw" => Pruned!TypeOK)
    BY DEF HInv
\* What a pass is done with has nothing old in it, and at its end that is every table.
<1>4. Inv => (part = "raw" => Pruned!LeavesNothingOld)
    BY DEF HInv, DoneWith, Awaits, Trims, Young, Pruned!LeavesNothingOld
<1>5. Inv /\ [MCNext]_all => [part = "raw" => Pruned!DeletesOldUnlessEmptied /\ Pruned!LeavesNothingOld]_all
    BY <1>2, <1>4
<1> HIDE DEF Inv
<1>6. MCSpec => []Inv
    BY <1>1, <1>2, PTL DEF MCSpec
<1>7. MCSpec => [](part = "raw" => Pruned!TypeOK /\ Pruned!StopsWithinABatch)
    BY <1>3, <1>6, StopsInTime, PTL
<1>8. MCSpec => [][part = "raw" => Pruned!DeletesOldUnlessEmptied /\ Pruned!LeavesNothingOld]_all
    BY <1>5, <1>6, PTL DEF MCSpec
<1> QED
    BY <1>7, <1>8, PTL DEF OldUnlessEmptied

-----------------------------------------------------------------------------
(***************************************************************************)
(* RateLimiter: the pace of the calls to a venue                           *)
(***************************************************************************)

\* The next turn is an interval after the last call and after any quiet asked for; the
\* caller that sleeps wakes at a turn, and only one that took its turn before the quiet
\* was asked for may yet be let go in it.
TurnHeld ==
    /\ next >= last + Interval /\ next >= quiet
    /\ wake # 0 => wake >= last + Interval
    /\ slipped <= 1 /\ (wake # 0 /\ wake < quiet => slipped = 0)
PaceInv == Paces!TypeOK /\ TurnHeld

LEMMA PaceConstants == Interval \in Nat \ {0} /\ Waits \subseteq Nat \ {0}
BY RecordsAssumption DEF Paces!PaceFits

LEMMA PaceTypes == Paces!TypeOK <=> /\ clock \in Nat /\ next \in Nat /\ wake \in Nat /\ quiet \in Nat
                                    /\ slipped \in Nat /\ last \in Int
BY DEF Paces!TypeOK

LEMMA LaterOf ==
    ASSUME NEW a \in Int, NEW b \in Int
    PROVE  Paces!Max({a, b}) = IF a < b THEN b ELSE a
<1> DEFINE m == IF a < b THEN b ELSE a
<1>1. m \in {a, b} /\ \A y \in {a, b} : m >= y
    OBVIOUS
<1>2. ASSUME NEW x \in {a, b}, \A y \in {a, b} : x >= y PROVE x = m
    BY <1>2
<1> HIDE DEF m
<1>3. (CHOOSE x \in {a, b} : \A y \in {a, b} : x >= y) = m
    BY <1>1, <1>2
<1> QED
    BY <1>3 DEF Paces!Max, m

LEMMA PaceStep ==
    ASSUME PaceInv, Paces!Next \/ UNCHANGED pace
    PROVE  PaceInv' /\ Paces!KeepsDistance
<1> USE PaceConstants
<1>0. /\ clock \in Nat /\ next \in Nat /\ wake \in Nat /\ quiet \in Nat /\ slipped \in Nat /\ last \in Int
      /\ TurnHeld
    BY PaceTypes DEF PaceInv
<1>1. Paces!NextTurn = (IF clock < next THEN next ELSE clock) + Interval
    BY <1>0, LaterOf DEF Paces!NextTurn
<1>2. ASSUME Paces!LetGo, clock >= last + Interval, wake' = 0, UNCHANGED <<clock, quiet>>,
             clock < quiet => slipped = 0
      PROVE  PaceInv' /\ Paces!KeepsDistance
    <2>1. /\ next' = (IF clock < next THEN next ELSE clock) + Interval /\ last' = clock
          /\ slipped' = IF clock < quiet THEN slipped + 1 ELSE slipped
        BY <1>1, <1>2 DEF Paces!LetGo
    <2>2. Paces!TypeOK'
        BY <1>0, <1>2, <2>1 DEF Paces!TypeOK
    <2>3. TurnHeld'
        BY <1>0, <1>2, <2>1 DEF TurnHeld
    <2> QED
        BY <1>2, <2>1, <2>2, <2>3 DEF PaceInv, Paces!KeepsDistance
<1>3. CASE Paces!Acquire
    <2>1. CASE next > clock
        <3>1. wake = 0 /\ wake' = next /\ UNCHANGED <<clock, next, last, quiet, slipped>>
            BY <1>3, <2>1 DEF Paces!Acquire
        <3>2. Paces!TypeOK'
            BY <1>0, <3>1 DEF Paces!TypeOK
        <3>3. TurnHeld'
            BY <1>0, <3>1 DEF TurnHeld
        <3> QED
            BY <3>1, <3>2, <3>3 DEF PaceInv, Paces!KeepsDistance
    <2>2. CASE ~(next > clock)
        <3>1. Paces!LetGo /\ wake' = 0 /\ UNCHANGED <<clock, quiet>>
            BY <1>3, <2>2 DEF Paces!Acquire
        <3>2. clock >= last + Interval /\ ~(clock < quiet)
            BY <1>0, <2>2 DEF TurnHeld
        <3> QED
            BY <1>2, <3>1, <3>2
    <2> QED
        BY <2>1, <2>2
<1>4. CASE Paces!Wakes
    <2>1. wake # 0 /\ clock >= wake /\ wake' = 0 /\ Paces!LetGo /\ UNCHANGED <<clock, quiet>>
        BY <1>4 DEF Paces!Wakes
    <2>2. clock >= last + Interval /\ (clock < quiet => slipped = 0)
        BY <1>0, <2>1 DEF TurnHeld
    <2> QED
        BY <1>2, <2>1, <2>2
<1>5. ASSUME NEW w \in Waits, Paces!Penalize(w)
      PROVE  PaceInv' /\ Paces!KeepsDistance
    <2>1. w \in Nat /\ clock + w \in Int
        BY <1>0
    <2>2. /\ next' = (IF next < clock + w THEN clock + w ELSE next)
          /\ quiet' = (IF quiet < clock + w THEN clock + w ELSE quiet)
          /\ slipped' = (IF clock + w > quiet THEN 0 ELSE slipped)
          /\ UNCHANGED <<clock, wake, last>>
        BY <1>0, <1>5, <2>1, LaterOf DEF Paces!Penalize
    <2>3. Paces!TypeOK'
        BY <1>0, <2>1, <2>2 DEF Paces!TypeOK
    <2>4. TurnHeld'
        BY <1>0, <2>1, <2>2 DEF TurnHeld
    <2> QED
        BY <2>2, <2>3, <2>4 DEF PaceInv, Paces!KeepsDistance
<1>6. CASE Paces!Tick \/ UNCHANGED pace
    <2>1. clock' \in {clock, clock + 1} /\ UNCHANGED <<next, wake, last, quiet, slipped>>
        BY <1>6 DEF Paces!Tick, pace
    <2>2. Paces!TypeOK'
        BY <1>0, <2>1 DEF Paces!TypeOK
    <2>3. TurnHeld'
        BY <1>0, <2>1 DEF TurnHeld
    <2> QED
        BY <2>1, <2>2, <2>3 DEF PaceInv, Paces!KeepsDistance
<1> QED
    BY <1>3, <1>4, <1>5, <1>6 DEF Paces!Next

\* Calls to a venue keep their distance, and while an answer has asked for quiet at most
\* one more goes out, for any rate and any waits asked for (http.RateLimiter).
THEOREM CallsPaced == MCSpec => Paced
<1> DEFINE Inv == part = "pace" => PaceInv
<1>1. MCInit => Inv
    <2> SUFFICES ASSUME MCInit PROVE PaceInv
        OBVIOUS
    <2>1. clock = 0 /\ next = 0 /\ wake = 0 /\ last = -Interval /\ quiet = 0 /\ slipped = 0
        BY DEF MCInit, Paces!Init
    <2> QED
        BY <2>1, PaceConstants DEF PaceInv, TurnHeld, Paces!TypeOK
<1>2. Inv /\ [MCNext]_all => Inv' /\ (part = "pace" => Paces!KeepsDistance)
    <2>1. ASSUME Inv, [MCNext]_all, part = "pace" \/ part' = "pace"
          PROVE  part = "pace" /\ (Paces!Next \/ UNCHANGED pace)
        BY <2>1 DEF MCNext, all
    <2> QED
        BY <2>1, PaceStep
<1>3. Inv => (part = "pace" => Paces!TypeOK /\ Paces!OneSlips)
    BY DEF PaceInv, TurnHeld, Paces!OneSlips
<1>4. Inv /\ [MCNext]_all => [part = "pace" => Paces!KeepsDistance]_all
    BY <1>2
<1> HIDE DEF Inv
<1>5. MCSpec => []Inv
    BY <1>1, <1>2, PTL DEF MCSpec
<1>6. MCSpec => [](part = "pace" => Paces!TypeOK /\ Paces!OneSlips)
    BY <1>3, <1>5, PTL
<1>7. MCSpec => [][part = "pace" => Paces!KeepsDistance]_all
    BY <1>4, <1>5, PTL DEF MCSpec
<1> QED
    BY <1>6, <1>7, PTL DEF Paced
=============================================================================
