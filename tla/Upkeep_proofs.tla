---------------------------- MODULE Upkeep_proofs ----------------------------
(***************************************************************************)
(* What goes on beside the trading, for any pairs, markets and numbers of   *)
(* stages: no pair is forgotten by the refreshes or retired before one of   *)
(* its markets is over (Watching); no result is put on record that the      *)
(* venue hasn't shown (Results); and the service runs one refresh at a time *)
(* (Jobs).  These are the safety parts of what MCUpkeep checks: that all of *)
(* it comes about in the end is left to TLC.                               *)
(***************************************************************************)
EXTENDS MCUpkeep, TLAPS

-----------------------------------------------------------------------------
(* Watching: the invariant *)

Shape(t) == t = [stage |-> t.stage, ask |-> t.ask, whole |-> t.whole, got |-> t.got]

\* What Kalshi answered of the markets asked about.
Answered == \A p \in DOMAIN task.got : task.got[p] \in Turns /\ (task.got[p] = "over" => kalshi[p] = "over")

\* Nobody takes a market for over that isn't: what is known, what is on its way, what the venue said.
TakenForOver ==
    /\ \A p \in Pairs : kmeta[p] = "over" => kalshi[p] = "over"
    /\ \A i \in 1..Len(word) : word[i][2] = "over" => kalshi[word[i][1]] = "over"
    /\ closed \subseteq pmOver

\* A pair nothing is known of is asked about now, or will be: at the next tick, if not by the
\* refresh under way.
AskedAbout ==
    ~failed /\ ~pending =>
        \A p \in Active : \/ kmeta[p] # "none"
                          \/ task.stage = "idle" /\ "K" \in aged
                          \/ task.stage \in {"ask", "answered"} /\ p \in task.ask

\* Once Kalshi's answer is in, of each pair asked about something is known.
Learnt == task.stage = "pm" => \A p \in task.ask : kmeta[p] # "none"

WInv == TypeOK /\ Shape(task) /\ Answered /\ TakenForOver /\ RetiredRightly /\ AskedAbout /\ Learnt

\* t is a refresh begun; u is t moved on to the stage s, with the answer g.
Begun(t, b, a) == t = [Idle EXCEPT !.stage = "ask", !.whole = b, !.ask = a]
Moved(u, t, s, g) == u = [t EXCEPT !.stage = s, !.got = g]

LEMMA Asking ==
    ASSUME NEW b, NEW a, NEW t, Begun(t, b, a)
    PROVE  t.stage = "ask" /\ t.whole = b /\ t.ask = a /\ t.got = <<>> /\ Shape(t)
<1>1. ASSUME NEW g, NEW i, i = [stage |-> "idle", ask |-> {}, whole |-> FALSE, got |-> g],
             NEW u, u = [i EXCEPT !.stage = "ask", !.whole = b, !.ask = a]
      PROVE  u.stage = "ask" /\ u.whole = b /\ u.ask = a /\ u.got = g /\ Shape(u)
    BY <1>1 DEF Shape
<1> QED
    BY <1>1, Zenon DEF Idle, Begun

LEMMA Moving ==
    ASSUME NEW t, Shape(t), NEW s, NEW g, NEW u, Moved(u, t, s, g)
    PROVE  u.stage = s /\ u.ask = t.ask /\ u.whole = t.whole /\ u.got = g /\ Shape(u)
<1>1. ASSUME NEW a, NEW b, NEW c, NEW d, NEW v, v = [[stage |-> a, ask |-> b, whole |-> c, got |-> d] EXCEPT !.stage = s, !.got = g]
      PROVE  v.stage = s /\ v.ask = b /\ v.whole = c /\ v.got = g /\ Shape(v)
    BY <1>1 DEF Shape
<1> QED
    BY <1>1, Zenon DEF Shape, Moved

LEMMA IdleShape ==
    Shape(Idle) /\ Idle.stage = "idle" /\ Idle.ask = {} /\ Idle.whole = FALSE /\ DOMAIN Idle.got = {}
<1>1. ASSUME NEW g, NEW i, i = [stage |-> "idle", ask |-> {}, whole |-> FALSE, got |-> g]
      PROVE  Shape(i) /\ i.stage = "idle" /\ i.ask = {} /\ i.whole = FALSE /\ i.got = g
    BY <1>1 DEF Shape
<1>2. Shape(Idle) /\ Idle.stage = "idle" /\ Idle.ask = {} /\ Idle.whole = FALSE /\ Idle.got = <<>>
    BY <1>1, Zenon DEF Idle
<1>3. DOMAIN <<>> = {}
    OBVIOUS
<1> QED
    BY <1>2, <1>3, Zenon

LEMMA WatchInit == Init => WInv
<1> SUFFICES ASSUME Init PROVE WInv
    OBVIOUS
<1>1. /\ task.stage = "idle" /\ task.ask = {} /\ task.whole = FALSE /\ DOMAIN task.got = {}
      /\ word = <<>> /\ word \in Seq(Pairs \X Turns) /\ finished = {} /\ closed = {} /\ aged = {"K", "P"}
      /\ file = First /\ mine = First /\ priced = {} /\ pmOver = {} /\ failed = FALSE /\ pending = FALSE
      /\ turns = 0
    BY DEF Init, Idle
<1>2. /\ kmeta = [p \in Pairs |-> "none"] /\ kalshi = [p \in Pairs |-> "active"]
      /\ state = [p \in Pairs |-> "none"]
    BY DEF Init
<1>3. TypeOK
    <2>1. /\ kmeta \in [Pairs -> Turns \cup {"none", "missing"}] /\ kalshi \in [Pairs -> Turns]
          /\ state \in [Pairs -> {"none", "live", "paused", "finished"}]
        BY <1>2 DEF Turns
    <2>2. 0 \in 0..MaxTurns
        BY PairsAssumption
    <2> QED
        BY <1>1, <2>1, <2>2, PairsAssumption DEF TypeOK, Stages
<1>4. TakenForOver
    BY <1>1, <1>2 DEF TakenForOver
<1>5. Shape(task)
    BY Zenon, IdleShape DEF Init
<1> QED
    BY <1>1, <1>3, <1>4, <1>5 DEF WInv, Answered, RetiredRightly, AskedAbout, Learnt

\* A step of the world: it never opens again what was over, and what it tells of it is so.
LEMMA WorldStep ==
    ASSUME WInv, \/ \E p \in Pairs : Edits(p) \/ PMCloses(p) \/ \E s \in Turns : KalshiTurns(p, s)
                 \/ \E v \in {"K", "P"} : Ages(v)
    PROVE  WInv'
<1>1. /\ UNCHANGED <<mine, finished, kmeta, priced, closed, state, task, pending, failed>>
      /\ aged \subseteq aged' /\ aged' \subseteq {"K", "P"} /\ file' \subseteq Pairs
      /\ turns' \in 0..MaxTurns /\ pmOver \subseteq pmOver' /\ pmOver' \subseteq Pairs
    <2>1. /\ aged \subseteq {"K", "P"} /\ file \subseteq Pairs /\ turns \in 0..MaxTurns /\ pmOver \subseteq Pairs
          /\ MaxTurns \in Nat
        BY PairsAssumption DEF WInv, TypeOK
    <2>2. ASSUME NEW p \in Pairs, Edits(p) \/ PMCloses(p) \/ \E s \in Turns : KalshiTurns(p, s) PROVE <1>1!:
        <3>1. Turn /\ UNCHANGED Rest /\ UNCHANGED aged
            BY <2>2 DEF Edits, PMCloses, KalshiTurns
        <3>2. turns' \in 0..MaxTurns
            BY <2>1, <3>1 DEF Turn
        <3>3. file' \in {file, file \cup {p}, file \ {p}} /\ pmOver' \in {pmOver, pmOver \cup {p}}
            BY <2>2 DEF Edits, PMCloses, KalshiTurns
        <3> QED
            BY <2>1, <3>1, <3>2, <3>3 DEF Rest
    <2>3. ASSUME NEW v \in {"K", "P"}, Ages(v) PROVE <1>1!:
        BY <2>1, <2>3 DEF Ages, Rest, world
    <2> QED
        BY <2>2, <2>3
<1>2. kalshi' \in [Pairs -> Turns] /\ \A p \in Pairs : kalshi[p] = "over" => kalshi'[p] = "over"
    <2>1. CASE kalshi' = kalshi
        BY <2>1 DEF WInv, TypeOK
    <2>2. ASSUME NEW p \in Pairs, NEW s \in Turns, KalshiTurns(p, s) PROVE <1>2!:
        BY <2>2 DEF WInv, TypeOK, KalshiTurns
    <2> QED
        BY <2>1, <2>2 DEF Edits, PMCloses, Ages, world
<1>3. /\ word' \in Seq(Pairs \X Turns)
      /\ \A i \in 1..Len(word') : word'[i][2] = "over" => kalshi'[word'[i][1]] = "over"
    <2>0. /\ word \in Seq(Pairs \X Turns) /\ kalshi \in [Pairs -> Turns]
          /\ \A i \in 1..Len(word) : word[i][2] = "over" => kalshi[word[i][1]] = "over"
        BY DEF WInv, TypeOK, TakenForOver
    <2>1. CASE word' = word
        <3>1. \A i \in 1..Len(word) : word[i] \in Pairs \X Turns
            BY <2>0
        <3> QED
            BY <1>2, <2>0, <2>1, <3>1
    <2>2. ASSUME NEW p \in Pairs, NEW s \in Turns, KalshiTurns(p, s), word' = Append(word, <<p, s>>)
          PROVE  <1>3!:
        <3>1. /\ word' \in Seq(Pairs \X Turns) /\ Len(word') = Len(word) + 1 /\ word'[Len(word) + 1] = <<p, s>>
              /\ \A i \in 1..Len(word) : word'[i] = word[i] /\ word[i] \in Pairs \X Turns
            BY <2>0, <2>2
        <3>2. kalshi'[p] = s
            BY <2>0, <2>2 DEF KalshiTurns
        <3>3. ASSUME NEW i \in 1..Len(word'), word'[i][2] = "over" PROVE kalshi'[word'[i][1]] = "over"
            <4>1. CASE i \in 1..Len(word)
                BY <1>2, <2>0, <3>1, <3>3, <4>1
            <4>2. CASE i = Len(word) + 1
                BY <3>1, <3>2, <3>3, <4>2
            <4> QED
                BY <2>0, <3>1, <4>1, <4>2
        <3> QED
            BY <3>1, <3>3
    <2> QED
        BY <2>1, <2>2 DEF Edits, PMCloses, Ages, KalshiTurns
<1>4. TypeOK'
    BY <1>1, <1>2, <1>3 DEF WInv, TypeOK
<1>5. Answered'
    BY <1>1, <1>2 DEF WInv, Answered, TypeOK
<1>6. TakenForOver' /\ RetiredRightly'
    BY <1>1, <1>2, <1>3 DEF WInv, TakenForOver, RetiredRightly, TypeOK
<1>7. AskedAbout' /\ Learnt' /\ Shape(task')
    BY <1>1 DEF WInv, AskedAbout, Learnt, Active
<1> QED
    BY <1>4, <1>5, <1>6, <1>7 DEF WInv

-----------------------------------------------------------------------------
(* Watching: the scanner's steps *)

LEMMA Retiring ==
    ASSUME WInv, NEW ps \in SUBSET Pairs, RetireAndPrice(ps), mine' = mine,
           kmeta' \in [Pairs -> Turns \cup {"none", "missing"}], closed' \subseteq Pairs
    PROVE  /\ finished \subseteq finished' /\ finished' \subseteq Pairs /\ Active' \subseteq Active
           /\ state' \in [Pairs -> {"none", "live", "paused", "finished"}]
           /\ \A p \in finished' \ finished : kmeta'[p] = "over" \/ p \in closed'
<1>1. finished' = finished \cup Over /\ finished \subseteq Pairs /\ mine \subseteq Pairs
    BY DEF RetireAndPrice, WInv, TypeOK
<1>2. Over \subseteq Active /\ \A p \in Over : kmeta'[p] = "over" \/ p \in closed'
    BY DEF Over
<1>3. state \in [Pairs -> {"none", "live", "paused", "finished"}]
    BY DEF WInv, TypeOK
<1>4. \A p \in Pairs : Verdict(p) \in {"live", "paused"}
    BY DEF Verdict
<1>5. state' \in [Pairs -> {"none", "live", "paused", "finished"}]
    BY <1>3, <1>4 DEF RetireAndPrice
<1> QED
    BY <1>1, <1>2, <1>5 DEF Active

LEMMA HearsStep ==
    ASSUME WInv, Hears
    PROVE  WInv'
<1>1. /\ word # <<>> /\ word' = Tail(word)
      /\ UNCHANGED <<mine, priced, task, pending, aged, failed, file, kalshi, pmOver, turns>>
    BY DEF Hears, world
<1> DEFINE p == Head(word)[1]
           s == Head(word)[2]
<1>2. /\ word \in Seq(Pairs \X Turns) /\ Head(word) = word[1] /\ p \in Pairs /\ s \in Turns
      /\ 1 \in 1..Len(word) /\ Len(word') = Len(word) - 1 /\ word' \in Seq(Pairs \X Turns)
      /\ \A i \in 1..Len(word') : word'[i] = word[i + 1] /\ i + 1 \in 1..Len(word)
    <2>1. word \in Seq(Pairs \X Turns) /\ word # <<>>
        BY <1>1 DEF WInv, TypeOK
    <2>2. Head(word) \in Pairs \X Turns
        BY <2>1
    <2> QED
        BY <1>1, <2>1, <2>2
<1>3. s = "over" => kalshi[p] = "over"
    BY <1>2 DEF WInv, TakenForOver
<1>4. kmeta \in [Pairs -> Turns \cup {"none", "missing"}] /\ finished \subseteq Pairs /\ closed \subseteq pmOver /\ pmOver \subseteq Pairs
    BY DEF WInv, TypeOK, TakenForOver
<1> HIDE DEF p, s
<1>5. \/ UNCHANGED <<kmeta, closed, finished, state>>
      \/ kmeta' = [kmeta EXCEPT ![p] = s] /\ closed' = closed /\ kmeta[p] # "none"
    BY DEF Hears, p, s
<1>6. /\ kmeta' \in [Pairs -> Turns \cup {"none", "missing"}] /\ closed' = closed
      /\ \A q \in Pairs : /\ kmeta'[q] = "over" => kalshi[q] = "over"
                          /\ kmeta[q] # "none" => kmeta'[q] # "none"
    <2>1. \A q \in Pairs : kmeta[q] = "over" => kalshi[q] = "over"
        BY DEF WInv, TakenForOver
    <2> QED
        BY <1>2, <1>3, <1>4, <1>5, <2>1 DEF Turns
<1>7. /\ finished \subseteq finished' /\ finished' \subseteq Pairs /\ Active' \subseteq Active
      /\ state' \in [Pairs -> {"none", "live", "paused", "finished"}]
      /\ \A q \in finished' \ finished : kmeta'[q] = "over" \/ q \in closed
    <2>1. CASE RetireAndPrice({})
        BY <1>1, <1>4, <1>6, <2>1, Retiring
    <2>2. CASE finished' = finished /\ (state' = state \/ state' = [state EXCEPT ![p] = Verdict(p)])
        <3>1. state \in [Pairs -> {"none", "live", "paused", "finished"}] /\ Verdict(p) \in {"live", "paused"}
            BY DEF WInv, TypeOK, Verdict
        <3> QED
            BY <1>1, <1>4, <2>2, <3>1 DEF Active
    <2>3. RetireAndPrice({}) \/ (finished' = finished /\ (state' = state \/ state' = [state EXCEPT ![p] = Verdict(p)]))
        BY DEF Hears, p, s
    <2> QED
        BY <2>1, <2>2, <2>3
<1>8. TypeOK'
    BY <1>1, <1>2, <1>4, <1>6, <1>7 DEF WInv, TypeOK
<1>9. TakenForOver'
    BY <1>1, <1>2, <1>4, <1>6 DEF WInv, TakenForOver
<1>10. RetiredRightly'
    BY <1>1, <1>4, <1>6, <1>7 DEF WInv, RetiredRightly
<1>11. AskedAbout' /\ Learnt' /\ Answered' /\ Shape(task')
    <2>1. task.ask \subseteq Pairs /\ mine \subseteq Pairs
        BY DEF WInv, TypeOK
    <2> QED
        BY <1>1, <1>6, <1>7, <2>1 DEF WInv, AskedAbout, Learnt, Active, Answered
<1> QED
    BY <1>8, <1>9, <1>10, <1>11 DEF WInv

LEMMA EvaluatesStep ==
    ASSUME WInv, NEW p \in Pairs, Evaluates(p)
    PROVE  WInv'
<1>1. /\ state' = [state EXCEPT ![p] = Verdict(p)] /\ Verdict(p) \in {"live", "paused"}
      /\ UNCHANGED <<mine, finished, kmeta, priced, closed, task, pending, aged, word, failed, file, kalshi, pmOver, turns>>
    BY DEF Evaluates, world, Verdict
<1>2. TypeOK'
    BY <1>1 DEF WInv, TypeOK
<1> QED
    BY <1>1, <1>2 DEF WInv, Answered, TakenForOver, RetiredRightly, AskedAbout, Learnt, Active

LEMMA TickStep ==
    ASSUME WInv, Tick
    PROVE  WInv'
<1>1. /\ mine' = file /\ UNCHANGED <<finished, kmeta, priced, closed, aged, word, failed, file, kalshi, pmOver, turns>>
      /\ file \subseteq Pairs
    BY DEF Tick, Reindex, world, WInv, TypeOK
<1>2. state' \in [Pairs -> {"none", "live", "paused", "finished"}]
    BY DEF Tick, Reindex, WInv, TypeOK
<1> DEFINE active == file \ finished
<1>3. \/ /\ task' = task /\ pending' = (pending \/ file # mine)
         /\ ~pending' => task.stage # "idle" \/ aged = {}
      \/ /\ task.stage = "idle" /\ pending' = FALSE
         /\ task' = [Idle EXCEPT !.stage = "ask", !.whole = "K" \in aged,
                                 !.ask = IF "K" \in aged THEN active ELSE {p \in active : kmeta[p] = "none"}]
    BY DEF Tick, Pending
<1>4. CASE /\ task' = task /\ pending' = (pending \/ file # mine)
           /\ ~pending' => task.stage # "idle" \/ aged = {}
    <2>1. pending' \in BOOLEAN /\ (~pending' => ~pending /\ mine' = mine)
        BY <1>1, <1>4
    <2>2. TypeOK'
        BY <1>1, <1>2, <1>4, <2>1 DEF WInv, TypeOK
    <2>3. AskedAbout'
        BY <1>1, <1>4, <2>1 DEF WInv, AskedAbout, Active
    <2> QED
        BY <1>1, <1>4, <2>2, <2>3 DEF WInv, Answered, TakenForOver, RetiredRightly, Learnt
<1>5. CASE /\ task.stage = "idle" /\ pending' = FALSE
           /\ task' = [Idle EXCEPT !.stage = "ask", !.whole = "K" \in aged,
                                   !.ask = IF "K" \in aged THEN active ELSE {p \in active : kmeta[p] = "none"}]
    <2> DEFINE whole == "K" \in aged
               ask == IF "K" \in aged THEN active ELSE {p \in active : kmeta[p] = "none"}
    <2>0. whole \in BOOLEAN /\ Begun(task', whole, ask)
        BY <1>5 DEF Begun
    <2> HIDE DEF whole
    <2>1. /\ task'.stage = "ask" /\ task'.whole \in BOOLEAN /\ DOMAIN task'.got = {}
          /\ task'.ask = ask /\ Shape(task')
        <3> HIDE DEF ask
        <3>1. task'.stage = "ask" /\ task'.whole = whole /\ task'.ask = ask /\ task'.got = <<>> /\ Shape(task')
            BY ONLY <2>0, Asking, Zenon
        <3>2. DOMAIN <<>> = {}
            OBVIOUS
        <3> QED
            BY <2>0, <3>1, <3>2, Zenon
    <2>2. task'.ask \subseteq Pairs /\ \A p \in active : kmeta[p] # "none" \/ p \in task'.ask
        BY <1>1, <2>1
    <2>3. TypeOK'
        BY <1>1, <1>2, <1>5, <2>1, <2>2 DEF WInv, TypeOK, Stages
    <2>4. AskedAbout'
        BY <1>1, <2>1, <2>2 DEF AskedAbout, Active
    <2> QED
        BY <1>1, <2>1, <2>3, <2>4 DEF WInv, Answered, TakenForOver, RetiredRightly, Learnt
<1> QED
    BY <1>3, <1>4, <1>5

LEMMA AnswersStep ==
    ASSUME WInv, Answers
    PROVE  WInv'
<1>1. PICK of \in SUBSET task.ask :
          Whole(of, task.ask) /\ task' = [task EXCEPT !.stage = "answered", !.got = [p \in of |-> kalshi[p]]]
    BY DEF Answers
<1>2. /\ UNCHANGED <<mine, finished, kmeta, priced, closed, state, pending, aged, word, failed>>
      /\ UNCHANGED <<file, kalshi, pmOver>> /\ task.stage = "ask"
    BY DEF Answers
<1>3. turns' \in 0..MaxTurns
    BY <1>1, PairsAssumption DEF Whole, Turn, WInv, TypeOK
<1>4. /\ task'.stage = "answered" /\ task'.ask = task.ask /\ task'.whole = task.whole
      /\ task'.got = [p \in of |-> kalshi[p]] /\ Shape(task')
    <2> DEFINE got == [p \in of |-> kalshi[p]]
    <2>1. Moved(task', task, "answered", got) /\ Shape(task)
        BY <1>1 DEF WInv, Moved
    <2> HIDE DEF got
    <2>2. /\ task'.stage = "answered" /\ task'.ask = task.ask /\ task'.whole = task.whole
          /\ task'.got = got /\ Shape(task')
        BY ONLY <2>1, Moving
    <2> QED
        BY <2>2 DEF got
<1>5. TypeOK'
    BY <1>2, <1>3, <1>4 DEF WInv, TypeOK, Stages
<1>6. Answered'
    BY <1>2, <1>4 DEF WInv, TypeOK, Answered
<1>7. AskedAbout' /\ Learnt'
    BY <1>2, <1>4 DEF WInv, AskedAbout, Active, Learnt
<1> QED
    BY <1>2, <1>4, <1>5, <1>6, <1>7 DEF WInv, TakenForOver, RetiredRightly

LEMMA LearnsStep ==
    ASSUME WInv, Learns
    PROVE  WInv'
<1>1. /\ task.stage = "answered" /\ kmeta' = [p \in Pairs |-> IF p \in task.ask THEN Known(p) ELSE kmeta[p]]
      /\ aged' \subseteq aged /\ task' = [task EXCEPT !.stage = "pm", !.got = <<>>]
      /\ UNCHANGED <<mine, finished, priced, closed, state, pending, word, failed, file, kalshi, pmOver, turns>>
    BY DEF Learns, world
<1>2. task'.stage = "pm" /\ task'.ask = task.ask /\ task'.whole = task.whole /\ DOMAIN task'.got = {} /\ Shape(task')
    <2>1. task'.stage = "pm" /\ task'.ask = task.ask /\ task'.whole = task.whole /\ task'.got = <<>> /\ Shape(task')
        <3>1. Moved(task', task, "pm", <<>>) /\ Shape(task)
            BY <1>1 DEF WInv, Moved
        <3> QED
            BY ONLY <3>1, Moving, Zenon
    <2>2. DOMAIN <<>> = {}
        OBVIOUS
    <2> QED
        BY <2>1, <2>2, Zenon
<1>3. ASSUME NEW p \in Pairs
      PROVE  /\ Known(p) \in Turns \cup {"missing"} /\ (Known(p) = "over" => kalshi[p] = "over")
    <2>1. kmeta[p] \in Turns \cup {"none", "missing"} /\ (kmeta[p] = "over" => kalshi[p] = "over")
        BY DEF WInv, TypeOK, TakenForOver
    <2> QED
        BY <2>1 DEF WInv, Answered, Known, Turns
<1>4. /\ kmeta' \in [Pairs -> Turns \cup {"none", "missing"}]
      /\ \A p \in Pairs : /\ kmeta'[p] = "over" => kalshi[p] = "over"
                          /\ p \in task.ask \/ kmeta[p] # "none" => kmeta'[p] # "none"
    BY <1>1, <1>3 DEF WInv, TypeOK, TakenForOver, Turns
<1>5. TypeOK'
    BY <1>1, <1>2, <1>4 DEF WInv, TypeOK, Stages
<1>6. TakenForOver'
    BY <1>1, <1>4 DEF WInv, TakenForOver
<1>7. AskedAbout' /\ Learnt'
    <2>1. task.ask \subseteq Pairs /\ mine \subseteq Pairs
        BY DEF WInv, TypeOK
    <2> QED
        BY <1>1, <1>2, <1>4, <2>1 DEF WInv, AskedAbout, Active, Learnt
<1> QED
    BY <1>1, <1>2, <1>5, <1>6, <1>7 DEF WInv, Answered, RetiredRightly

LEMMA ClosesStep ==
    ASSUME WInv, Closes
    PROVE  WInv'
<1>1. /\ task.stage = "pm" /\ kmeta' = kmeta /\ RetireAndPrice(Active) /\ aged' \subseteq aged /\ task' = Idle
      /\ failed' = (failed /\ ~(task.whole /\ task.ask = Active))
      /\ UNCHANGED <<mine, pending, word, file, kalshi, pmOver>>
    BY DEF Closes
<1>2. PICK ms \in {IF "P" \in aged THEN Active ELSE Active \ priced} :
          \E of \in SUBSET ms : Whole(of, ms) /\ closed' = closed \cup (of \cap pmOver) /\ priced' = priced \cup of
    BY DEF Closes
<1>3. /\ kmeta \in [Pairs -> Turns \cup {"none", "missing"}] /\ Active \subseteq Pairs /\ pmOver \subseteq Pairs
      /\ closed \subseteq pmOver /\ priced \subseteq Pairs /\ turns \in 0..MaxTurns
    BY DEF WInv, TypeOK, Active, TakenForOver
<1>4. turns' \in 0..MaxTurns /\ closed' \subseteq pmOver /\ priced' \subseteq Pairs
    BY <1>2, <1>3, PairsAssumption DEF Whole, Turn
<1>5. /\ finished \subseteq finished' /\ finished' \subseteq Pairs /\ Active' \subseteq Active
      /\ state' \in [Pairs -> {"none", "live", "paused", "finished"}]
      /\ \A p \in finished' \ finished : kmeta'[p] = "over" \/ p \in closed'
    BY <1>1, <1>3, <1>4, Retiring
<1>6. task'.stage = "idle" /\ task'.ask = {} /\ task'.whole = FALSE /\ DOMAIN task'.got = {} /\ Shape(task')
    BY <1>1, IdleShape, Zenon
<1>7. TypeOK'
    BY <1>1, <1>3, <1>4, <1>5, <1>6 DEF WInv, TypeOK, Stages
<1>8. TakenForOver' /\ RetiredRightly'
    BY <1>1, <1>3, <1>4, <1>5 DEF WInv, TakenForOver, RetiredRightly
<1>9. AskedAbout'
    <2>1. ASSUME ~failed', ~pending, NEW p \in Active PROVE kmeta[p] # "none"
        <3>1. CASE ~failed
            BY <1>1, <2>1, <3>1 DEF WInv, AskedAbout, Learnt
        <3>2. CASE failed
            BY <1>1, <2>1, <3>2 DEF WInv, Learnt
        <3> QED
            BY <3>1, <3>2
    <2> QED
        BY <1>1, <1>5, <2>1 DEF AskedAbout
<1> QED
    BY <1>6, <1>7, <1>8, <1>9 DEF WInv, Answered, Learnt

LEMMA FailsStep ==
    ASSUME WInv, Fails
    PROVE  WInv'
<1>1. /\ task' = Idle /\ aged' = {} /\ failed' = TRUE /\ Turn
      /\ UNCHANGED <<mine, finished, kmeta, priced, closed, state, pending, word, file, kalshi, pmOver>>
    BY DEF Fails
<1>2. task'.stage = "idle" /\ task'.ask = {} /\ task'.whole = FALSE /\ DOMAIN task'.got = {} /\ Shape(task')
    BY <1>1, IdleShape, Zenon
<1>3. turns' \in 0..MaxTurns
    BY <1>1, PairsAssumption DEF Turn, WInv, TypeOK
<1>4. TypeOK'
    BY <1>1, <1>2, <1>3 DEF WInv, TypeOK, Stages
<1> QED
    BY <1>1, <1>2, <1>4 DEF WInv, Answered, TakenForOver, RetiredRightly, AskedAbout, Learnt

LEMMA WatchStep ==
    ASSUME WInv, [Next]_vars
    PROVE  WInv'
<1>1. CASE UNCHANGED vars
    BY <1>1 DEF vars, WInv, TypeOK, Answered, TakenForOver, RetiredRightly, AskedAbout, Learnt, Active
<1>2. CASE Next
    <2>1. ASSUME NEW p \in Pairs, Evaluates(p) PROVE WInv'
        BY <2>1, EvaluatesStep
    <2> QED
        BY <1>2, <2>1, WorldStep, HearsStep, TickStep, AnswersStep, LearnsStep, ClosesStep, FailsStep DEF Next, Refreshes
<1> QED
    BY <1>1, <1>2

LEMMA WatchSafe == WInv => TypeOK /\ NoneForgotten /\ RetiredRightly
<1> SUFFICES ASSUME WInv PROVE TypeOK /\ NoneForgotten /\ RetiredRightly
    OBVIOUS
<1>1. NoneForgotten
    BY DEF WInv, AskedAbout, NoneForgotten
<1> QED
    BY <1>1 DEF WInv

\* With no refresh under way or wanted and none failed, something is known of every pair
\* watched, and no pair is retired before a market of its is over (LiveScanner.refresh_meta,
\* _retire_finished): for any pairs, and however edits of the file, ends of markets, events that
\* are lost or late, answers that leave markets out and failures interleave.
THEOREM NoneForgottenOrLost == MCSpec => [](TypeOK /\ NoneForgotten /\ RetiredRightly)
<1>1. MCInit => WInv
    BY WatchInit DEF MCInit
<1>2. WInv /\ [MCNext]_all => WInv'
    <2>1. [MCNext]_all => [Next]_vars
        BY DEF MCNext, Watches, Records, Works, all
    <2> QED
        BY <2>1, WatchStep
<1> QED
    BY <1>1, <1>2, WatchSafe, PTL DEF MCSpec

-----------------------------------------------------------------------------
(* Jobs *)

JInv == Job!TypeOK /\ Job!OneRefresh

LEMMA JobsInit == Job!Init => JInv
<1> SUFFICES ASSUME Job!Init PROVE JInv
    OBVIOUS
<1>1. RefreshStages \in Nat /\ Doublings \in Nat
    BY UpkeepAssumption DEF Job!AtLeastOneStage
<1>2. 0 \in 0..RefreshStages /\ 0 \in 0..Doublings
    BY <1>1
<1>3. run = "idle" /\ proc = "none" /\ loose = 0 /\ child = "none"
    BY DEF Job!Init
<1>4. (run = "reads") = (proc # "none")
    BY <1>3
<1>5. stop \in BOOLEAN /\ next \in {"none", "later", "due"}
    BY DEF Job!Init
<1>6. scheduler \in {"waits", "watches", "cancels", "gone"}
    BY DEF Job!Init
<1>7. run \in {"idle", "spawns", "reads"} /\ stage \in 0..RefreshStages
    BY <1>2 DEF Job!Init
<1>8. daemon \in {"starts", "runs", "stops", "waits", "gone"} /\ backoff \in 0..Doublings
    BY <1>2 DEF Job!Init
<1> QED
    BY <1>3, <1>4, <1>5, <1>6, <1>7, <1>8 DEF JInv, Job!TypeOK, Job!OneRefresh

LEMMA JobsStep ==
    ASSUME JInv, Job!Next
    PROVE  JInv'
<1>0. RefreshStages \in Nat /\ Doublings \in Nat /\ RefreshStages > 0
    BY UpkeepAssumption DEF Job!AtLeastOneStage
<1> USE <1>0 DEF JInv, Job!TypeOK, Job!OneRefresh, Job!Running, Job!Ended
<1>1. CASE Job!Trigger
    BY <1>1 DEF Job!Trigger, Job!Idle, Job!Begins, Job!keeper
<1>2. CASE Job!Task
    BY <1>2 DEF Job!Task, Job!Spawn, Job!StageEnds, Job!Finish, Job!NextRun, Job!keeper
<1>3. CASE Job!Schedule \/ Job!Watch
    BY <1>3 DEF Job!Schedule, Job!Watch, Job!Idle, Job!Begins, Job!keeper
<1>4. CASE Job!Cancel \/ Job!Cancelled
    BY <1>4 DEF Job!Cancel, Job!Cancelled, Job!keeper
<1>5. CASE Job!ProcEnds \/ Job!Due \/ Job!Stop
    BY <1>5 DEF Job!ProcEnds, Job!Due, Job!Stop, Job!keeper, Job!refresh
<1>8. CASE Job!LooseEnds
    <2>1. loose' \in Nat /\ (loose = 0 => FALSE)
        BY <1>8 DEF Job!LooseEnds
    <2> QED
        BY <1>8, <2>1 DEF Job!LooseEnds, Job!keeper
<1>6. CASE Job!ChildEnds \/ Job!DaemonStarts \/ Job!DaemonNotes
    BY <1>6 DEF Job!ChildEnds, Job!DaemonStarts, Job!DaemonNotes, Job!BacksOff, Job!refresh
<1>7. CASE Job!DaemonAgain \/ Job!DaemonStops
    BY <1>7 DEF Job!DaemonAgain, Job!DaemonStops, Job!refresh
<1> QED
    BY <1>1, <1>2, <1>3, <1>4, <1>5, <1>6, <1>7, <1>8 DEF Job!Next, Job!Scheduler, Job!Keeper

\* While the service runs no process of a refresh goes on that no task waits for, so there is one
\* refresh at a time, whether the scheduler begins it or someone asks for it (RefreshJob.trigger,
\* scheduler, cancel): for any number of stages, and wherever the stop comes.
THEOREM OneAtATime == MCSpec => [](Job!TypeOK /\ Job!OneRefresh)
<1>1. MCInit => JInv
    BY JobsInit DEF MCInit
<1>2. JInv /\ [MCNext]_all => JInv'
    <2>1. CASE UNCHANGED jobs
        BY <2>1 DEF jobs, JInv, Job!TypeOK, Job!OneRefresh
    <2>2. CASE Job!Next
        BY <2>2, JobsStep
    <2> QED
        BY <2>1, <2>2 DEF MCNext, Watches, Records, Works, all
<1>3. JInv => Job!TypeOK /\ Job!OneRefresh
    BY DEF JInv
<1> QED
    BY <1>1, <1>2, <1>3, PTL DEF MCSpec

-----------------------------------------------------------------------------
(* Results *)

Seen == Values \cup Firsts \cup {Result!Unknown}
Rows == [yes : Seen, paid : BOOLEAN]
Truths == [stage : {"open", "shown", "paid"}, yes : Seen]

\* The row r says nothing of m, whose state is tr, that the venue hasn't: no result before it
\* showed one, no other than it shows unless it may have paid another, no payment before it paid.
Borne(tr, r, m) ==
    /\ r.yes # Result!Unknown => tr.stage # "open"
    /\ m \notin Live => r.yes \in {Result!Unknown, tr.yes}
    /\ r.paid => tr.stage = "paid"

\* What is on the ledger is what was paid.
PaidSo(tr, y) == y # Result!Unknown => tr.stage = "paid" /\ y = tr.yes

\* No result on record that the venue hasn't shown, and no payout but as it was paid.
NothingInvented ==
    \A m \in Result!Markets : Borne(truth[m], row[m], m) /\ PaidSo(truth[m], ledger[m])

\* What Kalshi said to the pass under way is borne out too, since it is saved later.
RInv ==
    /\ truth \in [Result!Markets -> Truths] /\ row \in [Result!Markets -> Rows]
    /\ ledger \in [Result!Markets -> Seen]
    /\ \A m \in Result!Markets : truth[m].stage = "open" => truth[m].yes = Result!Unknown
    /\ NothingInvented
    /\ \A m \in pass.todo \cap Kalshi : pass.said[m] \in Rows /\ Borne(truth[m], pass.said[m], m)

LEMMA NobodySaid == Result!NoPass.todo = {}
<1>1. ASSUME NEW e, NEW q, q = [todo |-> {}, said |-> e] PROVE q.todo = {}
    BY <1>1
<1> QED
    BY <1>1, Zenon DEF Result!NoPass

LEMMA NoRowBorne ==
    /\ Result!NoRow \in Rows /\ Result!NoRow.yes = Result!Unknown
    /\ \A tr, m : Borne(tr, Result!NoRow, m)
BY DEF Result!NoRow, Rows, Seen, Borne

LEMMA ResultsInit == Result!Init => RInv
<1> SUFFICES ASSUME Result!Init PROVE RInv
    OBVIOUS
<1>1. /\ truth = [m \in Result!Markets |-> [stage |-> "open", yes |-> Result!Unknown]]
      /\ ledger = [m \in Result!Markets |-> Result!Unknown]
      /\ row = [m \in Result!Markets |-> Result!NoRow] /\ pass = Result!NoPass
    BY DEF Result!Init
<1>2. /\ truth \in [Result!Markets -> Truths] /\ ledger \in [Result!Markets -> Seen]
      /\ \A m \in Result!Markets : truth[m].yes = Result!Unknown
    BY <1>1 DEF Truths, Seen
<1>3. row \in [Result!Markets -> Rows] /\ \A m \in Result!Markets : row[m] = Result!NoRow
    BY <1>1, NoRowBorne
<1>4. NothingInvented
    BY <1>1, <1>3, NoRowBorne DEF NothingInvented, PaidSo
<1>5. pass.todo = {}
    BY <1>1, NobodySaid
<1> QED
    BY <1>2, <1>3, <1>4, <1>5 DEF RInv

\* The market goes on: what was borne out is so still.
LEMMA GoesOn ==
    ASSUME NEW m, NEW tr \in Truths, NEW to \in Truths, NEW r \in Rows, Borne(tr, r, m),
           tr.stage = "open" => tr.yes = Result!Unknown,
           \/ tr.stage = "open" /\ to.stage = "shown"
           \/ tr.stage = "shown" /\ to.stage = "paid" /\ m \in Live
    PROVE  Borne(to, r, m)
BY DEF Borne, Truths, Rows

LEMMA TruthStep ==
    ASSUME RInv, NEW m \in Result!Markets, Result!Shows(m) \/ Result!Pays(m)
    PROVE  RInv'
<1>1. /\ UNCHANGED <<ledger, row, pass>> /\ truth \in [Result!Markets -> Truths]
      /\ ledger \in [Result!Markets -> Seen] /\ row \in [Result!Markets -> Rows]
      /\ \A k \in Result!Markets : truth[k].stage = "open" => truth[k].yes = Result!Unknown
    BY DEF RInv, Result!Shows, Result!Pays
<1>2. PICK to \in Truths : /\ truth' = [truth EXCEPT ![m] = to]
                           /\ \/ truth[m].stage = "open" /\ to.stage = "shown"
                              \/ truth[m].stage = "shown" /\ to.stage = "paid" /\ m \in Live
    <2>1. CASE Result!Shows(m)
        <3>1. PICK y \in Firsts : truth' = [truth EXCEPT ![m] = [stage |-> "shown", yes |-> y]]
            BY <2>1 DEF Result!Shows
        <3>2. [stage |-> "shown", yes |-> y] \in Truths
            BY DEF Truths, Seen
        <3> QED
            BY <2>1, <3>1, <3>2 DEF Result!Shows
    <2>2. CASE Result!Pays(m)
        <3>1. PICK y \in Values : truth' = [truth EXCEPT ![m] = [stage |-> "paid", yes |-> y]]
            BY <2>2 DEF Result!Pays
        <3>2. [stage |-> "paid", yes |-> y] \in Truths
            BY DEF Truths, Seen
        <3> QED
            BY <2>2, <3>1, <3>2 DEF Result!Pays
    <2> QED
        BY <2>1, <2>2
<1>3. /\ truth' \in [Result!Markets -> Truths] /\ truth'[m] = to
      /\ \A k \in Result!Markets : k # m => truth'[k] = truth[k]
    BY <1>1, <1>2
<1>4. ASSUME NEW k \in Result!Markets, NEW r \in Rows, Borne(truth[k], r, k) PROVE Borne(truth'[k], r, k)
    <2>1. CASE k = m
        BY <1>1, <1>2, <1>3, <1>4, <2>1, GoesOn
    <2>2. CASE k # m
        BY <1>3, <1>4, <2>2
    <2> QED
        BY <2>1, <2>2
<1>5. ASSUME NEW k \in Result!Markets
      PROVE  /\ Borne(truth'[k], row'[k], k) /\ PaidSo(truth'[k], ledger'[k])
             /\ truth'[k].stage = "open" => truth'[k].yes = Result!Unknown
    <2>1. Borne(truth[k], row[k], k) /\ PaidSo(truth[k], ledger[k]) /\ row[k] \in Rows
        BY <1>1 DEF RInv, NothingInvented
    <2>2. Borne(truth'[k], row'[k], k)
        BY <1>1, <1>4, <2>1
    <2>3. PaidSo(truth'[k], ledger'[k]) /\ (truth'[k].stage = "open" => truth'[k].yes = Result!Unknown)
        BY <1>1, <1>2, <1>3, <2>1 DEF PaidSo
    <2> QED
        BY <2>2, <2>3
<1>6. \A k \in pass'.todo \cap Kalshi : pass'.said[k] \in Rows /\ Borne(truth'[k], pass'.said[k], k)
    BY <1>1, <1>4 DEF RInv, Result!Markets
<1> QED
    BY <1>1, <1>3, <1>5, <1>6 DEF RInv, NothingInvented

LEMMA FoundStep ==
    ASSUME RInv, NEW m \in Result!Markets, Result!Found(m)
    PROVE  RInv'
<1>1. /\ UNCHANGED <<truth, row, pass>> /\ truth[m].stage = "paid"
      /\ ledger' = [ledger EXCEPT ![m] = truth[m].yes]
    BY DEF Result!Found
<1>2. /\ truth \in [Result!Markets -> Truths] /\ ledger \in [Result!Markets -> Seen]
      /\ truth[m].yes \in Seen
    BY DEF RInv, Truths
<1>3. ledger' \in [Result!Markets -> Seen] /\ \A k \in Result!Markets : PaidSo(truth[k], ledger'[k])
    BY <1>1, <1>2 DEF RInv, NothingInvented, PaidSo
<1> QED
    BY <1>1, <1>3 DEF RInv, NothingInvented

LEMMA SaysBorne ==
    ASSUME RInv, NEW m \in Result!Markets
    PROVE  Result!Says(m) \in Rows /\ Borne(truth[m], Result!Says(m), m)
<1>1. truth[m] \in Truths /\ (truth[m].stage = "open" => truth[m].yes = Result!Unknown)
    BY DEF RInv
<1> QED
    BY <1>1 DEF Result!Says, Borne, Rows, Truths

\* A row stays borne out when what is is written into it.
LEMMA UpsertBorne ==
    ASSUME NEW m, NEW tr, NEW r \in Rows, Borne(tr, r, m), NEW said \in Rows, Borne(tr, said, m)
    PROVE  Result!Upsert(r, said) \in Rows /\ Borne(tr, Result!Upsert(r, said), m)
BY DEF Result!Upsert, Borne, Rows

LEMMA LifecycleStep ==
    ASSUME RInv, NEW m \in Result!Markets, Result!Lifecycle(m)
    PROVE  RInv'
<1>1. PICK yes \in {truth[m].yes, Result!Unknown} :
          row' = [row EXCEPT ![m] = Result!Upsert(row[m], [Result!Says(m) EXCEPT !.yes = yes])]
    BY DEF Result!Lifecycle
<1>2. UNCHANGED <<truth, ledger, pass>> /\ row \in [Result!Markets -> Rows] /\ truth[m] \in Truths
    BY DEF Result!Lifecycle, RInv
<1> DEFINE said == [Result!Says(m) EXCEPT !.yes = yes]
<1>3. said \in Rows /\ Borne(truth[m], said, m)
    <2>1. Result!Says(m) = [yes |-> truth[m].yes, paid |-> truth[m].stage = "paid"]
        BY DEF Result!Says
    <2>2. yes \in Seen /\ said = [yes |-> yes, paid |-> truth[m].stage = "paid"]
        BY <1>1, <1>2, <2>1 DEF Seen, Truths
    <2>3. truth[m].stage = "open" => truth[m].yes = Result!Unknown
        BY DEF RInv
    <2> QED
        BY <1>1, <1>2, <2>2, <2>3 DEF Borne, Rows
<1> HIDE DEF said
<1>4. /\ row[m] \in Rows /\ Borne(truth[m], row[m], m)
    BY <1>2 DEF RInv, NothingInvented
<1>5. Result!Upsert(row[m], said) \in Rows /\ Borne(truth[m], Result!Upsert(row[m], said), m)
    BY <1>3, <1>4, UpsertBorne
<1>6. row' = [row EXCEPT ![m] = Result!Upsert(row[m], said)]
    BY <1>1 DEF said
<1>7. row' \in [Result!Markets -> Rows] /\ \A k \in Result!Markets : Borne(truth[k], row'[k], k)
    BY <1>2, <1>5, <1>6 DEF RInv, NothingInvented
<1> QED
    BY <1>2, <1>7 DEF RInv, NothingInvented

LEMMA PassStep ==
    ASSUME RInv, Result!Begins \/ Result!Fails
    PROVE  RInv'
<1>1. UNCHANGED <<truth, ledger, row>>
    BY DEF Result!Begins, Result!Fails
<1>2. \A m \in pass'.todo \cap Kalshi : pass'.said[m] \in Rows /\ Borne(truth[m], pass'.said[m], m)
    <2>1. CASE Result!Fails
        BY <2>1, NobodySaid DEF Result!Fails
    <2>2. CASE Result!Begins
        <3>1. PICK todo : pass' = [todo |-> todo, said |-> [m \in todo \cap Kalshi |-> Result!Says(m)]]
            BY <2>2, Zenon DEF Result!Begins
        <3>2. pass'.todo = todo /\ pass'.said = [m \in todo \cap Kalshi |-> Result!Says(m)]
            BY <3>1
        <3> QED
            BY <3>2, SaysBorne DEF Result!Markets
    <2> QED
        BY <2>1, <2>2
<1> QED
    BY <1>1, <1>2 DEF RInv, NothingInvented

LEMMA SavesStep ==
    ASSUME RInv, NEW of \in SUBSET Result!Markets, Result!Saves(of)
    PROVE  RInv'
<1> DEFINE said(m) == IF m \notin of THEN Result!NoRow ELSE IF m \in Kalshi THEN pass.said[m] ELSE Result!Says(m)
<1>1. /\ UNCHANGED <<truth, ledger>> /\ pass' = Result!NoPass /\ of \subseteq pass.todo
      /\ row' = [m \in Result!Markets |-> IF m \notin pass.todo THEN row[m] ELSE Result!Upsert(row[m], said(m))]
    BY DEF Result!Saves
<1>2. ASSUME NEW m \in Result!Markets PROVE row'[m] \in Rows /\ Borne(truth[m], row'[m], m)
    <2>1. row[m] \in Rows /\ Borne(truth[m], row[m], m)
        BY DEF RInv, NothingInvented
    <2>2. CASE m \notin pass.todo
        BY <1>1, <2>1, <2>2
    <2>3. CASE m \in pass.todo
        <3>1. said(m) \in Rows /\ Borne(truth[m], said(m), m)
            BY <2>3, NoRowBorne, SaysBorne DEF RInv
        <3> HIDE DEF said
        <3>2. Result!Upsert(row[m], said(m)) \in Rows /\ Borne(truth[m], Result!Upsert(row[m], said(m)), m)
            BY <2>1, <3>1, UpsertBorne
        <3> QED
            BY <1>1, <2>3, <3>2
    <2> QED
        BY <2>2, <2>3
<1>3. row' \in [Result!Markets -> Rows] /\ pass'.todo = {}
    BY <1>1, <1>2, NobodySaid
<1> QED
    BY <1>1, <1>2, <1>3 DEF RInv, NothingInvented

\* No result goes on record that the venue hasn't shown, for any markets, values and batches: not
\* when a pass is saved after Kalshi's events have told of more, not when answers leave markets out;
\* a market no live trade is on has the result it shows, and the ledger what was paid (results.py).
THEOREM NoResultInvented == MCSpec => []NothingInvented
<1>1. MCInit => RInv
    BY ResultsInit DEF MCInit
<1>2. RInv /\ [MCNext]_all => RInv'
    <2>1. CASE RInv /\ UNCHANGED result
        BY <2>1 DEF result, RInv, NothingInvented
    <2>2. CASE RInv /\ Result!Next
        BY <2>2, TruthStep, FoundStep, LifecycleStep, PassStep, SavesStep DEF Result!Next
    <2> QED
        BY <2>1, <2>2 DEF MCNext, Watches, Records, Works, all
<1>3. RInv => NothingInvented
    BY DEF RInv
<1> QED
    BY <1>1, <1>2, <1>3, PTL DEF MCSpec
=============================================================================
