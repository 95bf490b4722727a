------------------------------ MODULE Watching ------------------------------
(***************************************************************************)
(* Which pairs the streaming scanner prices, and on what it knows of their *)
(* markets (live.py: the tick of run_forever, _reindex, refresh_meta,      *)
(* _retire_finished, _on_lifecycle; scanner.py refresh_kalshi_meta). The   *)
(* venues are asked in the background, Kalshi and then Polymarket US,      *)
(* while the tick, the feeds' word of a market's life and the pair file go *)
(* on. The books are taken to be ready: what is missing is the metadata.   *)
(* Every change of the pair file is taken to be seen (but see Pairing).    *)
(*                                                                         *)
(* Each pair has two markets of its own, named by it.                      *)
(***************************************************************************)
EXTENDS Integers, Sequences, FiniteSets

CONSTANTS Pairs,     \* the pairs
          First,     \* those in the file to begin with
          MaxTurns   \* bound: changes of the markets and of the pair file, failed requests, and
             \* answers that leave markets out

ASSUME PairsAssumption == First \subseteq Pairs /\ MaxTurns \in Nat

VARIABLES file,      \* the pairs in pairs.csv
          mine,      \* those the scanner has indexed (PairFile.pairs)
          finished,  \* the pairs retired for good
          kmeta,     \* what is known of a pair's Kalshi market
          priced,    \* PM markets whose fee is known (pm_coef)
          closed,    \* PM markets the venue has said are closed (pm_closed)
          state,     \* pair_state: what the dashboard shows, and whether windows may be open
          task,      \* the refresh under way
          pending,   \* _meta_pending
          aged,      \* venues whose metadata is older than meta_refresh_s
          kalshi,    \* the Kalshi markets as they are
          pmOver,    \* the Polymarket US markets that have closed
          word,      \* lifecycle events on their way
          turns,     \* how much has changed
          failed     \* a refresh failed, and no whole one has gone through since

vars == <<file, mine, finished, kmeta, priced, closed, state, task, pending, aged,
          kalshi, pmOver, word, turns, failed>>
world == <<file, kalshi, pmOver, turns>>

Turns == {"active", "paused", "over"}
Idle == [stage |-> "idle", ask |-> {}, whole |-> FALSE, got |-> <<>>]
Stages == {"idle", "ask", "answered", "pm"}

TypeOK == /\ file \subseteq Pairs /\ mine \subseteq Pairs /\ finished \subseteq Pairs
          /\ kmeta \in [Pairs -> Turns \cup {"none", "missing"}]
          /\ priced \subseteq Pairs /\ closed \subseteq Pairs /\ pmOver \subseteq Pairs
          /\ state \in [Pairs -> {"none", "live", "paused", "finished"}]
          /\ task.stage \in Stages /\ task.ask \subseteq Pairs /\ task.whole \in BOOLEAN
          /\ DOMAIN task.got \subseteq task.ask
          /\ pending \in BOOLEAN /\ aged \subseteq {"K", "P"} /\ failed \in BOOLEAN
          /\ kalshi \in [Pairs -> Turns] /\ turns \in 0..MaxTurns
          /\ word \in Seq(Pairs \X Turns)

Init == /\ file = First /\ mine = file /\ finished = {}
        /\ kmeta = [p \in Pairs |-> "none"] /\ priced = {} /\ closed = {}
        /\ state = [p \in Pairs |-> "none"]
        /\ task = Idle /\ pending = FALSE /\ aged = {"K", "P"}
        /\ kalshi = [p \in Pairs |-> "active"] /\ pmOver = {} /\ word = <<>>
        /\ turns = 0 /\ failed = FALSE

(***************************************************************************)
(* The venues and the pair file.                                           *)
(***************************************************************************)
Turn == turns < MaxTurns /\ turns' = turns + 1
Rest == <<mine, finished, kmeta, priced, closed, state, task, pending, failed>>

Edits(p) == /\ Turn /\ file' = IF p \in file THEN file \ {p} ELSE file \cup {p}
            /\ UNCHANGED <<kalshi, pmOver, word, aged>> /\ UNCHANGED Rest

\* A Kalshi market is paused, or goes on, or ends; the event may never arrive.
KalshiTurns(p, s) == /\ Turn /\ kalshi[p] # s /\ kalshi[p] # "over"
                     /\ kalshi' = [kalshi EXCEPT ![p] = s]
                     /\ word' \in {word, Append(word, <<p, s>>)}
                     /\ UNCHANGED <<file, pmOver, aged>> /\ UNCHANGED Rest

PMCloses(p) == /\ Turn /\ p \notin pmOver /\ pmOver' = pmOver \cup {p}
               /\ UNCHANGED <<file, kalshi, word, aged>> /\ UNCHANGED Rest

\* A venue's metadata gets old.
Ages(v) == /\ v \notin aged /\ aged' = aged \cup {v}
           /\ UNCHANGED <<word>> /\ UNCHANGED world /\ UNCHANGED Rest

(***************************************************************************)
(* The scanner.                                                            *)
(***************************************************************************)
Active == mine \ finished

\* _evaluate, as far as the metadata decides: priced, or its windows closed.
Verdict(p) == IF kmeta'[p] = "active" THEN "live" ELSE "paused"

\* The pairs _retire_finished finds over.
Over == {p \in Active : kmeta'[p] = "over" \/ p \in closed'}

\* _retire_finished, and the pairs among ps evaluated.
RetireAndPrice(ps) == /\ finished' = finished \cup Over
                      /\ state' = [p \in Pairs |-> IF p \in Over THEN "finished"
                                                   ELSE IF p \in ps \ finished' THEN Verdict(p)
                                                   ELSE state[p]]

\* LiveScanner._on_lifecycle: a market not yet known of is left to the refresh.
Hears == /\ word # <<>> /\ word' = Tail(word)
         /\ LET p == Head(word)[1]
            IN  IF kmeta[p] = "none" THEN UNCHANGED <<kmeta, closed, finished, state>>
                ELSE /\ kmeta' = [kmeta EXCEPT ![p] = Head(word)[2]] /\ closed' = closed
                     /\ IF Head(word)[2] = "over" THEN RetireAndPrice({})
                        ELSE /\ finished' = finished
                             /\ state' = IF p \in Active THEN [state EXCEPT ![p] = Verdict(p)] ELSE state
         /\ UNCHANGED <<mine, priced, task, pending, aged, failed>> /\ UNCHANGED world

\* A book of the pair changes (_on_kalshi, _on_pm).
Evaluates(p) == /\ p \in Active /\ kmeta' = kmeta
                /\ state' = [state EXCEPT ![p] = Verdict(p)] /\ state' # state
                /\ UNCHANGED <<mine, finished, priced, closed, task, pending, aged, word, failed>>
                /\ UNCHANGED world

\* Mutant of Pending: what was asked for while a refresh ran is forgotten.
PendingNot(changed) == changed
\* A refresh is wanted for new pairs, now or when the one under way is over.
Pending(changed) == pending \/ changed

\* LiveScanner._reindex: a pair taken out of the file is forgotten.
Reindex == /\ mine' = file
           /\ state' = [p \in Pairs |-> IF p \in file THEN state[p] ELSE "none"]

\* The tick: the pair file looked at, and a refresh begun if one is wanted and none runs.
Tick ==
  /\ Reindex
  /\ LET want == Pending(file # mine)
         active == file \ finished
     IN  IF (want \/ aged # {}) /\ task.stage = "idle"
         THEN /\ pending' = FALSE
              /\ task' = [Idle EXCEPT !.stage = "ask", !.whole = "K" \in aged,
                                      !.ask = IF "K" \in aged THEN active
                                              ELSE {p \in active : kmeta[p] = "none"}]
         ELSE pending' = want /\ UNCHANGED task
  /\ UNCHANGED <<finished, kmeta, priced, closed, aged, word, failed>> /\ UNCHANGED world

\* An answer has of out of ms.
Whole(of, ms) == IF of = ms THEN UNCHANGED turns ELSE Turn

\* Kalshi answers a batch request, with some markets left out or not.
Answers == /\ task.stage = "ask"
           /\ \E of \in SUBSET task.ask :
                /\ Whole(of, task.ask)
                /\ task' = [task EXCEPT !.stage = "answered", !.got = [p \in of |-> kalshi[p]]]
           /\ UNCHANGED <<mine, finished, kmeta, priced, closed, state, pending, aged, word, failed>>
           /\ UNCHANGED <<file, kalshi, pmOver>>

\* A market left out of the answer is what it was known to be.
Known(p) == IF p \in DOMAIN task.got THEN task.got[p]
            ELSE IF kmeta[p] = "none" THEN "missing" ELSE kmeta[p]

\* refresh_kalshi_meta, once the answer is in; fees may still take requests. Any reading
\* of Kalshi's puts off the next whole one.
Learns == /\ task.stage = "answered"
          /\ kmeta' = [p \in Pairs |-> IF p \in task.ask THEN Known(p) ELSE kmeta[p]]
          /\ aged' = IF task.ask = {} THEN aged ELSE aged \ {"K"}
          /\ task' = [task EXCEPT !.stage = "pm", !.got = <<>>]
          /\ UNCHANGED <<mine, finished, priced, closed, state, pending, word, failed>> /\ UNCHANGED world

\* The rest of refresh_meta, and _refresh_meta_then_price: Polymarket US answers for some
\* of the markets asked of, what is over is retired, and every pair is priced.
Closes == /\ task.stage = "pm"
          /\ \E ms \in {IF "P" \in aged THEN Active ELSE Active \ priced} : \E of \in SUBSET ms :
               /\ Whole(of, ms)
               /\ closed' = closed \cup (of \cap pmOver)
               /\ priced' = priced \cup of
          /\ kmeta' = kmeta /\ RetireAndPrice(Active)
          /\ aged' = aged \ {"P"} /\ task' = Idle
          /\ failed' = (failed /\ ~(task.whole /\ task.ask = Active))
          /\ UNCHANGED <<mine, pending, word>> /\ UNCHANGED <<file, kalshi, pmOver>>

\* A request fails: both venues count as read, and are asked again when that is old.
Fails == /\ task.stage \in {"ask", "pm"} /\ Turn
         /\ task' = Idle /\ aged' = {} /\ failed' = TRUE
         /\ UNCHANGED <<mine, finished, kmeta, priced, closed, state, pending, word>>
         /\ UNCHANGED <<file, kalshi, pmOver>>

\* The refresh goes on (_refresh_meta_then_price).
Refreshes == Answers \/ Learns \/ Closes

Next == \/ \E p \in Pairs : Edits(p) \/ PMCloses(p) \/ Evaluates(p) \/ \E s \in Turns : KalshiTurns(p, s)
        \/ \E v \in {"K", "P"} : Ages(v)
        \/ Hears \/ Tick \/ Refreshes \/ Fails

\* The tick goes on, every request is answered, and metadata gets old.
Spec == /\ Init /\ [][Next]_vars
        /\ WF_vars(Tick) /\ WF_vars(Refreshes)
        /\ \A v \in {"K", "P"} : WF_vars(Ages(v))

(***************************************************************************)
(* Properties.                                                             *)
(***************************************************************************)
\* With no refresh under way or wanted, and none failed, every pair watched has been
\* asked about, whenever it was added (_meta_pending).
NoneForgotten == task.stage = "idle" /\ ~pending /\ ~failed /\ aged = {}
                 => \A p \in Active : kmeta[p] # "none"

\* A pair is retired only when one of its venues' markets is over: an answer that leaves
\* markets out retires none (refresh_meta's account of 2026-10-01).
RetiredRightly == \A p \in finished : kalshi[p] = "over" \/ p \in pmOver

\* Every pair in the file is watched, retired if a market of its is over, and else shown and
\* priced as its Kalshi market is.
Right == /\ mine = file
         /\ \A p \in mine : IF kalshi[p] = "over" \/ p \in pmOver THEN p \in finished
                            ELSE state[p] = IF kalshi[p] = "active" THEN "live" ELSE "paused"
=============================================================================
