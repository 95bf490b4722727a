------------------------- MODULE LiveTrade_proofs -------------------------
(***************************************************************************)
(* What holds of LiveTrade for every choice of its constants: the types,   *)
(* that no order is larger than evening the trade up takes, that the money *)
(* set aside comes back, and that nothing is sent while an earlier order's *)
(* outcome is open; and that the trader's account is the venues': the      *)
(* position an order is read back against (BeforeExact), what the open     *)
(* rows and the trade under way hold (AccountExact), and that a leg left   *)
(* unhedged stops trading (HedgedOrStopped), for a user who resumes with   *)
(* care; and that no order is sent into a pause (NoOrderIntoPause).        *)
(***************************************************************************)
EXTENDS LiveTrade, TLAPS

-----------------------------------------------------------------------------
(* The inductive invariant *)

InFlight == order.phase \in {"sent", "acted", "unclear"}

\* Where the coroutine is while its order is under way, and what is left when
\* the process is down.
Shape ==
    /\ up /\ Idle => order.phase = "none"
    /\ ~up => Idle /\ reserved = Flat
    /\ ~Idle /\ order.phase # "none" => trade.at \notin {"rescue", "look", "done"}
    /\ order.filled <= order.qty
    /\ ~Idle /\ order.phase # "none" /\ (order.act = "sell" \/ trade.at = "first") => order.venue = trade.lead

\* The trade holds no more of its second leg than of its first, the leg to sell
\* back is the first, and a rescue goes on only while a contract is unhedged.
Ordered ==
    ~Idle =>
        /\ 0 <= trade.got[Other(trade.lead)]
        /\ trade.got[Other(trade.lead)] <= trade.got[trade.lead]
        /\ trade.at = "first" => trade.got[Other(trade.lead)] = 0
        /\ trade.long = trade.lead
        /\ trade.at \in {"rescue", "look"} => Left(trade) >= Unit

IInv == TypeOK /\ Shape /\ Ordered /\ NeverOverHedged /\ ReservedExact

\* For a user who resumes with care: the journal's open entries are the order
\* in flight, or the trader is stopped in a way only a resume (or, if the stop
\* file couldn't be written, a restart) undoes; and nothing is sent while a
\* resume is under way.
Answered ==
    /\ up /\ ~Idle /\ InFlight => journal = {order.id}
    /\ up /\ ~InFlight /\ journal # {} =>
           halted /\ (haltFile \/ stuck) /\ trade.at \in {"idle", "done"}
    /\ resuming.on => /\ haltFile /\ Idle /\ journal \subseteq resuming.ids
                      /\ up => halted

-----------------------------------------------------------------------------
(* The operators the model is built from *)

\* Multiples of a positive u.
LEMMA Multiples ==
    ASSUME NEW u \in Nat, u > 0, NEW q \in Int
    PROVE  /\ q >= 0 => u * q >= 0
           /\ q <= 0 => u * q <= 0
           /\ q >= 1 => u * q >= u
           /\ q <= -1 => u * q <= -u
<1>1. \A k \in Int : k >= 0 => u * k >= 0
    OBVIOUS
<1>2. \A k \in Int : u * (-k) = -(u * k)
    OBVIOUS
<1>3. \A k \in Int : u * (k + 1) = u * k + u
    OBVIOUS
<1>4. u * q \in Int /\ u * (q - 1) \in Int /\ u * (-q) \in Int /\ u * (-q - 1) \in Int
    OBVIOUS
<1>5. q >= 1 => u * q >= u
    <2>1. u * q = u * (q - 1) + u
        BY <1>3
    <2> QED BY <2>1, <1>1, <1>4
<1>6. q <= -1 => u * q <= -u
    <2>1. u * (-q) = u * (-q - 1) + u
        BY <1>3
    <2>2. u * (-q) = -(u * q)
        BY <1>2
    <2> QED BY <2>1, <2>2, <1>1, <1>4
<1>7. q <= 0 => u * q <= 0
    BY <1>1, <1>2, <1>4
<1> QED
    BY <1>1, <1>5, <1>6, <1>7

\* Whole rounds down to whole contracts, and by less than one.
LEMMA WholeBounds ==
    ASSUME NEW n \in Int
    PROVE  /\ Whole(n) \in Int
           /\ Whole(n) <= n
           /\ n - Whole(n) < Unit
           /\ n >= 0 => Whole(n) >= 0
           /\ n >= Unit => Whole(n) >= Unit
<1>1. Unit \in Nat /\ Unit > 0
    BY UnitAssumption
<1> DEFINE q == n \div Unit
           r == n % Unit
<1>2. r \in 0..(Unit - 1) /\ q \in Int /\ n = Unit * q + r
    BY <1>1
<1>3. /\ q >= 0 => Unit * q >= 0
      /\ q <= 0 => Unit * q <= 0
      /\ q >= 1 => Unit * q >= Unit
      /\ q <= -1 => Unit * q <= -Unit
      /\ Unit * q \in Int
    BY <1>1, <1>2, Multiples
<1>4. Whole(n) = n - r
    BY DEF Whole
<1> HIDE DEF q, r
<1>5. n - r = Unit * q
    BY <1>1, <1>2, <1>3
<1>6. n >= 0 => q >= 0
    BY <1>1, <1>2, <1>3
<1>7. n >= Unit => q >= 1
    BY <1>1, <1>2, <1>3
<1> QED
    BY <1>1, <1>2, <1>3, <1>4, <1>5, <1>6, <1>7

LEMMA NoTradeType == NoTrade \in Trades
<1>1. (CHOOSE p \in Pairs : TRUE) \in Pairs
    BY NamesAssumption
<1>2. Rounds \in Nat
    BY BoundsAssumption
<1> QED
    BY <1>1, <1>2 DEF NoTrade, Trades, Points, Venues, Holdings, Flat

LEMMA NoOrderType == NoOrder \in Orders
<1>1. (CHOOSE p \in Pairs : TRUE) \in Pairs /\ (CHOOSE i \in Ids : TRUE) \in Ids
    BY NamesAssumption
<1> QED
    BY <1>1 DEF NoOrder, Orders, Venues

\* The trade's lead and its other venue are the two venues.
LEMMA OtherVenue ==
    ASSUME NEW v \in Venues
    PROVE  Other(v) \in Venues /\ Other(v) # v /\ Other(Other(v)) = v /\ Venues = {v, Other(v)}
BY DEF Venues, Other

\* An order asked for, field by field.
LEMMA AskFacts ==
    ASSUME NEW t \in Trades, NEW at \in Points, NEW v \in Venues, NEW act \in {"buy", "sell"},
           NEW n \in Nat, NEW fok \in BOOLEAN, Ask(t, at, v, act, n, fok)
    PROVE  /\ trade' \in Trades /\ order' \in Orders
           /\ trade'.at = at /\ trade'.pair = t.pair /\ trade'.lead = t.lead /\ trade'.long = t.long
           /\ trade'.got = t.got /\ trade'.reserve = t.reserve
           /\ order'.phase = "waiting" /\ order'.venue = v /\ order'.act = act /\ order'.qty = n
           /\ order'.filled = 0
<1>1. t.pair \in Pairs
    BY DEF Trades
<1>2. trade' = [t EXCEPT !.at = at]
    BY DEF Ask
<1>3. order' = [NoOrder EXCEPT !.phase = "waiting", !.pair = t.pair, !.venue = v, !.act = act,
                               !.qty = n, !.fok = fok]
    BY DEF Ask
<1>4. /\ trade' \in Trades
      /\ trade'.at = at /\ trade'.pair = t.pair /\ trade'.lead = t.lead /\ trade'.long = t.long
      /\ trade'.got = t.got /\ trade'.reserve = t.reserve
    BY <1>2 DEF Trades
<1>5. order' \in Orders
    BY <1>1, <1>3, NoOrderType DEF Orders
<1>6. /\ order'.phase = "waiting" /\ order'.venue = v /\ order'.act = act /\ order'.qty = n
      /\ order'.filled = 0
    BY <1>3 DEF NoOrder
<1> QED
    BY <1>4, <1>5, <1>6

\* Going on without an order.
LEMMA GoOnFacts ==
    ASSUME NEW t \in Trades, NEW at \in Points, GoOn(t, at)
    PROVE  /\ trade' \in Trades /\ order' \in Orders
           /\ trade'.at = at /\ trade'.pair = t.pair /\ trade'.lead = t.lead /\ trade'.long = t.long
           /\ trade'.got = t.got /\ trade'.reserve = t.reserve
           /\ order' = NoOrder /\ order'.phase = "none" /\ order'.qty = 0 /\ order'.filled = 0
<1>1. trade' = [t EXCEPT !.at = at] /\ order' = NoOrder
    BY DEF GoOn
<1>2. /\ trade' \in Trades
      /\ trade'.at = at /\ trade'.pair = t.pair /\ trade'.lead = t.lead /\ trade'.long = t.long
      /\ trade'.got = t.got /\ trade'.reserve = t.reserve
    BY <1>1 DEF Trades
<1> QED
    BY <1>1, <1>2, NoOrderType DEF NoOrder

-----------------------------------------------------------------------------
(* The steps that leave the trade, its order and the money set aside alone *)

LEMMA QuietStep ==
    ASSUME IInv, TypeOK', UNCHANGED <<trade, order, up, reserved>>
    PROVE  IInv'
<1>1. Shape'
    BY DEF IInv, Shape, Idle
<1>2. Ordered'
    BY DEF IInv, Ordered, Idle, Left
<1>3. NeverOverHedged'
    BY DEF IInv, NeverOverHedged, Idle
<1>4. ReservedExact'
    BY DEF IInv, ReservedExact, Idle
<1> QED
    BY <1>1, <1>2, <1>3, <1>4 DEF IInv

QuietNext == \/ Poll \/ ReadAccount \/ AccountRead \/ AccountReadFails \/ PauseEnds \/ Commit
             \/ HaltByHand \/ ResumeRead \/ ResumeApply \/ UNCHANGED vars

LEMMA QuietNextType ==
    ASSUME TypeOK, QuietNext
    PROVE  TypeOK' /\ UNCHANGED <<trade, order, up, reserved>>
<1> USE DEF TypeOK, disk, limits, account, history, vars
<1>1. CASE Poll
    BY <1>1 DEF Poll, PolledHalt
<1>2. CASE ReadAccount
    BY <1>2 DEF ReadAccount
<1>3. CASE AccountRead
    BY <1>3 DEF AccountRead, NoReading, Nothing, Flat, Holdings
<1>4. CASE AccountReadFails
    BY <1>4 DEF AccountReadFails, NoReading, Nothing, Flat, Holdings
<1>5. CASE PauseEnds
    BY <1>5 DEF PauseEnds
<1>6. CASE Commit
    BY <1>6 DEF Commit
<1>7. CASE HaltByHand
    BY <1>7 DEF HaltByHand
<1>8. CASE ResumeRead
    BY <1>8 DEF ResumeRead, Unresolved
<1>9. CASE ResumeApply
    BY <1>9 DEF ResumeApply, NotResuming
<1>10. CASE UNCHANGED vars
    BY <1>10
<1> QED
    BY <1>1, <1>2, <1>3, <1>4, <1>5, <1>6, <1>7, <1>8, <1>9, <1>10 DEF QuietNext

-----------------------------------------------------------------------------
(* The steps that start a trade, end one, and cut one off *)

LEMMA FlatType == Flat \in Holdings /\ Nothing \in [Pairs -> Holdings]
BY DEF Flat, Nothing, Holdings

LEMMA OvertakenType ==
    ASSUME NEW r \in [state : {"none", "kept", "late"}, seen : [Pairs -> Holdings]]
    PROVE  Overtaken(r) \in [state : {"none", "kept", "late"}, seen : [Pairs -> Holdings]]
<1>1. r.state = "kept" => [r EXCEPT !.state = "late"] \in [state : {"none", "kept", "late"}, seen : [Pairs -> Holdings]]
    OBVIOUS
<1>2. r.state # "kept" => [r EXCEPT !.state = r.state] = r
    OBVIOUS
<1> QED
    BY <1>1, <1>2 DEF Overtaken

LEMMA HaltType ==
    ASSUME TypeOK, Halt \/ NoHalt
    PROVE  halted' \in BOOLEAN /\ stuck' \in BOOLEAN /\ haltFile' \in BOOLEAN
BY DEF TypeOK, Halt, NoHalt

LEMMA InitIInv == Init => IInv
<1> SUFFICES ASSUME Init PROVE IInv
    OBVIOUS
<1>1. TypeOK
    <2>1. Flat \in [Venues -> Int] /\ Nothing \in [Pairs -> Holdings]
        BY FlatType DEF Holdings
    <2>2. NoReading \in [state : {"none", "kept", "late"}, seen : [Pairs -> Holdings]]
        BY <2>1 DEF NoReading
    <2>3. NotResuming \in [on : BOOLEAN, ids : SUBSET Ids]
        BY DEF NotResuming
    <2>4. 0 \in 0..MaxRejects
        BY BoundsAssumption
    <2> QED
        BY <2>1, <2>2, <2>3, <2>4, NoTradeType, NoOrderType DEF Init, TypeOK
<1>2. Idle /\ order.phase = "none" /\ order.filled = 0 /\ order.qty = 0 /\ up /\ reserved = Flat
    BY DEF Init, Idle, NoTrade, NoOrder
<1>3. Shape /\ Ordered /\ NeverOverHedged /\ ReservedExact
    BY <1>2 DEF Shape, Ordered, NeverOverHedged, ReservedExact, Flat
<1> QED
    BY <1>1, <1>3 DEF IInv

LEMMA ExecuteStep ==
    ASSUME IInv, NEW p \in Pairs, NEW lead \in Leads, NEW size \in Sizes, Execute(p, lead, size)
    PROVE  IInv'
<1> DEFINE n == size * Unit
           t == [NoTrade EXCEPT !.pair = p, !.lead = lead, !.long = lead, !.reserve = n]
<1>1. lead \in Venues /\ n \in Nat
    BY LeadsAssumption, SizesAssumption, UnitAssumption
<1>2. Idle /\ up /\ up' = up
    BY DEF Execute
<1>3. /\ t \in Trades /\ t.lead = lead /\ t.long = lead /\ t.reserve = n /\ t.got = Flat
    BY <1>1, NoTradeType DEF Trades, NoTrade
<1>4. Ask(t, "first", lead, "buy", n, lead = "P")
    BY Zenon DEF Execute
<1> HIDE DEF n, t
<1>5. /\ trade' \in Trades /\ order' \in Orders
      /\ trade'.at = "first" /\ trade'.lead = lead /\ trade'.long = lead /\ trade'.got = Flat
      /\ trade'.reserve = n
      /\ order'.phase = "waiting" /\ order'.venue = lead /\ order'.act = "buy" /\ order'.qty = n
      /\ order'.filled = 0
    BY <1>1, <1>3, <1>4, AskFacts, ZenonT(40) DEF Points
<1>6. ~Idle'
    BY <1>5 DEF Idle
<1>7. reserved = Flat
    BY <1>2 DEF IInv, ReservedExact, Flat
<1>8. reserved' = [v \in Venues |-> n]
    BY <1>1, <1>7 DEF Execute, Flat, n
<1>9. TypeOK'
    <2>1. reading' \in [state : {"none", "kept", "late"}, seen : [Pairs -> Holdings]]
        BY OvertakenType DEF IInv, TypeOK, Execute
    <2>2. reserved' \in [Venues -> Int] /\ acct' = "stale"
        BY <1>1, <1>8 DEF Execute
    <2>3. UNCHANGED <<pos, journal, haltFile, saved, up, rows, belief, halted, stuck, paused, rejects,
                      resuming, cut, handed>>
        BY DEF Execute, disk, limits, history
    <2> QED
        BY <1>5, <2>1, <2>2, <2>3 DEF IInv, TypeOK
<1>10. Shape'
    BY <1>1, <1>2, <1>5, <1>6 DEF Shape
<1>11. Ordered'
    BY <1>1, <1>5, <1>6, OtherVenue DEF Ordered, Flat
<1>12. NeverOverHedged'
    BY <1>1, <1>5, <1>6, OtherVenue DEF NeverOverHedged, Flat, Signed
<1>13. ReservedExact'
    BY <1>5, <1>6, <1>8 DEF ReservedExact
<1> QED
    BY <1>9, <1>10, <1>11, <1>12, <1>13 DEF IInv

\* The venue's share of the trade ends, however, and the money comes back.
LEMMA FinishStep ==
    ASSUME IInv, Finish \/ FinishFails
    PROVE  IInv'
<1>1. /\ ~Idle /\ up /\ up' = up
      /\ trade' = NoTrade /\ order' = NoOrder
      /\ reserved' = [v \in Venues |-> reserved[v] - trade.reserve]
      /\ Halt \/ NoHalt
      /\ rows' \in {rows, Kept(trade)}
      /\ UNCHANGED <<pos, journal, saved, belief, acct, reading, paused, rejects, resuming, cut, handed>>
    BY DEF IInv, Shape, Finish, FinishFails, Deciding, Idle, Release, account, history
<1>2. trade.got \in [Venues -> Int] /\ trade.reserve \in Nat /\ trade.pair \in Pairs
    BY DEF IInv, TypeOK, Trades, Holdings
<1>3. reserved = [v \in Venues |-> trade.reserve]
    BY <1>1 DEF IInv, ReservedExact
<1>4. reserved' = Flat
    BY <1>1, <1>2, <1>3 DEF Flat
<1>5. rows' \in [Pairs -> Holdings]
    <2>1. \A v \in Venues : rows[trade.pair][v] \in Int /\ trade.got[v] \in Int
        BY <1>2 DEF IInv, TypeOK, Holdings
    <2>2. [v \in Venues |-> rows[trade.pair][v] + trade.got[v]] \in Holdings
        BY <2>1 DEF Holdings
    <2>3. Kept(trade) \in [Pairs -> Holdings]
        BY <1>2, <2>2 DEF IInv, TypeOK, Kept
    <2> QED
        BY <1>1, <2>3 DEF IInv, TypeOK
<1>6. halted' \in BOOLEAN /\ stuck' \in BOOLEAN /\ haltFile' \in BOOLEAN
    BY <1>1, HaltType DEF IInv
<1>7. TypeOK'
    BY <1>1, <1>4, <1>5, <1>6, NoTradeType, NoOrderType, FlatType DEF IInv, TypeOK, Holdings
<1>8. Idle' /\ order'.phase = "none" /\ order'.filled = 0 /\ order'.qty = 0
    BY <1>1 DEF Idle, NoTrade, NoOrder
<1>9. Shape' /\ Ordered' /\ NeverOverHedged' /\ ReservedExact'
    BY <1>1, <1>4, <1>8 DEF Shape, Ordered, NeverOverHedged, ReservedExact, Flat
<1> QED
    BY <1>7, <1>9 DEF IInv

\* A crash leaves at most the order that has left; the restart comes after it.
LEMMA CrashStep ==
    ASSUME IInv, Crash
    PROVE  IInv'
<1>1. up' = FALSE /\ trade' = NoTrade /\ reserved' = Flat /\ order' \in {order, NoOrder}
    BY DEF Crash
<1>2. Idle'
    BY <1>1 DEF Idle, NoTrade
<1>3. cut' \subseteq Pairs /\ handed' \subseteq Pairs
    BY DEF IInv, TypeOK, Trades, Crash
<1>4. NoReading \in [state : {"none", "kept", "late"}, seen : [Pairs -> Holdings]] /\ 0 \in 0..MaxRejects
    BY FlatType, BoundsAssumption DEF NoReading
<1>5. UNCHANGED <<pos, journal, haltFile, saved, resuming>> /\ rows' = saved /\ belief' = Nothing
    BY DEF Crash, disk
<1>6. /\ acct' = "unread" /\ reading' = NoReading /\ halted' = FALSE /\ stuck' = FALSE
      /\ paused' = FALSE /\ rejects' = 0
    BY DEF Crash
<1>7. TypeOK'
    BY <1>1, <1>3, <1>4, <1>5, <1>6, NoTradeType, NoOrderType, FlatType DEF IInv, TypeOK, Holdings
<1>8. order'.filled <= order'.qty
    BY <1>1 DEF IInv, Shape, NoOrder
<1>9. Shape' /\ Ordered' /\ NeverOverHedged' /\ ReservedExact'
    BY <1>1, <1>2, <1>8 DEF Shape, Ordered, NeverOverHedged, ReservedExact
<1> QED
    BY <1>7, <1>9 DEF IInv

LEMMA RestartStep ==
    ASSUME IInv, Restart
    PROVE  IInv'
<1>1. Idle /\ Idle' /\ up' = TRUE /\ trade' = trade /\ order' = NoOrder /\ reserved' = reserved /\ reserved = Flat
    BY DEF IInv, Shape, Restart, Idle
<1>2. UNCHANGED <<pos, journal, saved, rows, belief, acct, reading, paused, rejects, resuming, cut, handed>>
    BY DEF Restart, account, history
<1>3. halted' \in BOOLEAN /\ stuck' \in BOOLEAN /\ haltFile' \in BOOLEAN
    <2>1. CASE haltFile
        BY <2>1 DEF IInv, TypeOK, Restart
    <2>2. CASE ~haltFile
        <3>1. Halt \/ NoHalt
            BY <2>2 DEF Restart
        <3> QED
            BY <3>1, HaltType DEF IInv
    <2> QED
        BY <2>1, <2>2
<1>4. TypeOK'
    BY <1>1, <1>2, <1>3, NoOrderType DEF IInv, TypeOK
<1>5. order'.phase = "none" /\ order'.filled = 0 /\ order'.qty = 0
    BY <1>1 DEF NoOrder
<1>6. Shape' /\ Ordered' /\ NeverOverHedged' /\ ReservedExact'
    BY <1>1, <1>5 DEF Shape, Ordered, NeverOverHedged, ReservedExact, Flat
<1> QED
    BY <1>4, <1>6 DEF IInv

-----------------------------------------------------------------------------
(* The steps of the coroutine *)

\* It goes on, or waits, with a trade that is still in order.
LEMMA GoneOn ==
    ASSUME IInv, up, TypeOK', up' = up, reserved' = reserved, ~Idle,
           NEW t \in Trades, NEW at \in Points \ {"idle", "first"}, GoOn(t, at),
           t.lead = trade.lead, t.long = trade.lead, t.reserve = trade.reserve,
           0 <= t.got[Other(t.lead)], t.got[Other(t.lead)] <= t.got[t.lead],
           at \in {"rescue", "look"} => Left(t) >= Unit
    PROVE  IInv'
<1>1. /\ trade' \in Trades
      /\ trade'.at = at /\ trade'.lead = t.lead /\ trade'.long = t.long
      /\ trade'.got = t.got /\ trade'.reserve = t.reserve
      /\ order'.phase = "none" /\ order'.qty = 0 /\ order'.filled = 0
    BY GoOnFacts
<1>2. ~Idle'
    BY <1>1 DEF Idle
<1>3. Shape'
    BY <1>1, <1>2 DEF Shape
<1>4. Ordered'
    BY <1>1, <1>2 DEF Ordered, Left
<1>5. NeverOverHedged'
    <2>1. order'.venue \in Venues /\ trade'.got \in [Venues -> Int] /\ trade'.lead \in Venues
        BY DEF TypeOK, Trades, Orders, Holdings
    <2>2. [trade'.got EXCEPT ![order'.venue] = @ + 0] = trade'.got
        BY <2>1
    <2> QED
        BY <1>1, <2>2 DEF NeverOverHedged
<1>6. ReservedExact'
    BY <1>1, <1>2 DEF IInv, ReservedExact
<1> QED
    BY <1>3, <1>4, <1>5, <1>6 DEF IInv

\* It asks for an order no larger than what is unhedged, on the side that evens up.
LEMMA Asked ==
    ASSUME IInv, up, TypeOK', up' = up, reserved' = reserved, ~Idle,
           NEW t \in Trades, NEW at \in {"second", "chase", "complete", "sell", "rescued"},
           NEW v \in Venues, NEW act \in {"buy", "sell"}, NEW n \in Nat, Ask(t, at, v, act, n, FALSE),
           t.lead = trade.lead, t.long = trade.lead, t.reserve = trade.reserve, t.got = trade.got,
           v = IF act = "sell" THEN trade.lead ELSE Other(trade.lead),
           n <= trade.got[trade.lead] - trade.got[Other(trade.lead)]
    PROVE  IInv'
<1>0. at \in Points
    BY DEF Points
<1>f. PICK fok \in BOOLEAN : Ask(t, at, v, act, n, fok)
    OBVIOUS
<1>1. /\ trade' \in Trades
      /\ trade'.at = at /\ trade'.lead = t.lead /\ trade'.long = t.long
      /\ trade'.got = t.got /\ trade'.reserve = t.reserve
      /\ order'.phase = "waiting" /\ order'.venue = v /\ order'.act = act /\ order'.qty = n
      /\ order'.filled = 0
    BY <1>0, <1>f, AskFacts
<1>2. ~Idle'
    BY <1>1 DEF Idle
<1>3. Shape'
    BY <1>1, <1>2 DEF Shape
<1>4. /\ 0 <= trade.got[Other(trade.lead)]
      /\ trade.got[Other(trade.lead)] <= trade.got[trade.lead]
    BY DEF IInv, Ordered
<1>5. Ordered'
    BY <1>1, <1>2, <1>4 DEF Ordered
<1>6. NeverOverHedged'
    <2>1. trade.lead \in Venues /\ trade.got \in [Venues -> Int]
        BY DEF IInv, TypeOK, Trades, Holdings
    <2>2. Other(trade.lead) \in Venues /\ Other(trade.lead) # trade.lead
        BY <2>1, OtherVenue
    <2>3. trade.got[trade.lead] \in Int /\ trade.got[Other(trade.lead)] \in Int
        BY <2>1, <2>2
    <2> DEFINE g == trade.got
               f == Other(trade.lead)
               rest == IF act = "buy" THEN n ELSE -n
               full == [g EXCEPT ![v] = @ + rest]
    <2>4. 0 <= full[f] /\ full[f] <= full[trade.lead]
        <3>1. CASE act = "sell"
            BY <1>4, <2>1, <2>2, <2>3, <3>1
        <3>2. CASE act = "buy"
            BY <1>4, <2>1, <2>2, <2>3, <3>2
        <3> QED
            BY <3>1, <3>2
    <2>5. /\ trade'.got = g /\ trade'.lead = trade.lead /\ Signed(order', order'.qty) = rest
          /\ order'.phase # "none" /\ order'.venue = v
        BY <1>1 DEF Signed
    <2> HIDE DEF g, rest
    <2> QED
        BY <2>4, <2>5 DEF NeverOverHedged
<1>7. ReservedExact'
    BY <1>1, <1>2 DEF IInv, ReservedExact
<1> QED
    BY <1>3, <1>5, <1>6, <1>7 DEF IInv

\* What an order filled is what NeverOverHedged counted on, or less.
LEMMA LearnStep ==
    ASSUME IInv, up, ~Idle, order.phase \in {"acted", "unclear"}, NEW status, NEW n \in 0..order.qty,
           Learn(status, n)
    PROVE  IInv'
<1> DEFINE v == order.venue
           g == [trade.got EXCEPT ![v] = @ + Signed(order, n)]
           t == [trade EXCEPT !.got[v] = @ + Signed(order, n),
                              !.unwound = @ \/ (order.act = "sell" /\ n > 0 /\ status # "unknown")]
           f == Other(trade.lead)
<1>1. /\ v \in Venues /\ order.qty \in Nat /\ order.act \in {"buy", "sell"} /\ order.pair \in Pairs
      /\ order.before \in Int /\ order.id \in Ids
    BY DEF IInv, TypeOK, Orders
<1>2. n \in Int /\ Signed(order, n) \in Int /\ Signed(order, n) = IF order.act = "buy" THEN n ELSE -n
    BY <1>1 DEF Signed
<1>3. trade.got \in [Venues -> Int] /\ trade.lead \in Venues /\ trade \in Trades
    BY DEF IInv, TypeOK, Trades, Holdings
<1>4. g \in [Venues -> Int]
    BY <1>1, <1>2, <1>3
<1>5. t \in Trades /\ t.got = g /\ t.lead = trade.lead /\ t.long = trade.long /\ t.reserve = trade.reserve
      /\ t.at = trade.at /\ t.pair = trade.pair
    <2> DEFINE s == [trade EXCEPT !.got = g]
    <2>1. s \in Trades /\ s.unwound \in BOOLEAN
        BY <1>3, <1>4 DEF Trades, Holdings
    <2>2. t = [s EXCEPT !.unwound = @ \/ (order.act = "sell" /\ n > 0 /\ status # "unknown")]
        BY <1>3 DEF Trades
    <2>3. /\ s.got = g /\ s.lead = trade.lead /\ s.long = trade.long /\ s.reserve = trade.reserve
          /\ s.at = trade.at /\ s.pair = trade.pair
        BY <1>3 DEF Trades
    <2>4. (s.unwound \/ (order.act = "sell" /\ n > 0 /\ status # "unknown")) \in BOOLEAN
        OBVIOUS
    <2> HIDE DEF s, g
    <2> QED
        BY <2>1, <2>2, <2>3, <2>4 DEF Trades
<1>6. f \in Venues /\ f # trade.lead /\ Venues = {trade.lead, f}
    BY <1>3, OtherVenue
<1>7. /\ 0 <= trade.got[f] /\ trade.got[f] <= trade.got[trade.lead] /\ trade.long = trade.lead
      /\ trade.at = "first" => trade.got[f] = 0
    BY DEF IInv, Ordered
<1>8. /\ order.act = "sell" \/ trade.at = "first" => v = trade.lead
      /\ trade.at \notin {"rescue", "look", "done", "idle"} /\ trade.at \in Points
    BY <1>3 DEF IInv, Shape, Idle, Trades, Points
<1>9. 0 <= g[f] /\ g[f] <= g[trade.lead] /\ (trade.at = "first" => g[f] = 0)
    <2> DEFINE full == [trade.got EXCEPT ![v] = @ + Signed(order, order.qty)]
    <2>1. 0 <= full[f] /\ full[f] <= full[trade.lead]
        BY DEF IInv, NeverOverHedged
    <2>2. Signed(order, order.qty) = IF order.act = "buy" THEN order.qty ELSE -order.qty
        BY <1>1 DEF Signed
    <2>3. trade.got[f] \in Int /\ trade.got[trade.lead] \in Int
        BY <1>3, <1>6
    <2>4. CASE v = f
        <3>1. order.act = "buy" /\ trade.at # "first"
            BY <1>1, <1>6, <1>8, <2>4
        <3>2. full[f] = trade.got[f] + order.qty /\ full[trade.lead] = trade.got[trade.lead]
            BY <1>3, <1>6, <2>2, <2>4, <3>1
        <3>3. g[f] = trade.got[f] + n /\ g[trade.lead] = trade.got[trade.lead]
            BY <1>2, <1>3, <1>6, <2>4, <3>1
        <3> QED
            BY <1>1, <1>7, <2>1, <2>3, <3>1, <3>2, <3>3
    <2>5. CASE v = trade.lead
        <3>1. /\ full[f] = trade.got[f]
              /\ full[trade.lead] = trade.got[trade.lead] + (IF order.act = "buy" THEN order.qty ELSE -order.qty)
            BY <1>3, <1>6, <2>2, <2>5
        <3>2. /\ g[f] = trade.got[f]
              /\ g[trade.lead] = trade.got[trade.lead] + (IF order.act = "buy" THEN n ELSE -n)
            BY <1>2, <1>3, <1>6, <2>5
        <3> QED
            BY <1>1, <1>7, <2>1, <2>3, <3>1, <3>2
    <2> QED
        BY <1>1, <1>6, <2>4, <2>5
<1>10. \/ Fail(t)
       \/ GoOn(t, t.at) /\ NoHalt
    BY DEF Learn
<1>11. /\ up' = up /\ reserved' = reserved
       /\ UNCHANGED <<pos, saved, rows, acct, reading, resuming, cut, handed>>
       /\ journal' \in {journal, journal \ {order.id}}
       /\ paused' = (paused \/ status = "paused")
       /\ rejects' \in {rejects, Least(rejects + 1, MaxRejects), 0}
       /\ belief' \in {belief, [belief EXCEPT ![order.pair][v] = order.before + Signed(order, n)]}
    BY DEF Learn, Moved, history
<1> HIDE DEF g, t, v, f
<1>12. /\ trade' \in Trades /\ order' \in Orders
       /\ halted' \in BOOLEAN /\ stuck' \in BOOLEAN /\ haltFile' \in BOOLEAN
    <2>1. CASE Fail(t)
        <3>1. Halt /\ GoOn([t EXCEPT !.stopped = TRUE], "done") /\ [t EXCEPT !.stopped = TRUE] \in Trades
            BY <1>5, <2>1 DEF Fail, Trades
        <3> QED
            BY <3>1, GoOnFacts, HaltType DEF Points, IInv
    <2>2. CASE GoOn(t, t.at) /\ NoHalt
        BY <1>5, <1>8, <2>2, GoOnFacts, HaltType DEF IInv
    <2> QED
        BY <1>10, <2>1, <2>2
<1>13. rejects' \in 0..MaxRejects
    BY <1>11, BoundsAssumption DEF IInv, TypeOK, Least
<1>14. belief' \in [Pairs -> Holdings]
    <2>1. belief[order.pair] \in [Venues -> Int]
        BY <1>1 DEF IInv, TypeOK, Holdings
    <2>2. [belief[order.pair] EXCEPT ![v] = order.before + Signed(order, n)] \in Holdings
        BY <1>1, <1>2, <2>1 DEF Holdings
    <2>3. [belief EXCEPT ![order.pair][v] = order.before + Signed(order, n)] \in [Pairs -> Holdings]
        BY <1>1, <2>2 DEF IInv, TypeOK
    <2> QED
        BY <1>11, <2>3 DEF IInv, TypeOK
<1>15. paused' \in BOOLEAN
    BY <1>11 DEF IInv, TypeOK
<1>16. TypeOK'
    BY <1>11, <1>12, <1>13, <1>14, <1>15 DEF IInv, TypeOK
<1>17. CASE Fail(t)
    <2> DEFINE s == [t EXCEPT !.stopped = TRUE]
    <2>1. GoOn(s, "done")
        BY <1>17 DEF Fail
    <2>2. s \in Trades /\ s.got = g /\ s.lead = trade.lead /\ s.long = trade.lead /\ s.reserve = trade.reserve
        BY <1>5, <1>7 DEF Trades
    <2> HIDE DEF s
    <2> QED
        BY <1>9, <1>11, <1>16, <2>1, <2>2, GoneOn DEF Points, f
<1>18. CASE GoOn(t, t.at) /\ NoHalt
    <2>1. /\ trade' \in Trades
          /\ trade'.at = trade.at /\ trade'.lead = trade.lead /\ trade'.long = trade.lead
          /\ trade'.got = g /\ trade'.reserve = trade.reserve
          /\ order'.phase = "none" /\ order'.qty = 0 /\ order'.filled = 0
        BY <1>5, <1>7, <1>8, <1>18, GoOnFacts
    <2>2. ~Idle'
        BY <2>1 DEF Idle
    <2>3. Shape'
        BY <1>11, <2>1, <2>2 DEF Shape
    <2>4. Ordered'
        BY <1>8, <1>9, <2>1, <2>2 DEF Ordered, f
    <2>5. NeverOverHedged'
        <3>1. order'.venue \in Venues
            BY <1>12 DEF Orders
        <3>2. [g EXCEPT ![order'.venue] = @ + 0] = g
            BY <1>4, <3>1 DEF g
        <3> QED
            BY <1>9, <2>1, <3>2 DEF NeverOverHedged, f
    <2>6. ReservedExact'
        BY <1>11, <2>1, <2>2 DEF IInv, ReservedExact
    <2> QED
        BY <1>16, <2>3, <2>4, <2>5, <2>6 DEF IInv
<1> QED
    BY <1>10, <1>17, <1>18

\* What every step of the coroutine but Learn's leaves alone.
LEMMA TradeStepType ==
    ASSUME TypeOK, trade' \in Trades, order' \in Orders,
           UNCHANGED <<pos, journal, saved, up, rows, belief, acct, reading, paused, rejects, reserved,
                       resuming, cut, handed>>,
           halted' \in BOOLEAN, stuck' \in BOOLEAN, haltFile' \in BOOLEAN
    PROVE  TypeOK'
BY DEF TypeOK

\* An unexpected end.
LEMMA FailStep ==
    ASSUME IInv, up, ~Idle, Fail(trade),
           UNCHANGED <<pos, journal, saved, up, rows, belief, acct, reading, paused, rejects, reserved,
                       resuming, cut, handed>>
    PROVE  IInv'
<1> DEFINE t == [trade EXCEPT !.stopped = TRUE]
<1>1. Halt /\ GoOn(t, "done")
    BY DEF Fail
<1>2. /\ t \in Trades /\ t.got = trade.got /\ t.lead = trade.lead /\ t.long = trade.long
      /\ t.reserve = trade.reserve
    BY DEF IInv, TypeOK, Trades
<1> HIDE DEF t
<1>3. trade' \in Trades /\ order' \in Orders /\ "done" \in Points \ {"idle", "first"}
    BY <1>1, <1>2, GoOnFacts DEF Points
<1>4. halted' \in BOOLEAN /\ stuck' \in BOOLEAN /\ haltFile' \in BOOLEAN
    BY <1>1, HaltType DEF IInv
<1>5. TypeOK'
    BY <1>3, <1>4, TradeStepType DEF IInv
<1>6. /\ 0 <= trade.got[Other(trade.lead)] /\ trade.got[Other(trade.lead)] <= trade.got[trade.lead]
      /\ trade.long = trade.lead
    BY DEF IInv, Ordered
<1> QED
    BY <1>1, <1>2, <1>3, <1>5, <1>6, GoneOn

\* What is left to hedge: an order for it evens up, and no more.
LEMMA LeftFacts ==
    ASSUME IInv, ~Idle, NEW t \in Trades, t.got = trade.got, t.lead = trade.lead, t.long = trade.lead
    PROVE  /\ Left(t) \in Int /\ Left(t) >= 0
           /\ Left(t) <= trade.got[trade.lead] - trade.got[Other(trade.lead)]
           /\ trade.got[trade.lead] - trade.got[Other(trade.lead)] >= Unit => Left(t) >= Unit
           /\ 0 <= trade.got[Other(trade.lead)]
           /\ trade.got[Other(trade.lead)] <= trade.got[trade.lead]
<1>1. /\ trade.lead \in Venues /\ Other(trade.lead) \in Venues
      /\ trade.got[trade.lead] \in Int /\ trade.got[Other(trade.lead)] \in Int
    BY OtherVenue DEF IInv, TypeOK, Trades, Holdings
<1> DEFINE x == trade.got[trade.lead] - trade.got[Other(trade.lead)]
<1>2. x \in Int /\ Left(t) = Whole(x)
    BY <1>1 DEF Left
<1>3. /\ 0 <= trade.got[Other(trade.lead)]
      /\ trade.got[Other(trade.lead)] <= trade.got[trade.lead]
    BY DEF IInv, Ordered
<1>4. x >= 0
    BY <1>1, <1>3
<1> HIDE DEF x
<1>5. Whole(x) \in Int /\ Whole(x) <= x /\ Whole(x) >= 0 /\ (x >= Unit => Whole(x) >= Unit)
    BY <1>2, <1>4, WholeBounds
<1> QED
    BY <1>2, <1>3, <1>5 DEF x

\* An order that evens the trade up, and nothing else.
LEMMA EvenOrderStep ==
    ASSUME IInv, up, ~Idle,
           NEW t \in Trades, t.got = trade.got, t.lead = trade.lead, t.long = trade.lead, t.reserve = trade.reserve,
           NEW at \in {"second", "chase", "complete", "sell", "rescued"},
           NEW act \in {"buy", "sell"},
           Ask(t, at, IF act = "sell" THEN t.long ELSE Other(t.long), act, Left(t), FALSE),
           NoHalt,
           UNCHANGED <<pos, journal, saved, up, rows, belief, acct, reading, paused, rejects, reserved,
                       resuming, cut, handed>>
    PROVE  IInv'
<1> DEFINE v == IF act = "sell" THEN t.long ELSE Other(t.long)
           n == Left(t)
<1>1. v \in Venues /\ v = IF act = "sell" THEN trade.lead ELSE Other(trade.lead)
    BY OtherVenue DEF Trades
<1>2. n \in Nat /\ n <= trade.got[trade.lead] - trade.got[Other(trade.lead)]
    BY LeftFacts
<1>3. Ask(t, at, v, act, n, FALSE) /\ at \in Points
    BY DEF Points
<1> HIDE DEF v, n
<1>4. PICK fok \in BOOLEAN : Ask(t, at, v, act, n, fok)
    BY <1>3
<1>5. trade' \in Trades /\ order' \in Orders
    BY <1>1, <1>2, <1>3, <1>4, AskFacts
<1>6. TypeOK'
    BY <1>5, TradeStepType, HaltType DEF IInv
<1> QED
    BY <1>1, <1>2, <1>3, <1>6, Asked

\* Going on, with the trade's fills as they were.
LEMMA GoOnStep ==
    ASSUME IInv, up, ~Idle, NoHalt,
           NEW t \in Trades, t.got = trade.got, t.lead = trade.lead, t.long = trade.lead, t.reserve = trade.reserve,
           NEW at \in Points \ {"idle", "first"}, GoOn(t, at),
           at \in {"rescue", "look"} => Left(t) >= Unit,
           UNCHANGED <<pos, journal, saved, up, rows, belief, acct, reading, paused, rejects, reserved,
                       resuming, cut, handed>>
    PROVE  IInv'
<1>1. trade' \in Trades /\ order' \in Orders
    BY GoOnFacts
<1>2. TypeOK'
    BY <1>1, TradeStepType, HaltType DEF IInv
<1>3. 0 <= t.got[Other(t.lead)] /\ t.got[Other(t.lead)] <= t.got[t.lead]
    BY LeftFacts
<1> QED
    BY <1>2, <1>3, GoneOn

\* The order under way gets further, and stays the same order.
LEMMA SameOrderStep ==
    ASSUME IInv, TypeOK', UNCHANGED <<trade, up, reserved>>,
           order.phase # "none", order'.phase # "none", order'.filled <= order'.qty,
           order'.venue = order.venue, order'.act = order.act, order'.qty = order.qty
    PROVE  IInv'
<1>1. Shape'
    BY DEF IInv, Shape, Idle
<1>2. Ordered'
    BY DEF IInv, Ordered, Idle, Left
<1>3. NeverOverHedged'
    <2>1. Signed(order', order'.qty) = Signed(order, order.qty)
        BY DEF Signed
    <2> QED
        BY <2>1 DEF IInv, NeverOverHedged, Idle
<1>4. ReservedExact'
    BY DEF IInv, ReservedExact, Idle
<1> QED
    BY <1>1, <1>2, <1>3, <1>4 DEF IInv

LEMMA SendStep ==
    ASSUME IInv, Send
    PROVE  IInv'
<1> DEFINE id == CHOOSE i \in Ids \ journal : TRUE
           before == belief[order.pair][order.venue]
<1>1. id \in Ids
    BY DEF Send
<1>2. before \in Int
    BY DEF IInv, TypeOK, Orders, Holdings
<1> HIDE DEF id, before
<1>3. /\ order' = [order EXCEPT !.phase = "sent", !.id = id, !.before = before]
      /\ journal' = journal \cup {id} /\ order.phase = "waiting"
      /\ UNCHANGED <<pos, haltFile, saved, up, trade, rows, belief, acct, reading, halted, stuck, paused,
                      rejects, reserved, resuming, cut, handed>>
    BY DEF Send, id, before, account, limits, history
<1>4. /\ order' \in Orders /\ order'.phase = "sent" /\ order'.filled = order.filled /\ order'.qty = order.qty
      /\ order'.venue = order.venue /\ order'.act = order.act
    BY <1>1, <1>2, <1>3 DEF IInv, TypeOK, Orders
<1>5. TypeOK'
    BY <1>1, <1>3, <1>4 DEF IInv, TypeOK
<1> QED
    BY <1>3, <1>4, <1>5, SameOrderStep DEF IInv, Shape

LEMMA ExchangeStep ==
    ASSUME IInv, Exchange
    PROVE  IInv'
<1>1. /\ order.phase = "sent"
      /\ UNCHANGED <<journal, haltFile, saved, up, trade, rows, belief, acct, reading, halted, stuck, paused,
                      rejects, reserved, resuming, cut, handed>>
    BY DEF Exchange, disk, account, limits, history
<1>2. /\ order \in Orders /\ order.qty \in Nat /\ order.filled <= order.qty
      /\ pos \in [Pairs -> Holdings] /\ order.pair \in Pairs /\ order.venue \in Venues
    BY DEF IInv, Shape, TypeOK, Orders
<1>3. /\ order' \in Orders /\ order'.phase = "acted" /\ order'.filled <= order'.qty
      /\ order'.venue = order.venue /\ order'.act = order.act /\ order'.qty = order.qty
      /\ pos' \in [Pairs -> Holdings]
    <2>1. CASE \E n \in Fills(order) :
                 /\ order' = [order EXCEPT !.phase = "acted", !.filled = n]
                 /\ pos' = [pos EXCEPT ![order.pair][order.venue] = @ + Signed(order, n)]
        <3>1. PICK n \in Fills(order) :
                 /\ order' = [order EXCEPT !.phase = "acted", !.filled = n]
                 /\ pos' = [pos EXCEPT ![order.pair][order.venue] = @ + Signed(order, n)]
            BY <2>1
        <3>2. n \in 0..order.qty
            BY DEF Fills
        <3>3. Signed(order, n) \in Int
            BY <1>2, <3>2 DEF Signed
        <3>4. pos[order.pair] \in [Venues -> Int]
            BY <1>2 DEF Holdings
        <3>5. pos' \in [Pairs -> Holdings]
            <4>1. pos[order.pair][order.venue] + Signed(order, n) \in Int
                BY <1>2, <3>3, <3>4
            <4> QED
                BY <1>2, <3>1, <3>4, <4>1, SMTT(30) DEF Holdings
        <3>6. n \in Nat /\ n <= order.qty
            BY <1>2, <3>2
        <3>7. order' \in Orders
            BY <1>2, <3>1, <3>6 DEF Orders
        <3>8. /\ order'.phase = "acted" /\ order'.filled = n /\ order'.venue = order.venue
              /\ order'.act = order.act /\ order'.qty = order.qty
            BY <1>2, <3>1 DEF Orders
        <3> QED
            BY <3>5, <3>6, <3>7, <3>8
    <2>2. CASE \E verdict \in {"rejected", "lost"} \cup (IF order.venue = "K" THEN {"paused"} ELSE {}) :
                 /\ order' = [order EXCEPT !.phase = "acted", !.verdict = verdict]
                 /\ pos' = pos
        BY <1>2, <2>2, ZenonT(40) DEF Orders
    <2> QED
        BY <2>1, <2>2 DEF Exchange
<1>4. TypeOK'
    BY <1>1, <1>3 DEF IInv, TypeOK
<1> QED
    BY <1>1, <1>3, <1>4, SameOrderStep

LEMMA ReplyUnclearStep ==
    ASSUME IInv, ReplyUnclear
    PROVE  IInv'
<1>1. /\ order.phase = "acted" /\ order' = [order EXCEPT !.phase = "unclear"]
      /\ UNCHANGED <<pos, journal, haltFile, saved, up, trade, rows, belief, acct, reading, halted, stuck, paused,
                      rejects, reserved, resuming, cut, handed>>
    BY DEF ReplyUnclear, disk, account, limits, history
<1>2. /\ order' \in Orders /\ order'.phase = "unclear" /\ order'.filled = order.filled /\ order'.qty = order.qty
      /\ order'.venue = order.venue /\ order'.act = order.act
    BY <1>1 DEF IInv, TypeOK, Orders
<1>3. TypeOK'
    BY <1>1, <1>2 DEF IInv, TypeOK
<1> QED
    BY <1>1, <1>2, <1>3, SameOrderStep DEF IInv, Shape

\* However an order's outcome is learned, it is between nothing and all of it.
LEMMA OutcomeStep ==
    ASSUME IInv, Reply \/ ReadPosition \/ GiveUp
    PROVE  IInv'
<1>1. /\ order.filled \in 0..order.qty /\ order.qty \in Nat /\ order.filled \in Nat
      /\ order.venue \in Venues /\ order.pair \in Pairs /\ order.before \in Int
    BY DEF IInv, Shape, TypeOK, Orders
<1>2. CASE Reply
    BY <1>1, <1>2, LearnStep DEF Reply
<1>3. CASE ReadPosition
    <2>1. pos[order.pair][order.venue] \in Int
        BY <1>1 DEF IInv, TypeOK, Holdings
    <2>2. Signed(order, pos[order.pair][order.venue] - order.before) \in Int
        BY <1>1, <2>1 DEF Signed
    <2>3. ReadAs(order) \in 0..order.qty
        BY <1>1, <2>2 DEF ReadAs, Least
    <2> QED
        BY <1>3, <2>3, LearnStep DEF ReadPosition
<1>4. CASE GiveUp
    <2>1. PICK n \in 0..(IF order.venue = "P" THEN order.filled ELSE 0) : Learn("unknown", n)
        BY <1>4 DEF GiveUp
    <2>2. n \in 0..order.qty
        BY <1>1
    <2> QED
        BY <1>4, <2>1, <2>2, LearnStep DEF GiveUp
<1> QED
    BY <1>2, <1>3, <1>4

\* The first leg is in: the second is sized to it, or there is none to hedge.
LEMMA BuyFollowStep ==
    ASSUME IInv, BuyFollow
    PROVE  IInv'
<1> DEFINE f == Other(trade.lead)
           n == Whole(trade.got[trade.lead])
<1>1. /\ ~Idle /\ up /\ trade.at = "first"
      /\ Ask(trade, "second", f, "buy", n, FALSE)
      /\ trade.got[trade.lead] >= Unit
      /\ UNCHANGED <<pos, journal, haltFile, saved, up, rows, belief, acct, reading, halted, stuck, paused,
                      rejects, reserved, resuming, cut, handed>>
    BY DEF IInv, Shape, BuyFollow, Deciding, Idle, disk, account, limits, history
<1>2. /\ trade \in Trades /\ trade.lead \in Venues /\ f \in Venues
      /\ trade.got[trade.lead] \in Int
    BY OtherVenue DEF IInv, TypeOK, Trades, Holdings
<1>3. trade.got[f] = 0 /\ trade.got[trade.lead] >= 0 /\ trade.long = trade.lead
    BY <1>1 DEF IInv, Ordered
<1>4. n \in Nat /\ n <= trade.got[trade.lead] - trade.got[f]
    BY <1>2, <1>3, WholeBounds
<1> HIDE DEF f, n
<1>5. PICK fok \in BOOLEAN : Ask(trade, "second", f, "buy", n, fok)
    BY <1>1
<1>6. trade' \in Trades /\ order' \in Orders
    BY <1>2, <1>4, <1>5, AskFacts DEF Points
<1>7. TypeOK'
    BY <1>1, <1>6, TradeStepType DEF IInv, TypeOK
<1> QED
    BY <1>1, <1>2, <1>3, <1>4, <1>7, Asked DEF f

\* The rest of getting even.
LEMMA GetOutStep ==
    ASSUME IInv, up, ~Idle, NoHalt,
           NEW t \in Trades, t.got = trade.got, t.lead = trade.lead, t.long = trade.lead, t.reserve = trade.reserve,
           GetOut(t),
           UNCHANGED <<pos, journal, saved, up, rows, belief, acct, reading, paused, rejects, reserved,
                       resuming, cut, handed>>
    PROVE  IInv'
<1>1. CASE GoOn(t, "done")
    BY <1>1, GoOnStep DEF Points
<1>2. CASE Ask(t, "complete", Other(t.long), "buy", Left(t), FALSE)
    BY <1>2, EvenOrderStep
<1>3. CASE Ask(t, "sell", t.long, "sell", Left(t), FALSE)
    BY <1>3, EvenOrderStep
<1> QED
    BY <1>1, <1>2, <1>3 DEF GetOut

LEMMA EvenUpStep ==
    ASSUME IInv, EvenUp \/ Chased \/ SellBack \/ Sold
    PROVE  IInv'
<1>1. /\ ~Idle /\ up /\ NoHalt /\ trade \in Trades
      /\ UNCHANGED <<pos, journal, saved, up, rows, belief, acct, reading, paused, rejects, reserved,
                      resuming, cut, handed>>
    BY DEF IInv, Shape, TypeOK, EvenUp, Chased, SellBack, Sold, Deciding, Idle, NoHalt, disk, account, limits, history
<1>2. trade.long = trade.lead
    BY <1>1 DEF IInv, Ordered
<1>3. CASE EvenUp
    <2> DEFINE gap == trade.got["K"] - trade.got["P"]
               t == [trade EXCEPT !.long = IF gap > 0 THEN "K" ELSE "P"]
    <2>1. CASE gap < Unit /\ gap > -Unit
        BY <1>1, <1>2, <1>3, <2>1, GoOnStep DEF EvenUp, Points
    <2>2. CASE ~(gap < Unit /\ gap > -Unit)
        <3>1. /\ trade.lead \in {"K", "P"} /\ trade.got["K"] \in Int /\ trade.got["P"] \in Int
              /\ Unit \in Nat \ {0}
            BY UnitAssumption DEF IInv, TypeOK, Trades, Holdings, Venues
        <3>2. trade.got[Other(trade.lead)] <= trade.got[trade.lead]
            BY <1>1 DEF IInv, Ordered
        <3>3. trade.lead = IF gap > 0 THEN "K" ELSE "P"
            BY <2>2, <3>1, <3>2 DEF Other
        <3>4. /\ t \in Trades /\ t.got = trade.got /\ t.lead = trade.lead /\ t.long = trade.lead
              /\ t.reserve = trade.reserve
            BY <1>1, <3>1, <3>3 DEF Trades, Venues
        <3>5. \/ Ask(t, "chase", Other(t.long), "buy", Left(t), FALSE)
              \/ GetOut(t)
            BY <1>3, <2>2 DEF EvenUp
        <3> HIDE DEF t, gap
        <3>6. CASE Ask(t, "chase", Other(t.long), "buy", Left(t), FALSE)
            BY <1>1, <3>4, <3>6, EvenOrderStep
        <3>7. CASE GetOut(t)
            BY <1>1, <3>4, <3>7, GetOutStep
        <3> QED
            BY <3>5, <3>6, <3>7
    <2> QED
        BY <2>1, <2>2
<1>4. CASE Chased
    BY <1>1, <1>2, <1>4, GetOutStep DEF Chased
<1>5. CASE SellBack
    <2>1. CASE GoOn(trade, "done")
        BY <1>1, <1>2, <2>1, GoOnStep DEF Points
    <2>2. CASE Ask(trade, "sell", trade.long, "sell", Left(trade), FALSE)
        BY <1>1, <1>2, <2>2, EvenOrderStep
    <2> QED
        BY <1>5, <2>1, <2>2 DEF SellBack
<1>6. CASE Sold
    <2>1. CASE Left(trade) < Unit
        BY <1>1, <1>2, <1>6, <2>1, GoOnStep DEF Sold, Points
    <2>2. CASE ~(Left(trade) < Unit)
        <3> DEFINE t == [trade EXCEPT !.round = 1]
        <3>1. 1 \in 0..Rounds
            BY BoundsAssumption
        <3>2. /\ t \in Trades /\ t.got = trade.got /\ t.lead = trade.lead /\ t.long = trade.long
              /\ t.reserve = trade.reserve
            BY <1>1, <3>1 DEF Trades
        <3>3. GoOn(t, "rescue")
            BY <1>6, <2>2 DEF Sold
        <3> HIDE DEF t
        <3>4. Left(trade) \in Int /\ Unit \in Int
            BY <1>1, <1>2, LeftFacts, UnitAssumption
        <3>5. Left(t) >= Unit
            BY <2>2, <3>2, <3>4 DEF Left
        <3> QED
            BY <1>1, <1>2, <3>2, <3>3, <3>5, GoOnStep DEF Points
    <2> QED
        BY <2>1, <2>2
<1> QED
    BY <1>3, <1>4, <1>5, <1>6

LEMMA NextRoundStep ==
    ASSUME IInv, up, ~Idle, NextRound(trade),
           UNCHANGED <<pos, journal, saved, up, rows, belief, acct, reading, paused, rejects, reserved,
                       resuming, cut, handed>>
    PROVE  IInv'
<1>1. trade \in Trades /\ trade.long = trade.lead /\ trade.round \in 0..Rounds
    BY DEF IInv, TypeOK, Trades, Ordered
<1>2. CASE Left(trade) < Unit
    BY <1>1, <1>2, GoOnStep DEF NextRound, Points
<1>3. CASE ~(Left(trade) < Unit) /\ trade.round = Rounds
    BY <1>3, FailStep DEF NextRound
<1>4. CASE ~(Left(trade) < Unit) /\ trade.round # Rounds
    <2> DEFINE t == [trade EXCEPT !.round = @ + 1]
    <2>1. trade.round + 1 \in 0..Rounds
        BY <1>1, <1>4, BoundsAssumption
    <2>2. /\ t \in Trades /\ t.got = trade.got /\ t.lead = trade.lead /\ t.long = trade.long
          /\ t.reserve = trade.reserve
        BY <1>1, <2>1 DEF Trades
    <2>3. GoOn(t, "rescue") /\ NoHalt
        BY <1>4 DEF NextRound
    <2> HIDE DEF t
    <2>4. Left(trade) \in Int /\ Unit \in Int
        BY <1>1, LeftFacts, UnitAssumption
    <2>5. Left(t) >= Unit
        BY <1>4, <2>2, <2>4 DEF Left
    <2> QED
        BY <1>1, <2>2, <2>3, <2>5, GoOnStep DEF Points
<1> QED
    BY <1>2, <1>3, <1>4

LEMMA RescuePollStep ==
    ASSUME IInv, RescuePoll
    PROVE  IInv'
<1>1. /\ up /\ trade.at = "rescue" /\ trade' = [trade EXCEPT !.at = "look"] /\ order' = order
      /\ halted' = PolledHalt
      /\ UNCHANGED <<pos, journal, haltFile, saved, up, rows, belief, acct, reading, stuck, paused,
                      rejects, reserved, resuming, cut, handed>>
    BY DEF RescuePoll, disk, account, history
<1>2. /\ trade' \in Trades /\ trade'.at = "look" /\ trade'.got = trade.got /\ trade'.lead = trade.lead
      /\ trade'.long = trade.long /\ trade'.reserve = trade.reserve
    BY <1>1 DEF IInv, TypeOK, Trades, Points
<1>3. halted' \in BOOLEAN
    BY <1>1 DEF IInv, TypeOK, PolledHalt
<1>4. TypeOK'
    BY <1>1, <1>2, <1>3 DEF IInv, TypeOK
<1>5. ~Idle /\ ~Idle' /\ order.phase = "none"
    BY <1>1, <1>2 DEF IInv, Shape, Idle
<1>6. Shape'
    BY <1>1, <1>2, <1>5 DEF IInv, Shape
<1>7. Ordered'
    BY <1>1, <1>2, <1>5 DEF IInv, Ordered, Left
<1>8. NeverOverHedged'
    BY <1>1, <1>2, <1>5 DEF IInv, NeverOverHedged
<1>9. ReservedExact'
    BY <1>1, <1>2, <1>5 DEF IInv, ReservedExact
<1> QED
    BY <1>4, <1>6, <1>7, <1>8, <1>9 DEF IInv

LEMMA RescueActStep ==
    ASSUME IInv, RescueAct
    PROVE  IInv'
<1>1. /\ up /\ ~Idle /\ trade \in Trades
      /\ UNCHANGED <<pos, journal, saved, up, rows, belief, acct, reading, paused, rejects, reserved,
                      resuming, cut, handed>>
    BY DEF IInv, TypeOK, RescueAct, Idle, account, history
<1>2. trade.long = trade.lead
    BY <1>1 DEF IInv, Ordered
<1>3. CASE Fail(trade)
    BY <1>1, <1>3, FailStep
<1>4. CASE Ask(trade, "rescued", Other(trade.long), "buy", Left(trade), FALSE) /\ NoHalt
    BY <1>1, <1>2, <1>4, EvenOrderStep
<1>5. CASE Ask(trade, "rescued", trade.long, "sell", Left(trade), FALSE) /\ NoHalt
    BY <1>1, <1>2, <1>5, EvenOrderStep
<1>6. CASE NextRound(trade)
    BY <1>1, <1>6, NextRoundStep
<1> QED
    BY <1>3, <1>4, <1>5, <1>6 DEF RescueAct

LEMMA RescuedStep ==
    ASSUME IInv, Rescued
    PROVE  IInv'
<1>1. /\ up /\ ~Idle /\ NextRound(trade)
      /\ UNCHANGED <<pos, journal, saved, up, rows, belief, acct, reading, paused, rejects, reserved,
                      resuming, cut, handed>>
    BY DEF IInv, Shape, Rescued, Deciding, Idle, account, history
<1> QED
    BY <1>1, NextRoundStep

\* The journal can't be written: before an order, or after one.
LEMMA JournalFailsStep ==
    ASSUME IInv, SendFails \/ LearnFails
    PROVE  IInv'
<1>1. /\ up /\ ~Idle /\ Fail(trade)
      /\ UNCHANGED <<pos, journal, saved, up, rows, belief, acct, reading, paused, rejects, reserved,
                      resuming, cut, handed>>
    BY DEF IInv, Shape, SendFails, LearnFails, Idle, account, history
<1> QED
    BY <1>1, FailStep

-----------------------------------------------------------------------------
(* The theorems *)

LEMMA NextIInv == IInv /\ [Next]_vars => IInv'
<1> SUFFICES ASSUME IInv, [Next]_vars PROVE IInv'
    OBVIOUS
<1>1. CASE QuietNext
    BY <1>1, QuietNextType, QuietStep DEF IInv
<1>2. CASE \E p \in Pairs, lead \in Leads, size \in Sizes : Execute(p, lead, size)
    BY <1>2, ExecuteStep
<1>3. CASE TradeStep
    BY <1>3, SendStep, JournalFailsStep, ExchangeStep, OutcomeStep, ReplyUnclearStep, BuyFollowStep, EvenUpStep,
       RescuePollStep, RescueActStep, RescuedStep, FinishStep DEF TradeStep
<1>4. CASE Crash
    BY <1>4, CrashStep
<1>5. CASE Restart
    BY <1>5, RestartStep
<1> QED
    BY <1>1, <1>2, <1>3, <1>4, <1>5 DEF Next, QuietNext

\* Wherever _execute is, a trade's second leg is no more than its first, an order is out only
\* where it waits for one, and what it reserved is set aside.
THEOREM Invariance == Spec => []IInv
<1> QED
    BY InitIInv, NextIInv, PTL DEF Spec

\* Every variable keeps its type: the model has no undefined step.
THEOREM TypeCorrect == Spec => []TypeOK
<1>1. IInv => TypeOK
    BY DEF IInv
<1> QED
    BY <1>1, Invariance, PTL

\* Whatever fills, fails or is read back, no order of a trade asks for more than
\* evens it up.
THEOREM OverHedgeFree == Spec => []NeverOverHedged
<1>1. IInv => NeverOverHedged
    BY DEF IInv
<1> QED
    BY <1>1, Invariance, PTL

\* What a trade set aside is free again once it is over, a Halt, an exception or
\* a failure to write it up included.
THEOREM ReserveReturned == Spec => []ReservedExact
<1>1. IInv => ReservedExact
    BY DEF IInv
<1> QED
    BY <1>1, Invariance, PTL

-----------------------------------------------------------------------------
(* Nothing is sent while an earlier order's outcome is open, for a user who  *)
(* resumes between trades only                                              *)

\* A stop: in memory, and on disk or until a restart.
LEMMA HaltStops ==
    ASSUME Halt
    PROVE  halted' /\ (haltFile' \/ stuck') /\ (haltFile => haltFile') /\ (stuck => stuck')
BY DEF Halt

\* What ends an order: its outcome is in the journal, or the trader stops.
LEMMA LearnAnswers ==
    ASSUME IInv, Answered, up, ~Idle, InFlight, NEW status, NEW n, Learn(status, n)
    PROVE  Answered'
<1> DEFINE t == [trade EXCEPT !.got[order.venue] = @ + Signed(order, n),
                              !.unwound = @ \/ (order.act = "sell" /\ n > 0 /\ status # "unknown")]
<1>1. journal = {order.id} /\ ~resuming.on
    BY DEF Answered
<1>2. resuming' = resuming /\ up' = up
    BY DEF Learn
<1>3. CASE status = "unknown"
    <2>1. Halt /\ journal' = journal /\ GoOn([t EXCEPT !.stopped = TRUE], "done")
        BY <1>3 DEF Learn, Fail
    <2>2. order'.phase = "none"
        BY <2>1 DEF GoOn, NoOrder
    <2>3. trade'.at = "done"
        BY <2>1 DEF GoOn, IInv, TypeOK, Trades
    <2> QED
        BY <1>1, <1>2, <2>1, <2>2, <2>3, HaltStops DEF Answered, InFlight
<1>4. CASE status # "unknown"
    <2>1. journal' = journal \ {order.id} /\ order' = NoOrder
        BY <1>4 DEF Learn, GoOn
    <2>2. journal' = {} /\ order'.phase = "none"
        BY <1>1, <2>1 DEF NoOrder
    <2> QED
        BY <1>1, <1>2, <2>2 DEF Answered, InFlight
<1> QED
    BY <1>3, <1>4

\* A step of a trade between its orders finds the journal answered, or its end.
LEMMA BetweenOrders ==
    ASSUME IInv, Answered, up, ~Idle, ~InFlight, up' = up, resuming' = resuming, journal' = journal,
           order'.phase \in {"none", "waiting"},
           \/ trade.at # "done"
           \/ (Halt \/ NoHalt) /\ trade'.at = "idle"
    PROVE  Answered'
<1>1. ~resuming.on
    BY DEF Answered
<1>2. ~InFlight'
    BY DEF InFlight
<1>3. CASE trade.at # "done"
    <2>1. journal = {}
        BY <1>3 DEF Answered, Idle
    <2> QED
        BY <1>1, <1>2, <2>1 DEF Answered
<1>4. CASE (Halt \/ NoHalt) /\ trade'.at = "idle"
    BY <1>1, <1>2, <1>4, HaltStops DEF Answered, NoHalt
<1> QED
    BY <1>3, <1>4

\* Asking and going on leave nothing in flight.
LEMMA AskedPhase ==
    ASSUME NEW t, NEW at, NEW v, NEW act, NEW n, Ask(t, at, v, act, n, FALSE)
    PROVE  order'.phase \in {"none", "waiting"}
<1>1. order' = [NoOrder EXCEPT !.phase = "waiting", !.pair = t.pair, !.venue = v, !.act = act,
                               !.qty = n, !.fok = FALSE]
    BY DEF Ask
<1> QED
    BY <1>1 DEF NoOrder

LEMMA GoneOnPhase ==
    ASSUME NEW t, NEW at, GoOn(t, at)
    PROVE  order'.phase \in {"none", "waiting"}
BY DEF GoOn, NoOrder

\* What a step of a trade under way does to the order in flight.
LEMMA DecideOrders ==
    ASSUME IInv, BuyFollow \/ EvenUp \/ Chased \/ SellBack \/ Sold \/ RescuePoll \/ RescueAct \/ Rescued
                 \/ SendFails
    PROVE  /\ up /\ ~Idle /\ ~InFlight /\ up' = up /\ resuming' = resuming /\ journal' = journal
           /\ order'.phase \in {"none", "waiting"} /\ trade.at # "done"
<1>1. up /\ ~Idle /\ ~InFlight /\ trade.at # "done"
    <2>1. CASE BuyFollow \/ EvenUp \/ Chased \/ SellBack \/ Sold \/ Rescued
        BY <2>1 DEF IInv, Shape, BuyFollow, EvenUp, Chased, SellBack, Sold, Rescued, Deciding, Idle, InFlight
    <2>2. CASE RescuePoll \/ RescueAct \/ SendFails
        BY <2>2 DEF IInv, Shape, RescuePoll, RescueAct, SendFails, Idle, InFlight
    <2> QED
        BY <2>1, <2>2
<1>2. up' = up /\ resuming' = resuming /\ journal' = journal
    BY DEF BuyFollow, EvenUp, Chased, SellBack, Sold, RescuePoll, RescueAct, Rescued, SendFails, disk
<1>3. order'.phase \in {"none", "waiting"}
    <2>1. \A t : GetOut(t) => order'.phase \in {"none", "waiting"}
        BY AskedPhase, GoneOnPhase DEF GetOut
    <2>2. Fail(trade) => order'.phase \in {"none", "waiting"}
        BY GoneOnPhase DEF Fail
    <2>3. NextRound(trade) => order'.phase \in {"none", "waiting"}
        BY <2>2, GoneOnPhase DEF NextRound
    <2>4. CASE BuyFollow
        BY <2>4, AskedPhase DEF BuyFollow
    <2>5. CASE EvenUp
        BY <2>1, <2>5, AskedPhase, GoneOnPhase DEF EvenUp
    <2>6. CASE Chased
        BY <2>1, <2>6 DEF Chased
    <2>7. CASE SellBack \/ Sold
        BY <2>7, AskedPhase, GoneOnPhase DEF SellBack, Sold
    <2>8. CASE RescuePoll
        BY <2>8 DEF RescuePoll, IInv, Shape, Idle
    <2>9. CASE RescueAct
        BY <2>2, <2>3, <2>9, AskedPhase DEF RescueAct
    <2>10. CASE Rescued \/ SendFails
        BY <2>2, <2>3, <2>10 DEF Rescued, SendFails
    <2> QED
        BY <2>4, <2>5, <2>6, <2>7, <2>8, <2>9, <2>10
<1> QED
    BY <1>1, <1>2, <1>3

LEMMA SendAnswered ==
    ASSUME IInv, Answered, Send
    PROVE  Answered' /\ journal = {}
<1> DEFINE id == CHOOSE i \in Ids \ journal : TRUE
<1>1. /\ up /\ order.phase = "waiting" /\ journal' = journal \cup {id}
      /\ order' = [order EXCEPT !.phase = "sent", !.id = id, !.before = belief[order.pair][order.venue]]
      /\ up' = up /\ trade' = trade /\ resuming' = resuming
    BY DEF Send
<1>2. ~Idle /\ trade.at # "done"
    BY <1>1 DEF IInv, Shape
<1>3. journal = {} /\ ~resuming.on
    BY <1>1, <1>2 DEF Answered, InFlight, Idle
<1> HIDE DEF id
<1>4. order'.phase = "sent" /\ order'.id = id
    BY <1>1 DEF IInv, TypeOK, Orders
<1> QED
    BY <1>1, <1>3, <1>4 DEF Answered, InFlight

LEMMA NextAnswered == CarefulUser /\ IInv /\ Answered /\ [Next]_vars => Answered'
<1> SUFFICES ASSUME CarefulUser, IInv, Answered, [Next]_vars PROVE Answered'
    OBVIOUS
<1>1. CASE \E p \in Pairs, lead \in Leads, size \in Sizes : Execute(p, lead, size)
    <2>1. PICK p \in Pairs, lead \in Leads, size \in Sizes : Execute(p, lead, size)
        BY <1>1
    <2>2. /\ up /\ Idle /\ ~halted /\ journal' = journal /\ resuming' = resuming /\ up' = up
        BY <2>1 DEF Execute, Passes, disk
    <2>3. journal = {} /\ ~resuming.on
        BY <2>2 DEF Answered, IInv, Shape, InFlight
    <2>4. order'.phase = "waiting"
        <3>1. order' = [NoOrder EXCEPT !.phase = "waiting", !.pair = order'.pair, !.venue = order'.venue,
                                       !.act = order'.act, !.qty = order'.qty, !.fok = order'.fok]
            BY <2>1 DEF Execute, Ask, NoOrder
        <3> QED
            BY <3>1 DEF NoOrder
    <2> QED
        BY <2>2, <2>3, <2>4 DEF Answered, InFlight
<1>2. CASE Send
    BY <1>2, SendAnswered
<1>3. CASE Exchange \/ ReplyUnclear
    <2>1. UNCHANGED <<journal, haltFile, up, trade, halted, stuck, resuming>> /\ InFlight
        BY <1>3 DEF Exchange, ReplyUnclear, disk, limits, InFlight
    <2>2. order'.id = order.id /\ InFlight'
        <3>1. order \in Orders
            BY DEF IInv, TypeOK
        <3> QED
            BY <1>3, <3>1 DEF Exchange, ReplyUnclear, InFlight, Orders
    <2> QED
        BY <2>1, <2>2 DEF Answered, Idle
<1>4. CASE Reply \/ ReadPosition \/ GiveUp
    <2>1. up /\ ~Idle /\ InFlight /\ \E status, n : Learn(status, n)
        BY <1>4 DEF Reply, ReadPosition, GiveUp, InFlight
    <2> QED
        BY <2>1, LearnAnswers
<1>5. CASE LearnFails
    <2>1. /\ up /\ ~Idle /\ InFlight /\ Halt /\ GoOn([trade EXCEPT !.stopped = TRUE], "done")
          /\ up' = up /\ journal' = journal /\ resuming' = resuming
        BY <1>5 DEF LearnFails, Fail, InFlight
    <2>2. order'.phase = "none" /\ trade'.at = "done"
        BY <2>1 DEF GoOn, NoOrder, IInv, TypeOK, Trades
    <2> QED
        BY <2>1, <2>2, HaltStops DEF Answered, InFlight
<1>6. CASE BuyFollow \/ EvenUp \/ Chased \/ SellBack \/ Sold \/ RescuePoll \/ RescueAct \/ Rescued \/ SendFails
    BY <1>6, DecideOrders, BetweenOrders
<1>7. CASE Finish \/ FinishFails
    <2>1. /\ up /\ ~Idle /\ ~InFlight /\ up' = up /\ resuming' = resuming /\ journal' = journal
          /\ order'.phase = "none" /\ trade'.at = "idle" /\ (Halt \/ NoHalt)
        BY <1>7 DEF IInv, Shape, Finish, FinishFails, Deciding, Idle, InFlight, NoTrade, NoOrder
    <2> QED
        BY <2>1, BetweenOrders
<1>8. CASE Poll
    BY <1>8 DEF Poll, PolledHalt, Answered, InFlight, Idle, disk
<1>9. CASE ReadAccount \/ AccountRead \/ AccountReadFails \/ PauseEnds \/ Commit
    BY <1>9 DEF ReadAccount, AccountRead, AccountReadFails, PauseEnds, Commit, Answered, InFlight, Idle, disk, limits
<1>10. CASE HaltByHand
    BY <1>10 DEF HaltByHand, Answered, InFlight, Idle, limits
<1>11. CASE ResumeRead
    BY <1>11, SwitchAssumption DEF ResumeRead, Answered, InFlight, Idle, disk, limits, Unresolved
<1>12. CASE ResumeApply
    <2>1. resuming.on /\ journal' = {} /\ ~resuming'.on /\ Idle /\ order' = order /\ trade' = trade /\ up' = up
        BY <1>12 DEF ResumeApply, NotResuming, Answered
    <2> QED
        BY <2>1 DEF Answered, InFlight, Idle
<1>13. CASE Crash
    <2>1. up' = FALSE /\ trade'.at = "idle" /\ UNCHANGED <<journal, haltFile, resuming>>
        BY <1>13 DEF Crash, disk, NoTrade
    <2> QED
        BY <2>1 DEF Answered, Idle
<1>14. CASE Restart
    <2>1. /\ Idle /\ trade' = trade /\ journal' = journal /\ resuming' = resuming /\ order'.phase = "none"
        BY <1>14 DEF Restart, IInv, Shape, NoOrder
    <2>2. haltFile => halted' /\ haltFile'
        BY <1>14 DEF Restart
    <2>3. journal # {} => halted' /\ (haltFile' \/ stuck')
        BY <1>14, <2>2, HaltStops DEF Restart, Unresolved
    <2> QED
        BY <2>1, <2>2, <2>3 DEF Answered, InFlight, Idle
<1>15. CASE UNCHANGED vars
    BY <1>15 DEF vars, disk, limits, Answered, InFlight, Idle
<1> QED
    BY <1>1, <1>2, <1>3, <1>4, <1>5, <1>6, <1>7, <1>8, <1>9, <1>10, <1>11, <1>12, <1>13, <1>14, <1>15
    DEF Next, TradeStep

\* Only Send sends, and it finds the journal answered.
LEMMA SendsAnswered ==
    ASSUME CarefulUser, IInv, Answered, [Next]_vars, order.phase = "waiting", order'.phase = "sent"
    PROVE  journal = {}
<1>1. CASE Send
    BY <1>1, SendAnswered
<1>2. CASE \E p \in Pairs, lead \in Leads, size \in Sizes : Execute(p, lead, size)
    BY <1>2 DEF Execute, IInv, Shape
<1>3. CASE Exchange \/ Reply \/ ReplyUnclear \/ ReadPosition \/ GiveUp \/ LearnFails
    BY <1>3 DEF Exchange, Reply, ReplyUnclear, ReadPosition, GiveUp, LearnFails
<1>4. CASE BuyFollow \/ EvenUp \/ Chased \/ SellBack \/ Sold \/ RescuePoll \/ RescueAct \/ Rescued \/ SendFails
    BY <1>4, DecideOrders
<1>5. CASE Finish \/ FinishFails \/ Restart
    BY <1>5 DEF Finish, FinishFails, Restart, NoOrder
<1>6. CASE Crash
    BY <1>6 DEF Crash, NoOrder
<1>7. CASE QuietNext
    BY <1>7, QuietNextType DEF QuietNext, Poll, ReadAccount, AccountRead, AccountReadFails, PauseEnds, Commit,
                              HaltByHand, ResumeRead, ResumeApply, vars
<1> QED
    BY <1>1, <1>2, <1>3, <1>4, <1>5, <1>6, <1>7 DEF Next, TradeStep, QuietNext

\* The journal's promise, for a user who resumes between trades only: no order is
\* sent while the outcome of an earlier one is open.
THEOREM NeverSentBlind == CarefulUser => (Spec => NoSendWhileUnresolved)
<1> SUFFICES ASSUME CarefulUser PROVE Spec => NoSendWhileUnresolved
    OBVIOUS
<1>1. Init => Answered
    BY DEF Init, Answered, InFlight, Idle, NoTrade, NoOrder, NotResuming
<1>2. IInv /\ Answered /\ [Next]_vars => Answered'
    BY NextAnswered
<1>3. IInv /\ Answered /\ [Next]_vars =>
          [order.phase = "waiting" /\ order'.phase = "sent" => journal = {}]_vars
    BY SendsAnswered
<1> QED
    BY <1>1, <1>2, <1>3, Invariance, PTL DEF Spec, NoSendWhileUnresolved

-----------------------------------------------------------------------------
(* The account: the inductive invariant, five parts on top of IInv *)

Even(h) == h["K"] - h["P"] < Unit /\ h["P"] - h["K"] < Unit

\* What the account held of a leg before the order under way was filled.
Own(p, v) == IF p = order.pair /\ v = order.venue THEN Signed(order, order.filled) ELSE 0
Before(p, v) == pos[p][v] - Own(p, v)

\* An order is filled by the venue only, is its trade's, and if it outlives the
\* process its pair counts as cut short.
Filled ==
    /\ order.phase \in {"none", "waiting", "sent"} => order.filled = 0 /\ order.verdict = "ok"
    /\ order.verdict # "ok" => order.filled = 0
    /\ ~Idle /\ order.phase # "none" => order.pair = trade.pair
    /\ ~up /\ order.phase # "none" => order.pair \in cut

\* A trade that was stopped has stopped the trader, on disk or until a restart; a
\* stop that is neither any more was lifted with the account read; a resume is
\* for a stopped trader between trades; and the account is not read in a trade.
Stops ==
    /\ ~Idle /\ trade.stopped => trade.at = "done" /\ halted /\ (haltFile \/ stuck)
    /\ up /\ halted /\ ~haltFile /\ ~stuck => Idle /\ acct # "stale"
    /\ resuming.on => haltFile /\ Idle /\ (up => halted /\ acct # "stale")
    /\ ~up => acct = "unread" /\ ~halted /\ ~stuck /\ reading.state = "none"
    /\ ~Idle => acct = "stale" /\ reading.state # "kept"
    /\ reading.state = "kept" => reading.seen = pos

\* When what the guard holds of the account may be relied on: while a trade that
\* was not stopped runs, and between trades once it was read, or unless stopped.
Trusts == up /\ acct # "unread" /\ (IF Idle THEN acct = "fresh" \/ ~halted ELSE ~trade.stopped)

Believed ==
    /\ Trusts => \A p \in Pairs, v \in Venues : belief[p][v] = Before(p, v)
    /\ InFlight /\ ~Idle => order.before = belief[order.pair][order.venue]

\* The trader is not stopped, or would not be after a poll or a restart.
Trading == (up /\ ~halted) \/ (~haltFile /\ ~(halted /\ stuck))

Recorded ==
    Trading => \A p \in Pairs \ (cut \cup handed) :
        IF Idle \/ trade.pair # p THEN pos[p] = rows[p] /\ Even(pos[p])
        ELSE rows[p] = Flat /\ \A v \in Venues : trade.got[v] = Before(p, v)

\* A trade that ends without a stop is even.
Ended == ~Idle /\ trade.at = "done" /\ ~trade.stopped => Even(trade.got)

AInv == Filled /\ Stops /\ Believed /\ Recorded /\ Ended

-----------------------------------------------------------------------------
(* What the coroutine does between two of its orders *)

Decides == BuyFollow \/ EvenUp \/ Chased \/ SellBack \/ Sold \/ RescuePoll \/ RescueAct \/ Rescued \/ SendFails

\* It goes on, with the same fills and either no order or a new one, or it stops
\* the trader.
Onward ==
    /\ ~Idle'
    /\ order'.phase \in {"none", "waiting"} /\ order'.filled = 0 /\ order'.verdict = "ok"
    /\ order'.phase # "none" => order'.pair = trade'.pair
    /\ trade'.pair = trade.pair /\ trade'.got = trade.got
    /\ \/ Halt /\ trade'.stopped /\ trade'.at = "done"
       \/ /\ trade'.stopped = trade.stopped
          /\ UNCHANGED <<haltFile, stuck>> /\ halted' \in {halted, PolledHalt}
    /\ Ended'

LEMMA AskOnward ==
    ASSUME NEW t \in Trades, t.pair = trade.pair, t.got = trade.got, t.stopped = trade.stopped,
           NEW at \in Points \ {"idle", "done"}, NEW v, NEW act, NEW n, NEW fok,
           Ask(t, at, v, act, n, fok), NoHalt
    PROVE  Onward
<1>1. trade' = [t EXCEPT !.at = at]
    BY DEF Ask
<1>2. trade'.at = at /\ trade'.pair = t.pair /\ trade'.got = t.got /\ trade'.stopped = t.stopped
    BY <1>1 DEF Trades
<1>3. order' = [NoOrder EXCEPT !.phase = "waiting", !.pair = t.pair, !.venue = v, !.act = act,
                               !.qty = n, !.fok = fok]
    BY DEF Ask
<1>4. order'.phase = "waiting" /\ order'.filled = 0 /\ order'.verdict = "ok" /\ order'.pair = t.pair
    BY <1>3 DEF NoOrder
<1> QED
    BY <1>2, <1>4 DEF Onward, Ended, Idle, NoHalt

LEMMA GoOnOnward ==
    ASSUME NEW t \in Trades, t.pair = trade.pair, t.got = trade.got, t.stopped = trade.stopped,
           NEW at \in Points \ {"idle"}, GoOn(t, at), NoHalt,
           at = "done" => Even(trade.got)
    PROVE  Onward
<1>1. trade' = [t EXCEPT !.at = at]
    BY DEF GoOn
<1>2. trade'.at = at /\ trade'.pair = t.pair /\ trade'.got = t.got /\ trade'.stopped = t.stopped
    BY <1>1 DEF Trades
<1>3. order'.phase = "none" /\ order'.filled = 0 /\ order'.verdict = "ok"
    BY DEF GoOn, NoOrder
<1> QED
    BY <1>2, <1>3 DEF Onward, Ended, Idle, NoHalt

LEMMA FailOnward ==
    ASSUME NEW t \in Trades, t.pair = trade.pair, t.got = trade.got, Fail(t)
    PROVE  Onward
<1>1. trade' = [[t EXCEPT !.stopped = TRUE] EXCEPT !.at = "done"] /\ Halt
    BY DEF Fail, GoOn
<1>2. trade'.at = "done" /\ trade'.pair = t.pair /\ trade'.got = t.got /\ trade'.stopped
    BY <1>1 DEF Trades
<1>3. order'.phase = "none" /\ order'.filled = 0 /\ order'.verdict = "ok"
    BY DEF Fail, GoOn, NoOrder
<1> QED
    BY <1>1, <1>2, <1>3 DEF Onward, Ended, Idle

\* Nothing left to hedge is an even trade.
LEMMA LeftEven ==
    ASSUME IInv, ~Idle, NEW t \in Trades, t.got = trade.got, t.lead = trade.lead, t.long = trade.lead,
           Left(t) < Unit
    PROVE  Even(trade.got)
<1>1. /\ Left(t) \in Int
      /\ trade.got[trade.lead] - trade.got[Other(trade.lead)] >= Unit => Left(t) >= Unit
      /\ trade.got[Other(trade.lead)] <= trade.got[trade.lead]
    BY LeftFacts
<1>2. Unit \in Nat /\ Unit > 0
    BY UnitAssumption
<1>3. trade.got["K"] \in Int /\ trade.got["P"] \in Int /\ trade.lead \in {"K", "P"}
    BY DEF IInv, TypeOK, Trades, Holdings, Venues
<1> QED
    BY <1>1, <1>2, <1>3 DEF Even, Other

LEMMA GetOutOnward ==
    ASSUME IInv, ~Idle, NEW t \in Trades, t.pair = trade.pair, t.got = trade.got, t.stopped = trade.stopped,
           t.lead = trade.lead, t.long = trade.lead, GetOut(t), NoHalt
    PROVE  Onward
<1>1. CASE Left(t) < Unit
    BY <1>1, LeftEven, GoOnOnward DEF GetOut, Points
<1>2. CASE ~(Left(t) < Unit)
    BY <1>2, AskOnward DEF GetOut, Points
<1> QED
    BY <1>1, <1>2

LEMMA EvenUpOnward ==
    ASSUME IInv, ~Idle, EvenUp
    PROVE  Onward
<1> DEFINE gap == trade.got["K"] - trade.got["P"]
           t == [trade EXCEPT !.long = IF gap > 0 THEN "K" ELSE "P"]
<1>1. NoHalt /\ trade \in Trades
    BY DEF EvenUp, NoHalt, disk, limits, IInv, TypeOK
<1>2. /\ trade.lead \in {"K", "P"} /\ trade.got["K"] \in Int /\ trade.got["P"] \in Int
      /\ Unit \in Nat \ {0}
    BY <1>1, UnitAssumption DEF Trades, Holdings, Venues
<1>3. CASE gap < Unit /\ gap > -Unit
    <2>1. Even(trade.got)
        BY <1>2, <1>3 DEF Even
    <2>2. GoOn(trade, "done")
        BY <1>3 DEF EvenUp
    <2> QED
        BY <1>1, <2>1, <2>2, GoOnOnward DEF Points
<1>4. CASE ~(gap < Unit /\ gap > -Unit)
    <2>1. trade.got[Other(trade.lead)] <= trade.got[trade.lead]
        BY DEF IInv, Ordered
    <2>2. trade.lead = IF gap > 0 THEN "K" ELSE "P"
        BY <1>2, <1>4, <2>1 DEF Other
    <2>3. /\ t \in Trades /\ t.got = trade.got /\ t.lead = trade.lead /\ t.long = trade.lead
          /\ t.pair = trade.pair /\ t.stopped = trade.stopped
        BY <1>1, <1>2, <2>2 DEF Trades, Venues
    <2>4. \/ Ask(t, "chase", Other(t.long), "buy", Left(t), FALSE)
          \/ GetOut(t)
        BY <1>4 DEF EvenUp
    <2> HIDE DEF t, gap
    <2>5. CASE Ask(t, "chase", Other(t.long), "buy", Left(t), FALSE)
        BY <1>1, <2>3, <2>5, AskOnward DEF Points
    <2>6. CASE GetOut(t)
        BY <1>1, <2>3, <2>6, GetOutOnward
    <2> QED
        BY <2>4, <2>5, <2>6
<1> QED
    BY <1>3, <1>4

LEMMA NextRoundOnward ==
    ASSUME IInv, ~Idle, NextRound(trade)
    PROVE  Onward
<1>1. trade \in Trades /\ trade.long = trade.lead /\ trade.round \in 0..Rounds
    BY DEF IInv, TypeOK, Trades, Ordered
<1>2. CASE Left(trade) < Unit
    BY <1>1, <1>2, LeftEven, GoOnOnward DEF NextRound, Points
<1>3. CASE ~(Left(trade) < Unit) /\ trade.round = Rounds
    BY <1>1, <1>3, FailOnward DEF NextRound
<1>4. CASE ~(Left(trade) < Unit) /\ trade.round # Rounds
    <2> DEFINE t == [trade EXCEPT !.round = @ + 1]
    <2>1. trade.round + 1 \in 0..Rounds
        BY <1>1, <1>4, BoundsAssumption
    <2>2. t \in Trades /\ t.got = trade.got /\ t.pair = trade.pair /\ t.stopped = trade.stopped
        BY <1>1, <2>1 DEF Trades
    <2>3. GoOn(t, "rescue") /\ NoHalt
        BY <1>4 DEF NextRound
    <2> HIDE DEF t
    <2> QED
        BY <2>2, <2>3, GoOnOnward DEF Points
<1> QED
    BY <1>2, <1>3, <1>4

LEMMA DecidesOnward ==
    ASSUME IInv, Filled, Decides
    PROVE  /\ Onward
           /\ up /\ ~Idle /\ order.phase \in {"none", "waiting"} /\ trade.at # "done"
           /\ UNCHANGED <<pos, saved, up, rows, belief, acct, reading, paused, resuming, cut, handed>>
<1>1. up /\ ~Idle /\ order.phase \in {"none", "waiting"} /\ trade.at # "done"
    <2>1. up /\ ~Idle /\ ~InFlight /\ trade.at # "done"
        BY DecideOrders DEF Decides
    <2> QED
        BY <2>1 DEF InFlight, IInv, TypeOK, Orders
<1>2. UNCHANGED <<pos, saved, up, rows, belief, acct, reading, paused, resuming, cut, handed>>
    BY DEF Decides, BuyFollow, EvenUp, Chased, SellBack, Sold, RescuePoll, RescueAct, Rescued, SendFails,
           disk, account, limits, history
<1>3. trade \in Trades /\ trade.long = trade.lead
    BY <1>1 DEF IInv, TypeOK, Ordered
<1> SUFFICES Onward
    BY <1>1, <1>2
<1>4. CASE BuyFollow
    <2>1. NoHalt /\ Ask(trade, "second", Other(trade.lead), "buy", Whole(trade.got[trade.lead]), FALSE)
        BY <1>4 DEF BuyFollow, NoHalt, disk, limits
    <2> QED
        BY <1>3, <2>1, AskOnward DEF Points
<1>5. CASE EvenUp
    BY <1>1, <1>5, EvenUpOnward
<1>6. CASE Chased
    BY <1>1, <1>3, <1>6, GetOutOnward DEF Chased, NoHalt, disk, limits
<1>7. CASE SellBack
    <2>1. NoHalt
        BY <1>7 DEF SellBack, NoHalt, disk, limits
    <2>2. CASE Left(trade) < Unit
        BY <1>1, <1>3, <1>7, <2>1, <2>2, LeftEven, GoOnOnward DEF SellBack, Points
    <2>3. CASE ~(Left(trade) < Unit)
        BY <1>3, <1>7, <2>1, <2>3, AskOnward DEF SellBack, Points
    <2> QED
        BY <2>2, <2>3
<1>8. CASE Sold
    <2>1. NoHalt
        BY <1>8 DEF Sold, NoHalt, disk, limits
    <2>2. CASE Left(trade) < Unit
        BY <1>1, <1>3, <1>8, <2>1, <2>2, LeftEven, GoOnOnward DEF Sold, Points
    <2>3. CASE ~(Left(trade) < Unit)
        <3> DEFINE t == [trade EXCEPT !.round = 1]
        <3>1. 1 \in 0..Rounds
            BY BoundsAssumption
        <3>2. t \in Trades /\ t.got = trade.got /\ t.pair = trade.pair /\ t.stopped = trade.stopped
            BY <1>3, <3>1 DEF Trades
        <3>3. GoOn(t, "rescue")
            BY <1>8, <2>3 DEF Sold
        <3> HIDE DEF t
        <3> QED
            BY <2>1, <3>2, <3>3, GoOnOnward DEF Points
    <2> QED
        BY <2>2, <2>3
<1>9. CASE RescuePoll
    <2>1. /\ trade' = [trade EXCEPT !.at = "look"] /\ order' = order /\ trade.at = "rescue"
          /\ halted' = PolledHalt /\ UNCHANGED <<haltFile, stuck>>
        BY <1>9 DEF RescuePoll, disk
    <2>2. trade'.at = "look" /\ trade'.pair = trade.pair /\ trade'.got = trade.got
          /\ trade'.stopped = trade.stopped
        BY <1>3, <2>1 DEF Trades
    <2>3. order.phase = "none"
        BY <1>1, <2>1 DEF IInv, Shape
    <2> QED
        BY <2>1, <2>2, <2>3 DEF Filled, Onward, Ended, Idle
<1>10. CASE RescueAct
    <2>1. CASE Fail(trade)
        BY <1>3, <2>1, FailOnward
    <2>2. CASE Ask(trade, "rescued", Other(trade.long), "buy", Left(trade), FALSE) /\ NoHalt
        BY <1>3, <2>2, AskOnward DEF Points
    <2>3. CASE Ask(trade, "rescued", trade.long, "sell", Left(trade), FALSE) /\ NoHalt
        BY <1>3, <2>3, AskOnward DEF Points
    <2>4. CASE NextRound(trade)
        BY <1>1, <2>4, NextRoundOnward
    <2> QED
        BY <1>10, <2>1, <2>2, <2>3, <2>4 DEF RescueAct
<1>11. CASE Rescued
    BY <1>1, <1>11, NextRoundOnward DEF Rescued
<1>12. CASE SendFails
    BY <1>3, <1>12, FailOnward DEF SendFails
<1> QED
    BY <1>4, <1>5, <1>6, <1>7, <1>8, <1>9, <1>10, <1>11, <1>12 DEF Decides

-----------------------------------------------------------------------------
(* The steps of a trade *)

LEMMA SignedNothing ==
    ASSUME NEW o, NEW n \in Int, n <= 0, n >= 0
    PROVE  Signed(o, n) = 0
BY DEF Signed

\* With nothing filled, the account holds what it held before.
LEMMA NothingFilled ==
    ASSUME TypeOK, order.filled = 0, NEW p \in Pairs, NEW v \in Venues
    PROVE  Before(p, v) = pos[p][v] /\ pos[p][v] \in Int
<1>1. pos[p][v] \in Int
    BY DEF TypeOK, Holdings
<1>2. Signed(order, order.filled) = 0
    BY SignedNothing
<1>3. Own(p, v) = 0
    BY <1>2, Zenon DEF Own
<1> QED
    BY <1>1, <1>3 DEF Before

LEMMA NothingFilledNext ==
    ASSUME TypeOK', order'.filled = 0, NEW p \in Pairs, NEW v \in Venues
    PROVE  Before(p, v)' = pos'[p][v] /\ pos'[p][v] \in Int
<1>1. pos'[p][v] \in Int
    BY DEF TypeOK, Holdings
<1>2. Signed(order', order'.filled) = 0
    BY SignedNothing
<1>3. Own(p, v)' = 0
    BY <1>2, Zenon DEF Own
<1> QED
    BY <1>1, <1>3 DEF Before

\* A trade that runs on was not stopped, so what the guard holds is relied on.
LEMMA TradeTrusts ==
    ASSUME IInv, Stops, up, ~Idle, trade.at # "done"
    PROVE  Trusts /\ ~trade.stopped
BY DEF Stops, Trusts

\* After a step that stops the trader, only a resume or a restart lifts the stop.
LEMMA StopsTrading ==
    ASSUME Halt
    PROVE  ~Trading'
BY DEF Halt, Trading

\* A trade that ends in a stop claims nothing of the account any more.
LEMMA StoppedStep ==
    ASSUME IInv, IInv', AInv, up, ~Idle, Halt, trade'.stopped, trade'.at = "done",
           order'.filled = 0, order'.verdict = "ok", UNCHANGED <<pos, up, acct, reading, resuming>>
    PROVE  AInv'
<1>1. ~Idle' /\ order'.phase = "none"
    BY DEF IInv, Shape, Idle
<1>2. halted' /\ (haltFile' \/ stuck')
    BY HaltStops
<1>3. Filled'
    BY <1>1 DEF Filled
<1>4. Stops'
    BY <1>1, <1>2 DEF AInv, Stops
<1>5. Believed'
    BY <1>1 DEF Believed, Trusts, InFlight
<1>6. Recorded'
    BY StopsTrading DEF Recorded
<1>7. Ended'
    BY DEF Ended
<1> QED
    BY <1>3, <1>4, <1>5, <1>6, <1>7 DEF AInv

LEMMA DecidesStep ==
    ASSUME IInv, IInv', AInv, Decides
    PROVE  AInv'
<1>1. /\ Onward
      /\ up /\ ~Idle /\ order.phase \in {"none", "waiting"} /\ trade.at # "done"
      /\ UNCHANGED <<pos, up, rows, belief, acct, reading, resuming, cut, handed>>
    BY DecidesOnward DEF AInv
<1>2. /\ ~Idle' /\ order'.filled = 0 /\ order'.verdict = "ok" /\ order'.phase \in {"none", "waiting"}
      /\ trade'.pair = trade.pair /\ trade'.got = trade.got
    BY <1>1 DEF Onward
<1>3. CASE Halt /\ trade'.stopped /\ trade'.at = "done"
    BY <1>1, <1>2, <1>3, StoppedStep
<1>4. CASE /\ trade'.stopped = trade.stopped
           /\ UNCHANGED <<haltFile, stuck>> /\ halted' \in {halted, PolledHalt}
    <2>1. Trusts /\ ~trade.stopped
        BY <1>1, TradeTrusts DEF AInv
    <2>2. order.filled = 0
        BY <1>1 DEF AInv, Filled
    <2>3. \A p \in Pairs, v \in Venues : Before(p, v)' = Before(p, v)
        BY <1>1, <1>2, <2>2, NothingFilled, NothingFilledNext DEF IInv
    <2>4. Trading' => Trading
        BY <1>1, <1>4 DEF Trading, PolledHalt
    <2>5. Filled'
        BY <1>1, <1>2 DEF Filled, Onward
    <2>6. Stops'
        BY <1>1, <1>2, <1>4, <2>1 DEF AInv, Stops, PolledHalt
    <2>7. Believed'
        BY <1>1, <1>2, <2>1, <2>3 DEF AInv, Believed, InFlight
    <2>8. Recorded'
        BY <1>1, <1>2, <2>3, <2>4 DEF AInv, Recorded
    <2> QED
        BY <1>1, <2>5, <2>6, <2>7, <2>8 DEF AInv, Onward
<1> QED
    BY <1>1, <1>3, <1>4 DEF Onward

LEMMA SendsStep ==
    ASSUME IInv, IInv', AInv, Send
    PROVE  AInv'
<1> DEFINE id == CHOOSE i \in Ids \ journal : TRUE
           before == belief[order.pair][order.venue]
<1>1. /\ order' = [order EXCEPT !.phase = "sent", !.id = id, !.before = before]
      /\ up /\ order.phase = "waiting"
      /\ UNCHANGED <<pos, haltFile, up, trade, rows, belief, acct, reading, halted, stuck, resuming, cut, handed>>
    BY DEF Send, account, limits, history
<1> HIDE DEF id
<1>2. /\ order'.phase = "sent" /\ order'.filled = order.filled /\ order'.verdict = order.verdict
      /\ order'.pair = order.pair /\ order'.venue = order.venue /\ order'.before = before
    BY <1>1 DEF IInv, TypeOK, Orders
<1>3. ~Idle /\ trade.at # "done" /\ (Idle' <=> Idle)
    BY <1>1 DEF IInv, Shape, Idle
<1>4. order.filled = 0 /\ order.verdict = "ok" /\ order.pair = trade.pair
    BY <1>1, <1>3 DEF AInv, Filled
<1>5. \A p \in Pairs, v \in Venues : Before(p, v)' = Before(p, v)
    BY <1>1, <1>2, <1>4, NothingFilled, NothingFilledNext DEF IInv
<1>6. Filled'
    BY <1>1, <1>2, <1>4 DEF Filled
<1>7. Stops'
    BY <1>1, <1>3 DEF AInv, Stops, Idle
<1>8. Believed'
    <2>1. Trusts' <=> Trusts
        BY <1>1 DEF Trusts, Idle
    <2> QED
        BY <1>1, <1>2, <1>5, <2>1 DEF AInv, Believed
<1>9. Recorded'
    BY <1>1, <1>3, <1>5 DEF AInv, Recorded, Trading
<1>10. Ended'
    BY <1>1, <1>3 DEF AInv, Ended
<1> QED
    BY <1>6, <1>7, <1>8, <1>9, <1>10 DEF AInv

\* What the venue fills is the order's own.
LEMMA ExchangesStep ==
    ASSUME IInv, IInv', AInv, Exchange
    PROVE  AInv'
<1>1. /\ order.phase = "sent"
      /\ UNCHANGED <<haltFile, up, trade, rows, belief, acct, reading, halted, stuck, resuming, cut, handed>>
    BY DEF Exchange, disk, account, limits, history
<1>2. /\ order \in Orders /\ order.qty \in Nat /\ order.filled = 0 /\ order.verdict = "ok"
      /\ pos \in [Pairs -> Holdings] /\ order.pair \in Pairs /\ order.venue \in Venues
    BY <1>1 DEF IInv, TypeOK, Orders, AInv, Filled
<1>3. /\ order'.phase = "acted" /\ order'.pair = order.pair /\ order'.venue = order.venue
      /\ order'.before = order.before /\ (order'.verdict # "ok" => order'.filled = 0)
      /\ \A p \in Pairs, v \in Venues : Before(p, v)' = Before(p, v)
      /\ \A p \in Pairs : p # order.pair => pos'[p] = pos[p]
    <2>1. CASE \E n \in Fills(order) :
                 /\ order' = [order EXCEPT !.phase = "acted", !.filled = n]
                 /\ pos' = [pos EXCEPT ![order.pair][order.venue] = @ + Signed(order, n)]
        <3>1. PICK n \in Fills(order) :
                 /\ order' = [order EXCEPT !.phase = "acted", !.filled = n]
                 /\ pos' = [pos EXCEPT ![order.pair][order.venue] = @ + Signed(order, n)]
            BY <2>1
        <3>2. n \in Int
            BY <1>2 DEF Fills
        <3>3. /\ order'.phase = "acted" /\ order'.filled = n /\ order'.venue = order.venue
              /\ order'.act = order.act /\ order'.pair = order.pair /\ order'.before = order.before
              /\ order'.verdict = order.verdict
            BY <1>2, <3>1 DEF Orders
        <3>4. Signed(order', order'.filled) = Signed(order, n) /\ Signed(order, n) \in Int
            BY <3>2, <3>3 DEF Signed
        <3>5. ASSUME NEW p \in Pairs, NEW v \in Venues
              PROVE  /\ pos[p][v] \in Int
                     /\ pos'[p][v] = IF p = order.pair /\ v = order.venue THEN pos[p][v] + Signed(order, n)
                                     ELSE pos[p][v]
            BY <1>2, <3>1 DEF Holdings
        <3>6. ASSUME NEW p \in Pairs, NEW v \in Venues
              PROVE  Before(p, v)' = Before(p, v)
            <4>1. Before(p, v) = pos[p][v]
                BY <1>2, NothingFilled DEF IInv
            <4>2. Own(p, v)' = IF p = order.pair /\ v = order.venue THEN Signed(order, n) ELSE 0
                BY <3>3, <3>4 DEF Own
            <4> HIDE DEF Own
            <4>3. Before(p, v)' = pos'[p][v] - Own(p, v)'
                BY DEF Before
            <4> QED
                BY <3>4, <3>5, <4>1, <4>2, <4>3
        <3>7. \A p \in Pairs : p # order.pair => pos'[p] = pos[p]
            BY <1>2, <3>1
        <3> QED
            BY <1>2, <3>3, <3>6, <3>7
    <2>2. CASE \E verdict \in {"rejected", "lost"} \cup (IF order.venue = "K" THEN {"paused"} ELSE {}) :
                 /\ order' = [order EXCEPT !.phase = "acted", !.verdict = verdict]
                 /\ pos' = pos
        <3>1. /\ order'.phase = "acted" /\ order'.filled = 0 /\ order'.venue = order.venue
              /\ order'.pair = order.pair /\ order'.before = order.before /\ pos' = pos
            BY <1>2, <2>2, ZenonT(40) DEF Orders
        <3>2. \A p \in Pairs, v \in Venues : Before(p, v)' = Before(p, v)
            BY <1>2, <3>1, NothingFilled, NothingFilledNext DEF IInv
        <3> QED
            BY <3>1, <3>2
    <2> QED
        BY <2>1, <2>2 DEF Exchange
<1>4. Idle' <=> Idle
    BY <1>1 DEF Idle
<1>5. Filled'
    BY <1>1, <1>3, <1>4 DEF AInv, Filled
<1>6. Stops'
    <2>1. reading.state # "kept"
        BY <1>1 DEF IInv, Shape, AInv, Stops
    <2> QED
        BY <1>1, <1>4, <2>1 DEF AInv, Stops
<1>7. Believed'
    <2>1. Trusts' <=> Trusts
        BY <1>1 DEF Trusts, Idle
    <2> QED
        BY <1>1, <1>3, <1>4, <2>1 DEF AInv, Believed, InFlight
<1>8. Recorded'
    <2>1. Trading' <=> Trading
        BY <1>1 DEF Trading
    <2>2. SUFFICES ASSUME Trading, NEW p \in Pairs \ (cut \cup handed)
                   PROVE  IF Idle \/ trade.pair # p THEN pos'[p] = rows[p] /\ Even(pos'[p])
                          ELSE rows[p] = Flat /\ \A v \in Venues : trade.got[v] = Before(p, v)'
        BY <1>1, <1>4, <2>1 DEF Recorded, Even
    <2>3. CASE Idle \/ trade.pair # p
        <3>1. p # order.pair
            BY <1>1, <2>3 DEF IInv, Shape, AInv, Filled
        <3> QED
            BY <1>3, <2>2, <2>3, <3>1 DEF AInv, Recorded
    <2>4. CASE ~(Idle \/ trade.pair # p)
        BY <1>3, <2>2, <2>4 DEF AInv, Recorded
    <2> QED
        BY <2>3, <2>4
<1>9. Ended'
    BY <1>1, <1>4 DEF AInv, Ended
<1> QED
    BY <1>5, <1>6, <1>7, <1>8, <1>9 DEF AInv

LEMMA UnclearStep ==
    ASSUME IInv, AInv, ReplyUnclear
    PROVE  AInv'
<1>1. /\ order.phase = "acted" /\ order' = [order EXCEPT !.phase = "unclear"]
      /\ UNCHANGED <<pos, haltFile, up, trade, rows, belief, acct, reading, halted, stuck, resuming, cut, handed>>
    BY DEF ReplyUnclear, disk, account, limits, history
<1>2. /\ order'.phase = "unclear" /\ order'.filled = order.filled /\ order'.verdict = order.verdict
      /\ order'.pair = order.pair /\ order'.venue = order.venue /\ order'.before = order.before
      /\ order'.act = order.act
    BY <1>1 DEF IInv, TypeOK, Orders
<1>3. Idle' <=> Idle
    BY <1>1 DEF Idle
<1>4. \A p, v : Before(p, v)' = Before(p, v)
    BY <1>1, <1>2 DEF Before, Own, Signed
<1>5. Filled'
    BY <1>1, <1>2, <1>3 DEF AInv, Filled
<1>6. Stops'
    BY <1>1, <1>3 DEF AInv, Stops
<1>7. Believed'
    BY <1>1, <1>2, <1>3, <1>4 DEF AInv, Believed, Trusts, InFlight
<1>8. Recorded'
    BY <1>1, <1>3, <1>4 DEF AInv, Recorded, Trading
<1>9. Ended'
    BY <1>1, <1>3 DEF AInv, Ended
<1> QED
    BY <1>5, <1>6, <1>7, <1>8, <1>9 DEF AInv

\* Read back against what was held before it, an order's position says what it filled.
LEMMA ReadsFilled ==
    ASSUME IInv, AInv, up, ~Idle, InFlight
    PROVE  ReadAs(order) = order.filled
<1>1. /\ order.filled \in Nat /\ order.qty \in Nat /\ order.filled <= order.qty
      /\ order.pair \in Pairs /\ order.venue \in Venues /\ order.before \in Int
    BY DEF IInv, Shape, TypeOK, Orders
<1>2. trade.at # "done"
    BY DEF IInv, Shape, InFlight
<1>3. order.before = Before(order.pair, order.venue)
    BY <1>1, <1>2, TradeTrusts DEF AInv, Believed
<1>4. pos[order.pair][order.venue] \in Int
    BY <1>1 DEF IInv, TypeOK, Holdings
<1>5. order.before = pos[order.pair][order.venue] - Signed(order, order.filled)
    BY <1>3 DEF Before, Own
<1>6. Signed(order, order.filled) \in Int
    BY <1>1 DEF Signed
<1>7. pos[order.pair][order.venue] - order.before = Signed(order, order.filled)
    BY <1>4, <1>5, <1>6
<1>8. Signed(order, Signed(order, order.filled)) = order.filled
    BY <1>1 DEF Signed
<1>9. ReadAs(order) = IF order.filled < 0 THEN 0 ELSE Least(order.filled, order.qty)
    BY <1>7, <1>8 DEF ReadAs
<1> QED
    BY <1>1, <1>9 DEF Least

\* An outcome that is learned is counted as it was, in the trade and in what the
\* guard holds of the account.
LEMMA LearnedStep ==
    ASSUME IInv, IInv', AInv, up, ~Idle, InFlight, NEW status, status # "unknown",
           Learn(status, order.filled)
    PROVE  AInv'
<1> DEFINE n == order.filled
           t == [trade EXCEPT !.got[order.venue] = @ + Signed(order, n),
                              !.unwound = @ \/ (order.act = "sell" /\ n > 0 /\ status # "unknown")]
<1>1. /\ GoOn(t, t.at)
      /\ UNCHANGED <<haltFile, stuck, halted, pos, up, rows, acct, reading, resuming, cut, handed>>
      /\ belief' = Moved(order, n)
    BY DEF Learn, NoHalt, history
<1>2. /\ order \in Orders /\ order.pair \in Pairs /\ order.venue \in Venues /\ n \in Nat
      /\ order.before \in Int /\ trade \in Trades /\ trade.got \in [Venues -> Int]
      /\ trade.got[order.venue] \in Int
    BY DEF IInv, TypeOK, Orders, Trades, Holdings
<1>3. trade.at # "done" /\ order.phase # "none" /\ order.pair = trade.pair
    BY DEF IInv, Shape, InFlight, AInv, Filled
<1>4. Trusts /\ ~trade.stopped
    BY <1>3, TradeTrusts DEF AInv
<1>5. Signed(order, n) \in Int
    BY <1>2 DEF Signed
<1>6. /\ trade'.at = trade.at /\ trade'.pair = trade.pair /\ trade'.stopped = trade.stopped
      /\ \A v \in Venues : trade'.got[v] = IF v = order.venue THEN trade.got[v] + Signed(order, n) ELSE trade.got[v]
    BY <1>1, <1>2, <1>5 DEF GoOn, Trades
<1>7. /\ order'.phase = "none" /\ order'.filled = 0 /\ order'.verdict = "ok"
    BY <1>1 DEF GoOn, NoOrder
<1>8. ~Idle'
    BY <1>6 DEF Idle
<1>9. \A p \in Pairs, v \in Venues : Before(p, v)' = pos[p][v] /\ pos[p][v] \in Int
    BY <1>1, <1>7, NothingFilledNext DEF IInv
<1> HIDE DEF n, t
<1>10. \A p \in Pairs, v \in Venues :
            Before(p, v) = IF p = order.pair /\ v = order.venue THEN pos[p][v] - Signed(order, n) ELSE pos[p][v]
    BY <1>9 DEF Before, Own, n
<1>11. Filled'
    BY <1>1, <1>7, <1>8 DEF Filled
<1>12. Stops'
    BY <1>1, <1>4, <1>6, <1>8 DEF AInv, Stops
<1>13. Believed'
    <2>1. SUFFICES ASSUME NEW p \in Pairs, NEW v \in Venues PROVE belief'[p][v] = pos[p][v]
        BY <1>7, <1>9 DEF Believed, InFlight
    <2>2. belief[p][v] = Before(p, v) /\ order.before = Before(order.pair, order.venue)
        BY <1>2, <1>4 DEF AInv, Believed
    <2>3. belief[p] \in [Venues -> Int] /\ belief \in [Pairs -> Holdings]
        BY DEF IInv, TypeOK, Holdings
    <2>4. CASE n > 0
        <3>1. belief' = [belief EXCEPT ![order.pair][order.venue] = order.before + Signed(order, n)]
            BY <1>1, <2>4 DEF Moved
        <3>2. belief'[p][v] = IF p = order.pair /\ v = order.venue THEN order.before + Signed(order, n)
                              ELSE belief[p][v]
            BY <1>2, <2>3, <3>1 DEF Holdings
        <3> QED
            BY <1>2, <1>5, <1>9, <1>10, <2>2, <3>2
    <2>5. CASE ~(n > 0)
        <3>1. Signed(order, n) = 0
            BY <1>2, <2>5, SignedNothing
        <3>2. belief' = belief
            BY <1>1, <2>5 DEF Moved
        <3> QED
            BY <1>9, <1>10, <2>2, <3>1, <3>2
    <2> QED
        BY <2>4, <2>5
<1>14. Recorded'
    <2>1. Trading' <=> Trading
        BY <1>1 DEF Trading
    <2>2. SUFFICES ASSUME Trading, NEW p \in Pairs \ (cut \cup handed)
                   PROVE  IF trade.pair # p THEN pos[p] = rows[p] /\ Even(pos[p])
                          ELSE rows[p] = Flat /\ \A v \in Venues : trade'.got[v] = pos[p][v]
        BY <1>1, <1>6, <1>8, <1>9, <2>1 DEF Recorded
    <2>3. CASE trade.pair # p
        BY <2>2, <2>3 DEF AInv, Recorded
    <2>4. CASE trade.pair = p
        <3>1. rows[p] = Flat /\ \A v \in Venues : trade.got[v] = Before(p, v)
            BY <2>2, <2>4 DEF AInv, Recorded
        <3>2. ASSUME NEW v \in Venues PROVE trade'.got[v] = pos[p][v]
            BY <1>3, <1>5, <1>6, <1>9, <1>10, <2>4, <3>1
        <3> QED
            BY <2>4, <3>1, <3>2
    <2> QED
        BY <2>3, <2>4
<1>15. Ended'
    BY <1>3, <1>6 DEF Ended
<1> QED
    BY <1>11, <1>12, <1>13, <1>14, <1>15 DEF AInv

LEMMA OutcomesStep ==
    ASSUME IInv, IInv', AInv, Reply \/ ReadPosition \/ GiveUp \/ LearnFails
    PROVE  AInv'
<1>1. up /\ ~Idle /\ InFlight
    BY DEF Reply, ReadPosition, GiveUp, LearnFails, InFlight
<1>2. CASE Reply
    <2>1. order.verdict \in {"ok", "rejected", "paused"}
        BY <1>2 DEF Reply, IInv, TypeOK, Orders
    <2>2. StatusOf(order.filled, order.qty) \in {"filled", "partial", "none"}
        BY DEF StatusOf
    <2> QED
        BY <1>1, <1>2, <2>1, <2>2, LearnedStep DEF Reply
<1>3. CASE ReadPosition
    <2>1. StatusOf(order.filled, order.qty) \in {"filled", "partial", "none"}
        BY DEF StatusOf
    <2> QED
        BY <1>1, <1>3, <2>1, ReadsFilled, LearnedStep DEF ReadPosition
<1>4. CASE GiveUp \/ LearnFails
    <2>1. PICK t \in Trades : /\ Halt /\ GoOn([t EXCEPT !.stopped = TRUE], "done")
                              /\ UNCHANGED <<pos, up, acct, reading, resuming>>
        <3>1. CASE LearnFails
            BY <3>1 DEF LearnFails, Fail, account, IInv, TypeOK
        <3>2. CASE GiveUp
            <4>1. PICK n \in 0..(IF order.venue = "P" THEN order.filled ELSE 0) : Learn("unknown", n)
                BY <3>2 DEF GiveUp
            <4> DEFINE t == [trade EXCEPT !.got[order.venue] = @ + Signed(order, n),
                                          !.unwound = @ \/ (order.act = "sell" /\ n > 0 /\ "unknown" # "unknown")]
            <4>2. n \in Int /\ order.venue \in Venues /\ order.filled \in Nat
                BY DEF IInv, TypeOK, Orders
            <4>3. Signed(order, n) \in Int /\ trade \in Trades
                BY <4>2 DEF Signed, IInv, TypeOK
            <4>4. t \in Trades
                <5> DEFINE s == [trade EXCEPT !.got[order.venue] = @ + Signed(order, n)]
                <5>1. s \in Trades
                    BY <4>2, <4>3 DEF Trades, Holdings
                <5>2. t = [s EXCEPT !.unwound = @ \/ (order.act = "sell" /\ n > 0 /\ "unknown" # "unknown")]
                    BY <4>3 DEF Trades
                <5>3. (s.unwound \/ (order.act = "sell" /\ n > 0 /\ "unknown" # "unknown")) \in BOOLEAN
                    OBVIOUS
                <5> HIDE DEF s, t
                <5> QED
                    BY <5>1, <5>2, <5>3 DEF Trades
            <4>5. /\ Fail(t) /\ UNCHANGED <<pos, up, acct, reading, resuming>>
                BY <4>1 DEF Learn
            <4> HIDE DEF t
            <4> QED
                BY <4>4, <4>5 DEF Fail
        <3> QED
            BY <1>4, <3>1, <3>2
    <2>2. trade'.stopped /\ trade'.at = "done" /\ order'.filled = 0 /\ order'.verdict = "ok"
        BY <2>1 DEF GoOn, Trades, NoOrder
    <2> QED
        BY <1>1, <2>1, <2>2, StoppedStep
<1> QED
    BY <1>2, <1>3, <1>4

-----------------------------------------------------------------------------
(* The steps that start a trade and end one, and those in between *)

LEMMA ExecutesStep ==
    ASSUME IInv, IInv', AInv, NEW p \in Pairs, NEW lead \in Leads, NEW size \in Sizes, Execute(p, lead, size)
    PROVE  AInv'
<1> DEFINE t == [NoTrade EXCEPT !.pair = p, !.lead = lead, !.long = lead, !.reserve = size * Unit]
<1>1. /\ up /\ Idle /\ ~halted /\ acct # "unread" /\ belief[p] = Flat
      /\ trade' = [t EXCEPT !.at = "first"]
      /\ acct' = "stale" /\ reading' = Overtaken(reading)
      /\ UNCHANGED <<pos, haltFile, up, rows, belief, halted, stuck, resuming, cut, handed>>
    BY DEF Execute, Passes, Ask, disk, limits, history
<1>2. order' = [NoOrder EXCEPT !.phase = "waiting", !.pair = t.pair, !.venue = lead, !.act = "buy",
                               !.qty = size * Unit, !.fok = (lead = "P")]
    BY DEF Execute, Ask
<1>3. t.pair = p
    BY DEF NoTrade
<1>4. /\ order'.phase = "waiting" /\ order'.filled = 0 /\ order'.verdict = "ok" /\ order'.pair = p
    BY <1>2, <1>3 DEF NoOrder
<1>5. /\ trade'.at = "first" /\ trade'.pair = p /\ trade'.got = Flat /\ ~trade'.stopped
    BY <1>1 DEF NoTrade
<1>6. ~Idle'
    BY <1>5 DEF Idle
<1>7. order.phase = "none" /\ order.filled = 0
    BY <1>1 DEF IInv, Shape, AInv, Filled
<1>8. \A q \in Pairs, v \in Venues : Before(q, v)' = pos[q][v] /\ Before(q, v) = pos[q][v]
    BY <1>1, <1>4, <1>7, NothingFilled, NothingFilledNext DEF IInv
<1>9. Trusts /\ Trading /\ ~resuming.on
    BY <1>1 DEF Trusts, Trading, AInv, Stops
<1>10. Filled'
    BY <1>1, <1>4, <1>5 DEF Filled
<1>11. Stops'
    <2>1. reading'.state # "kept"
        BY <1>1 DEF Overtaken, IInv, TypeOK
    <2> QED
        BY <1>1, <1>5, <1>6, <1>9, <2>1 DEF Stops
<1>12. Believed'
    BY <1>1, <1>4, <1>8, <1>9 DEF AInv, Believed, InFlight
<1>13. Recorded'
    <2>1. SUFFICES ASSUME NEW q \in Pairs \ (cut \cup handed)
                   PROVE  IF p # q THEN pos[q] = rows[q] /\ Even(pos[q])
                          ELSE rows[q] = Flat /\ \A v \in Venues : Flat[v] = pos[q][v]
        BY <1>1, <1>5, <1>6, <1>8 DEF Recorded
    <2>2. pos[q] = rows[q] /\ Even(pos[q])
        BY <1>1, <1>9 DEF AInv, Recorded
    <2>3. CASE p = q
        <3>1. \A v \in Venues : pos[q][v] = Flat[v]
            BY <1>1, <1>8, <1>9, <2>3 DEF AInv, Believed
        <3>2. pos[q] \in [Venues -> Int] /\ Flat \in [Venues -> Int]
            BY FlatType DEF IInv, TypeOK, Holdings
        <3>3. pos[q] = Flat
            BY <3>1, <3>2
        <3> QED
            BY <2>2, <2>3, <3>3
    <2> QED
        BY <2>2, <2>3
<1>14. Ended'
    BY <1>5 DEF Ended
<1> QED
    BY <1>10, <1>11, <1>12, <1>13, <1>14 DEF AInv

\* What a trade that was not stopped held is in its row now, and even.
LEMMA FinishesStep ==
    ASSUME IInv, IInv', AInv, Finish \/ FinishFails
    PROVE  AInv'
<1>1. /\ up /\ ~Idle /\ trade.at = "done" /\ order.phase = "none"
      /\ trade' = NoTrade /\ order' = NoOrder
      /\ UNCHANGED <<pos, up, belief, acct, reading, resuming, cut, handed>>
      /\ Halt \/ (Finish /\ NoHalt /\ rows' = Kept(trade))
    BY DEF IInv, Shape, Finish, FinishFails, Deciding, Idle, account, history
<1>2. Idle' /\ order'.phase = "none" /\ order'.filled = 0 /\ order'.verdict = "ok"
    BY <1>1 DEF Idle, NoTrade, NoOrder
<1>3. order.filled = 0 /\ acct = "stale" /\ reading.state # "kept" /\ ~resuming.on
    BY <1>1 DEF AInv, Filled, Stops
<1>4. \A p \in Pairs, v \in Venues : Before(p, v)' = pos[p][v] /\ Before(p, v) = pos[p][v]
    BY <1>1, <1>2, <1>3, NothingFilled, NothingFilledNext DEF IInv
<1>5. ~halted' => ~halted /\ NoHalt /\ rows' = Kept(trade)
    <2>1. Halt => halted'
        BY HaltStops
    <2>2. NoHalt /\ ~halted' => ~halted
        BY Zenon DEF NoHalt
    <2> QED
        BY <1>1, <2>1, <2>2
<1>6. halted => haltFile \/ stuck
    BY <1>1, <1>3 DEF AInv, Stops
<1>7. halted' => haltFile' \/ stuck'
    <2>1. Halt => haltFile' \/ stuck'
        BY HaltStops
    <2>2. NoHalt /\ halted' => halted /\ (haltFile => haltFile') /\ (stuck => stuck')
        BY DEF NoHalt
    <2> QED
        BY <1>1, <1>6, <2>1, <2>2
<1>8. Filled'
    BY <1>1, <1>2 DEF Filled
<1>9. Stops'
    BY <1>1, <1>2, <1>3, <1>7 DEF Stops
<1>10. Believed'
    <2>1. SUFFICES ASSUME Trusts', NEW p \in Pairs, NEW v \in Venues PROVE belief[p][v] = pos[p][v]
        BY <1>1, <1>2, <1>4 DEF Believed, InFlight
    <2>2. ~halted'
        BY <1>1, <1>2, <1>3, <2>1 DEF Trusts
    <2>3. ~trade.stopped
        BY <1>1, <1>5, <2>2 DEF AInv, Stops
    <2>4. Trusts
        BY <1>1, <1>3, <2>3 DEF Trusts
    <2> QED
        BY <1>4, <2>4 DEF AInv, Believed
<1>11. Recorded'
    <2>1. SUFFICES ASSUME Trading', NEW p \in Pairs \ (cut \cup handed)
                   PROVE  pos[p] = rows'[p] /\ Even(pos[p])
        BY <1>1, <1>2 DEF Recorded, Even
    <2>2. Trading /\ NoHalt /\ rows' = Kept(trade)
        BY <1>1, <2>1, StopsTrading DEF NoHalt, Trading
    <2>3. ~trade.stopped
        BY <1>1, <2>2 DEF AInv, Stops, Trading
    <2>4. trade.pair \in Pairs /\ trade.got \in [Venues -> Int] /\ rows \in [Pairs -> Holdings]
        BY DEF IInv, TypeOK, Trades, Holdings
    <2>5. CASE trade.pair # p
        <3>1. rows'[p] = rows[p]
            BY <2>2, <2>4, <2>5 DEF Kept
        <3> QED
            BY <1>1, <2>2, <2>5, <3>1 DEF AInv, Recorded
    <2>6. CASE trade.pair = p
        <3>1. rows[p] = Flat /\ \A v \in Venues : trade.got[v] = pos[p][v]
            BY <1>1, <1>4, <2>2, <2>6 DEF AInv, Recorded
        <3>2. pos[p] \in [Venues -> Int]
            BY DEF IInv, TypeOK, Holdings
        <3>3. trade.got = pos[p]
            BY <2>4, <3>1, <3>2
        <3>4. Even(pos[p])
            BY <1>1, <2>3, <3>3 DEF AInv, Ended
        <3>5. rows'[p] = pos[p]
            <4>1. CASE trade.got = Flat
                BY <2>2, <2>3, <3>1, <3>3, <4>1 DEF Kept
            <4>2. CASE trade.got # Flat
                <5>1. rows'[p] = [v \in Venues |-> rows[p][v] + trade.got[v]]
                    BY <2>2, <2>4, <2>6, <4>2 DEF Kept
                <5>2. \A v \in Venues : rows[p][v] + trade.got[v] = pos[p][v]
                    BY <2>4, <3>1 DEF Flat
                <5> QED
                    BY <3>2, <5>1, <5>2
            <4> QED
                BY <4>1, <4>2
        <3> QED
            BY <3>4, <3>5
    <2> QED
        BY <2>5, <2>6
<1>12. Ended'
    BY <1>2 DEF Ended
<1> QED
    BY <1>8, <1>9, <1>10, <1>11, <1>12 DEF AInv

\* What a crash leaves behind is as recorded, except in the pairs counted as cut
\* short or as the user's.
LEMMA CrashesStep ==
    ASSUME IInv, AInv, Crash
    PROVE  AInv'
<1>1. /\ up /\ ~up' /\ trade' = NoTrade /\ order' = IF order.phase = "sent" THEN order ELSE NoOrder
      /\ rows' = saved /\ acct' = "unread" /\ reading' = NoReading /\ ~halted' /\ ~stuck'
      /\ cut' = cut \cup (IF Idle THEN {} ELSE {trade.pair}) \cup {p \in Pairs : rows[p] # saved[p]}
      /\ handed' = IF stuck THEN handed \cup {p \in Pairs : Off(p)} ELSE handed
      /\ UNCHANGED <<pos, haltFile, resuming>>
    BY DEF Crash, disk
<1>2. Idle'
    BY <1>1 DEF Idle, NoTrade
<1>3. Filled'
    <2>1. CASE order.phase = "sent"
        <3>1. ~Idle /\ order.pair = trade.pair
            BY <1>1, <2>1 DEF IInv, Shape, AInv, Filled
        <3> QED
            BY <1>1, <1>2, <2>1, <3>1 DEF AInv, Filled
    <2>2. CASE order.phase # "sent"
        <3>1. order'.phase = "none" /\ order'.filled = 0 /\ order'.verdict = "ok"
            BY <1>1, <2>2 DEF NoOrder
        <3> QED
            BY <1>2, <3>1 DEF Filled
    <2> QED
        BY <2>1, <2>2
<1>4. Stops'
    BY <1>1, <1>2 DEF AInv, Stops, NoReading
<1>5. Believed'
    BY <1>1, <1>2 DEF Believed, Trusts
<1>6. Recorded'
    <2>1. SUFFICES ASSUME ~haltFile, NEW p \in Pairs \ (cut' \cup handed')
                   PROVE  pos[p] = rows'[p] /\ Even(pos[p])
        BY <1>1, <1>2 DEF Recorded, Trading, Even
    <2>2. p \in Pairs \ (cut \cup handed) /\ (Idle \/ trade.pair # p) /\ rows'[p] = rows[p]
        BY <1>1
    <2>3. CASE Trading
        BY <2>2, <2>3 DEF AInv, Recorded
    <2>4. CASE ~Trading
        <3>1. stuck
            BY <2>1, <2>4 DEF Trading
        <3>2. ~Off(p)
            BY <1>1, <3>1
        <3>3. pos[p]["K"] \in Int /\ pos[p]["P"] \in Int /\ Unit \in Int
            BY UnitAssumption DEF IInv, TypeOK, Holdings, Venues
        <3> QED
            BY <2>2, <3>2, <3>3 DEF Off, Even
    <2> QED
        BY <2>3, <2>4
<1>7. Ended'
    BY <1>2 DEF Ended
<1> QED
    BY <1>3, <1>4, <1>5, <1>6, <1>7 DEF AInv

LEMMA RestartsStep ==
    ASSUME IInv, AInv, Restart
    PROVE  AInv'
<1>1. /\ ~up /\ up' /\ Idle /\ order' = NoOrder
      /\ UNCHANGED <<pos, trade, rows, acct, reading, resuming, cut, handed>>
      /\ IF haltFile THEN halted' /\ UNCHANGED <<stuck, haltFile>> ELSE Halt \/ NoHalt
    BY DEF Restart, IInv, Shape, account, history
<1>2. Idle' /\ order'.phase = "none" /\ order'.filled = 0 /\ order'.verdict = "ok"
    BY <1>1 DEF Idle, NoOrder
<1>3. acct = "unread" /\ ~halted /\ ~stuck /\ reading.state = "none"
    BY <1>1 DEF AInv, Stops
<1>4. Filled'
    BY <1>1, <1>2 DEF Filled
<1>5. Stops'
    BY <1>1, <1>2, <1>3, HaltStops DEF AInv, Stops, NoHalt
<1>6. Believed'
    BY <1>1, <1>2, <1>3 DEF Believed, Trusts
<1>7. Recorded'
    <2>1. Trading' => Trading
        BY <1>1, <1>3, StopsTrading DEF Trading
    <2> QED
        BY <1>1, <1>2, <2>1 DEF AInv, Recorded
<1>8. Ended'
    BY <1>2 DEF Ended
<1> QED
    BY <1>4, <1>5, <1>6, <1>7, <1>8 DEF AInv

\* The steps that leave the trade and its order alone.
LEMMA QuietsStep ==
    ASSUME CarefulUser, IInv, IInv', AInv, QuietNext
    PROVE  AInv'
<1>1. UNCHANGED <<trade, order, up, pos, rows, cut>>
    BY DEF QuietNext, Poll, ReadAccount, AccountRead, AccountReadFails, PauseEnds, Commit, HaltByHand,
           ResumeRead, ResumeApply, vars, disk, limits, account, history
<1>2. Idle' <=> Idle
    BY <1>1 DEF Idle
<1>3. \A p, v : Before(p, v)' = Before(p, v)
    BY <1>1 DEF Before, Own
<1>4. Filled'
    BY <1>1, <1>2 DEF AInv, Filled
<1>5. Ended'
    BY <1>1, <1>2 DEF AInv, Ended
<1>6. CASE Poll
    <2>1. /\ halted' = PolledHalt /\ UNCHANGED <<haltFile, stuck, belief, acct, reading, resuming, handed>>
        BY <1>6 DEF Poll, disk, account, history
    <2>2. (halted' => haltFile \/ (halted /\ stuck)) /\ (~halted' => ~haltFile /\ ~(halted /\ stuck))
        BY <2>1 DEF PolledHalt
    <2>3. Trading' => Trading
        BY <1>1, <2>1 DEF Trading, PolledHalt
    <2>4. acct \in {"unread", "stale", "fresh"}
        BY DEF IInv, TypeOK
    <2>5. Trusts' => Trusts
        BY <1>1, <1>2, <2>1, <2>2, <2>4 DEF AInv, Stops, Trusts
    <2>6. Stops'
        BY <1>1, <1>2, <1>6, <2>1, <2>2 DEF AInv, Stops, Poll, LoopFree
    <2>7. Believed'
        BY <1>1, <1>2, <1>3, <2>1, <2>5 DEF AInv, Believed, InFlight
    <2>8. Recorded'
        BY <1>1, <1>2, <1>3, <2>1, <2>3 DEF AInv, Recorded
    <2> QED
        BY <1>4, <1>5, <2>6, <2>7, <2>8 DEF AInv
<1>7. CASE ReadAccount
    <2>1. /\ up /\ Idle /\ reading' = [state |-> "kept", seen |-> pos]
          /\ UNCHANGED <<haltFile, halted, stuck, belief, acct, resuming, handed>>
        BY <1>7 DEF ReadAccount, LoopFree, disk, limits, history
    <2>2. Stops'
        BY <1>1, <1>2, <2>1 DEF AInv, Stops
    <2>3. Believed'
        BY <1>1, <1>2, <1>3, <2>1 DEF AInv, Believed, Trusts, InFlight
    <2>4. Recorded'
        BY <1>1, <1>2, <1>3, <2>1 DEF AInv, Recorded, Trading
    <2> QED
        BY <1>4, <1>5, <2>2, <2>3, <2>4 DEF AInv
<1>8. CASE AccountRead
    <2>1. /\ up /\ reading' = NoReading
          /\ IF reading.state = "kept" THEN belief' = reading.seen /\ acct' = "fresh"
             ELSE UNCHANGED <<belief, acct>>
          /\ UNCHANGED <<haltFile, halted, stuck, resuming, handed>>
        BY <1>8 DEF AccountRead, LoopFree, disk, limits, history
    <2>2. Stops'
        BY <1>1, <1>2, <2>1 DEF AInv, Stops, NoReading
    <2>3. Believed'
        <3>1. CASE reading.state = "kept"
            <4>1. Idle /\ reading.seen = pos
                BY <3>1 DEF AInv, Stops
            <4>2. order.filled = 0 /\ order.phase = "none"
                BY <2>1, <4>1 DEF IInv, Shape, AInv, Filled
            <4>3. \A p \in Pairs, v \in Venues : Before(p, v) = pos[p][v]
                BY <4>2, NothingFilled DEF IInv
            <4> QED
                BY <1>1, <1>2, <1>3, <2>1, <3>1, <4>1, <4>2, <4>3 DEF Believed, InFlight
        <3>2. CASE reading.state # "kept"
            BY <1>1, <1>2, <1>3, <2>1, <3>2 DEF AInv, Believed, Trusts, InFlight
        <3> QED
            BY <3>1, <3>2
    <2>4. Recorded'
        BY <1>1, <1>2, <1>3, <2>1 DEF AInv, Recorded, Trading
    <2> QED
        BY <1>4, <1>5, <2>2, <2>3, <2>4 DEF AInv
<1>9. CASE AccountReadFails \/ PauseEnds \/ Commit \/ UNCHANGED vars
    <2>1. /\ UNCHANGED <<haltFile, halted, stuck, belief, acct, resuming, handed>>
          /\ reading' \in {reading, NoReading}
        BY <1>9 DEF AccountReadFails, PauseEnds, Commit, vars, disk, limits, account, history
    <2>2. Stops'
        BY <1>1, <1>2, <2>1 DEF AInv, Stops, NoReading
    <2>3. Believed'
        BY <1>1, <1>2, <1>3, <2>1 DEF AInv, Believed, Trusts, InFlight
    <2>4. Recorded'
        BY <1>1, <1>2, <1>3, <2>1 DEF AInv, Recorded, Trading
    <2> QED
        BY <1>4, <1>5, <2>2, <2>3, <2>4 DEF AInv
<1>10. CASE HaltByHand
    <2>1. /\ haltFile' /\ UNCHANGED <<halted, stuck, belief, acct, reading, resuming, handed>>
        BY <1>10 DEF HaltByHand, limits, account, history
    <2>2. Stops'
        BY <1>1, <1>2, <1>10, <2>1 DEF AInv, Stops, HaltByHand
    <2>3. Believed'
        BY <1>1, <1>2, <1>3, <2>1 DEF AInv, Believed, Trusts, InFlight
    <2>4. Recorded'
        BY <1>1, <1>2, <1>3, <2>1 DEF AInv, Recorded, Trading
    <2> QED
        BY <1>4, <1>5, <2>2, <2>3, <2>4 DEF AInv
<1>11. CASE ResumeRead
    <2>1. /\ haltFile /\ Idle /\ (up => halted /\ acct = "fresh")
          /\ UNCHANGED <<haltFile, halted, stuck, belief, acct, reading, handed>>
        BY <1>11 DEF ResumeRead, disk, limits, account, history
    <2>2. Stops'
        BY <1>1, <1>2, <2>1 DEF AInv, Stops
    <2>3. Believed'
        BY <1>1, <1>2, <1>3, <2>1 DEF AInv, Believed, Trusts, InFlight
    <2>4. Recorded'
        BY <1>1, <1>2, <1>3, <2>1 DEF AInv, Recorded, Trading
    <2> QED
        BY <1>4, <1>5, <2>2, <2>3, <2>4 DEF AInv
<1>12. CASE ResumeApply
    <2>1. /\ resuming.on /\ ~haltFile' /\ resuming' = NotResuming
          /\ handed' = handed \cup {p \in Pairs : Off(p)}
          /\ UNCHANGED <<halted, stuck, belief, acct, reading>>
        BY <1>12 DEF ResumeApply, limits, account
    <2>2. Idle /\ (up => halted /\ acct # "stale")
        BY <2>1 DEF AInv, Stops
    <2>3. Stops'
        BY <1>1, <1>2, <2>1, <2>2 DEF AInv, Stops, NotResuming
    <2>4. Believed'
        BY <1>1, <1>2, <1>3, <2>1 DEF AInv, Believed, Trusts, InFlight
    <2>5. Recorded'
        <3>1. SUFFICES ASSUME NEW p \in Pairs \ (cut \cup handed')
                       PROVE  pos[p] = rows[p] /\ Even(pos[p])
            BY <1>1, <1>2, <2>2 DEF Recorded, Even
        <3>2. ~Off(p)
            BY <2>1
        <3>3. pos[p]["K"] \in Int /\ pos[p]["P"] \in Int /\ Unit \in Int
            BY UnitAssumption DEF IInv, TypeOK, Holdings, Venues
        <3> QED
            BY <3>2, <3>3 DEF Off, Even
    <2> QED
        BY <1>4, <1>5, <2>3, <2>4, <2>5 DEF AInv
<1> QED
    BY <1>6, <1>7, <1>8, <1>9, <1>10, <1>11, <1>12 DEF QuietNext

-----------------------------------------------------------------------------
(* The theorems about the account *)

LEMMA NextAInv == CarefulUser /\ IInv /\ AInv /\ [Next]_vars => AInv'
<1> SUFFICES ASSUME CarefulUser, IInv, AInv, [Next]_vars PROVE AInv'
    OBVIOUS
<1>1. IInv'
    BY NextIInv
<1>2. CASE QuietNext
    BY <1>1, <1>2, QuietsStep
<1>3. CASE \E p \in Pairs, lead \in Leads, size \in Sizes : Execute(p, lead, size)
    BY <1>1, <1>3, ExecutesStep
<1>4. CASE TradeStep
    <2>1. CASE Decides
        BY <1>1, <2>1, DecidesStep
    <2>2. CASE Send \/ Exchange \/ ReplyUnclear
        BY <1>1, <2>2, SendsStep, ExchangesStep, UnclearStep
    <2>3. CASE Reply \/ ReadPosition \/ GiveUp \/ LearnFails
        BY <1>1, <2>3, OutcomesStep
    <2>4. CASE Finish \/ FinishFails
        BY <1>1, <2>4, FinishesStep
    <2> QED
        BY <1>4, <2>1, <2>2, <2>3, <2>4 DEF TradeStep, Decides
<1>5. CASE Crash
    BY <1>5, CrashesStep
<1>6. CASE Restart
    BY <1>6, RestartsStep
<1> QED
    BY <1>2, <1>3, <1>4, <1>5, <1>6 DEF Next, QuietNext

LEMMA InitAInv == Init => AInv
<1> SUFFICES ASSUME Init PROVE AInv
    OBVIOUS
<1>1. /\ Idle /\ order.phase = "none" /\ order.filled = 0 /\ order.verdict = "ok" /\ up
      /\ ~resuming.on /\ reading.state = "none"
    BY DEF Init, Idle, NoTrade, NoOrder, NotResuming, NoReading
<1>2. Filled /\ Ended
    BY <1>1 DEF Filled, Ended
<1>3. Stops
    BY <1>1 DEF Init, Stops
<1>4. Believed
    BY <1>1 DEF Init, Believed, Trusts, InFlight
<1>5. Recorded
    <2>1. Unit \in Nat \ {0}
        BY UnitAssumption
    <2>2. \A p \in Pairs : Even(Nothing[p])
        BY <2>1 DEF Even, Nothing, Flat, Venues
    <2> QED
        BY <1>1, <2>2 DEF Init, Recorded
<1> QED
    BY <1>2, <1>3, <1>4, <1>5 DEF AInv

\* While the trader trades, its rows, its trade and what it believes of the account agree with
\* what the venues hold.
THEOREM AccountInvariance == CarefulUser => (Spec => [](IInv /\ AInv))
<1> SUFFICES ASSUME CarefulUser PROVE Spec => [](IInv /\ AInv)
    OBVIOUS
<1>1. Init => AInv
    BY InitAInv
<1>2. IInv /\ AInv /\ [Next]_vars => AInv'
    BY NextAInv
<1> QED
    BY <1>1, <1>2, Invariance, PTL DEF Spec

\* What _resolve reads an order back against is what the venue held when the order
\* left: the account the guard holds is never older than the trade before.
THEOREM BeforeRight == CarefulUser => (Spec => []BeforeExact)
<1> SUFFICES ASSUME CarefulUser PROVE Spec => []BeforeExact
    OBVIOUS
<1>1. IInv /\ AInv => BeforeExact
    <2> SUFFICES ASSUME IInv, AInv, order.phase = "sent", up
                 PROVE  order.before = pos[order.pair][order.venue]
        BY DEF BeforeExact
    <2>1. ~Idle /\ trade.at # "done" /\ order.filled = 0
        BY DEF IInv, Shape, AInv, Filled
    <2>2. order.pair \in Pairs /\ order.venue \in Venues
        BY DEF IInv, TypeOK, Orders
    <2>3. Trusts
        BY <2>1, TradeTrusts DEF AInv
    <2>4. order.before = Before(order.pair, order.venue)
        BY <2>1, <2>2, <2>3 DEF AInv, Believed, InFlight
    <2> QED
        BY <2>1, <2>2, <2>4, NothingFilled DEF IInv
<1> QED
    BY <1>1, AccountInvariance, PTL

\* The open rows, and the fills of the trade under way, are what the venues hold,
\* whatever was filled partly, turned away, timed out and read back.
THEOREM AccountRight == CarefulUser => (Spec => []AccountExact)
<1> SUFFICES ASSUME CarefulUser PROVE Spec => []AccountExact
    OBVIOUS
<1>1. IInv /\ AInv => AccountExact
    <2> SUFFICES ASSUME IInv, AInv, Running, NEW p \in Pairs \ (cut \cup handed)
                 PROVE  IF Idle \/ trade.pair # p THEN pos[p] = rows[p]
                        ELSE order.phase \in {"none", "waiting"} => pos[p] = trade.got
        BY DEF AccountExact
    <2>1. Trading
        BY DEF Running, Trading
    <2>2. CASE Idle \/ trade.pair # p
        BY <2>1, <2>2 DEF AInv, Recorded
    <2>3. CASE ~(Idle \/ trade.pair # p) /\ order.phase \in {"none", "waiting"}
        <3>1. \A v \in Venues : trade.got[v] = Before(p, v)
            BY <2>1, <2>3 DEF AInv, Recorded
        <3>2. order.filled = 0
            BY <2>3 DEF AInv, Filled
        <3>3. \A v \in Venues : trade.got[v] = pos[p][v]
            BY <3>1, <3>2, NothingFilled DEF IInv
        <3>4. pos[p] \in [Venues -> Int] /\ trade.got \in [Venues -> Int]
            BY DEF IInv, TypeOK, Trades, Holdings
        <3> QED
            BY <2>3, <3>3, <3>4
    <2> QED
        BY <2>2, <2>3
<1> QED
    BY <1>1, AccountInvariance, PTL

\* Between trades of a trader that isn't stopped no leg is without its other side.
THEOREM UnhedgedStops == CarefulUser => (Spec => []HedgedOrStopped)
<1> SUFFICES ASSUME CarefulUser PROVE Spec => []HedgedOrStopped
    OBVIOUS
<1>1. IInv /\ AInv => HedgedOrStopped
    BY DEF AInv, Recorded, Trading, Running, HedgedOrStopped, Even
<1> QED
    BY <1>1, AccountInvariance, PTL

-----------------------------------------------------------------------------
(* No order goes to Kalshi while it turns orders away, for any user *)

Unfilled ==
    /\ order.phase \in {"none", "waiting", "sent"} => order.filled = 0 /\ order.verdict = "ok"
    /\ order.verdict # "ok" => order.filled = 0
    /\ order.verdict = "paused" => order.venue = "K"

\* The second leg, and what is bought to even up, goes to the second venue.
Follows ==
    ~Idle /\ order.phase # "none" =>
        /\ trade.at = "first" => trade.got[trade.lead] = 0
        /\ trade.at \in {"second", "chase", "complete"} => order.venue = Other(trade.lead)

\* A pause met on the first leg leaves nothing to hedge, and one met later only
\* comes to a trade that leads at the other venue, or that is past buying.
PausedOut ==
    paused /\ up /\ ~Idle =>
        IF trade.lead = "K"
        THEN /\ trade.at \notin {"second", "chase", "complete"}
             /\ trade.at = "first" => trade.got["K"] = 0 /\ order.phase = "none"
        ELSE trade.at # "first"

PInv == Unfilled /\ Follows /\ PausedOut

KeptOut == order.phase = "none" /\ order'.phase = "waiting" /\ order'.venue = "K" => ~paused

LEMMA OpenNotPaused ==
    ASSUME TRUE \in Opens("K")
    PROVE  ~paused
BY DEF Opens

LEMMA AskKeptOut ==
    ASSUME PInv, up, ~Idle, NEW t \in Trades, t.got = trade.got, t.lead = trade.lead,
           NEW at \in {"second", "chase", "complete", "sell", "rescued"}, NEW v, NEW act, NEW n,
           Ask(t, at, v, act, n, FALSE), UNCHANGED <<up, paused>>,
           at \in {"second", "chase", "complete"} => v = Other(trade.lead),
           paused => v # "K" /\ (trade.lead = "K" => at \notin {"second", "chase", "complete"})
    PROVE  PInv' /\ KeptOut
<1>1. trade' = [t EXCEPT !.at = at]
    BY DEF Ask
<1>2. trade'.at = at /\ trade'.got = trade.got /\ trade'.lead = trade.lead
    BY <1>1 DEF Trades
<1>3. order' = [NoOrder EXCEPT !.phase = "waiting", !.pair = t.pair, !.venue = v, !.act = act,
                               !.qty = n, !.fok = FALSE]
    BY DEF Ask
<1>4. order'.phase = "waiting" /\ order'.filled = 0 /\ order'.verdict = "ok" /\ order'.venue = v
    BY <1>3 DEF NoOrder
<1>5. Unfilled'
    BY <1>4 DEF Unfilled
<1>6. Follows'
    BY <1>2, <1>4 DEF Follows
<1>7. PausedOut'
    BY <1>2, <1>4 DEF PausedOut
<1> QED
    BY <1>4, <1>5, <1>6, <1>7 DEF PInv, KeptOut

LEMMA GoOnKeptOut ==
    ASSUME NEW t \in Trades, t.lead = trade.lead, NEW at \in {"done", "rescue", "look"}, GoOn(t, at)
    PROVE  PInv' /\ KeptOut
<1>1. trade' = [t EXCEPT !.at = at]
    BY DEF GoOn
<1>2. trade'.at = at
    BY <1>1 DEF Trades
<1>3. order'.phase = "none" /\ order'.filled = 0 /\ order'.verdict = "ok"
    BY DEF GoOn, NoOrder
<1>4. PInv'
    BY <1>2, <1>3 DEF PInv, Unfilled, Follows, PausedOut
<1> QED
    BY <1>3, <1>4 DEF KeptOut

LEMMA FailKeptOut ==
    ASSUME NEW t \in Trades, t.lead = trade.lead, Fail(t)
    PROVE  PInv' /\ KeptOut
<1> DEFINE s == [t EXCEPT !.stopped = TRUE]
<1>1. s \in Trades /\ s.lead = trade.lead
    BY DEF Trades
<1>2. GoOn(s, "done")
    BY DEF Fail
<1> HIDE DEF s
<1> QED
    BY <1>1, <1>2, GoOnKeptOut

LEMMA GetOutKeptOut ==
    ASSUME IInv, PInv, up, ~Idle, NEW t \in Trades, t.got = trade.got, t.lead = trade.lead,
           t.long = trade.lead, GetOut(t), UNCHANGED <<up, paused>>,
           paused => trade.lead # "K"
    PROVE  PInv' /\ KeptOut
<1>1. CASE GoOn(t, "done")
    BY <1>1, GoOnKeptOut
<1>2. CASE TRUE \in Opens(Other(t.long)) /\ Ask(t, "complete", Other(t.long), "buy", Left(t), FALSE)
    BY <1>2, OpenNotPaused, AskKeptOut
<1>3. CASE Ask(t, "sell", t.long, "sell", Left(t), FALSE)
    BY <1>3, AskKeptOut
<1> QED
    BY <1>1, <1>2, <1>3 DEF GetOut

LEMMA NextRoundKeptOut ==
    ASSUME IInv, NextRound(trade)
    PROVE  PInv' /\ KeptOut
<1>1. trade \in Trades /\ trade.round \in 0..Rounds
    BY DEF IInv, TypeOK, Trades
<1>2. CASE Left(trade) < Unit
    BY <1>1, <1>2, GoOnKeptOut DEF NextRound
<1>3. CASE ~(Left(trade) < Unit) /\ trade.round = Rounds
    BY <1>1, <1>3, FailKeptOut DEF NextRound
<1>4. CASE ~(Left(trade) < Unit) /\ trade.round # Rounds
    <2> DEFINE t == [trade EXCEPT !.round = @ + 1]
    <2>1. trade.round + 1 \in 0..Rounds
        BY <1>1, <1>4, BoundsAssumption
    <2>2. t \in Trades /\ t.lead = trade.lead
        BY <1>1, <2>1 DEF Trades
    <2>3. GoOn(t, "rescue")
        BY <1>4 DEF NextRound
    <2> HIDE DEF t
    <2> QED
        BY <2>2, <2>3, GoOnKeptOut
<1> QED
    BY <1>2, <1>3, <1>4

LEMMA EvenUpKeptOut ==
    ASSUME IInv, PInv, EvenUp
    PROVE  PInv' /\ KeptOut
<1> DEFINE gap == trade.got["K"] - trade.got["P"]
           t == [trade EXCEPT !.long = IF gap > 0 THEN "K" ELSE "P"]
<1>1. /\ up /\ ~Idle /\ trade \in Trades /\ trade.at \in {"first", "second"}
      /\ UNCHANGED <<up, paused>>
    BY DEF EvenUp, Deciding, Idle, IInv, Shape, TypeOK, limits
<1>2. /\ trade.lead \in {"K", "P"} /\ trade.got["K"] \in Int /\ trade.got["P"] \in Int
      /\ Unit \in Nat \ {0}
    BY <1>1, UnitAssumption DEF Trades, Holdings, Venues
<1>3. CASE gap < Unit /\ gap > -Unit
    BY <1>1, <1>3, GoOnKeptOut DEF EvenUp
<1>4. CASE ~(gap < Unit /\ gap > -Unit)
    <2>1. trade.got[Other(trade.lead)] <= trade.got[trade.lead]
        BY <1>1 DEF IInv, Ordered
    <2>2. trade.lead = IF gap > 0 THEN "K" ELSE "P"
        BY <1>2, <1>4, <2>1 DEF Other
    <2>3. t \in Trades /\ t.got = trade.got /\ t.lead = trade.lead /\ t.long = trade.lead
        BY <1>1, <1>2, <2>2 DEF Trades, Venues
    <2>4. paused => trade.lead # "K"
        <3>1. SUFFICES ASSUME paused, trade.lead = "K" PROVE FALSE
            OBVIOUS
        <3>2. trade.at = "first" /\ trade.got["K"] = 0
            BY <1>1, <3>1 DEF PInv, PausedOut
        <3>3. trade.got["P"] = 0
            BY <1>1, <3>1, <3>2 DEF IInv, Ordered, Other
        <3> QED
            BY <1>2, <1>4, <3>2, <3>3
    <2>5. \/ TRUE \in Opens(Other(t.long)) /\ Ask(t, "chase", Other(t.long), "buy", Left(t), FALSE)
          \/ GetOut(t)
        BY <1>4 DEF EvenUp
    <2> HIDE DEF t, gap
    <2>6. CASE TRUE \in Opens(Other(t.long)) /\ Ask(t, "chase", Other(t.long), "buy", Left(t), FALSE)
        BY <1>1, <2>3, <2>4, <2>6, OpenNotPaused, AskKeptOut
    <2>7. CASE GetOut(t)
        BY <1>1, <2>3, <2>4, <2>7, GetOutKeptOut
    <2> QED
        BY <2>5, <2>6, <2>7
<1> QED
    BY <1>3, <1>4

LEMMA DecidesKeptOut ==
    ASSUME IInv, PInv, Decides
    PROVE  PInv' /\ KeptOut
<1>1. /\ up /\ ~Idle /\ UNCHANGED <<up, paused>> /\ trade \in Trades /\ trade.long = trade.lead
      /\ trade.lead \in Venues
    <2>1. up /\ ~Idle /\ up' = up
        BY DecideOrders DEF Decides
    <2>2. paused' = paused
        BY DEF Decides, BuyFollow, EvenUp, Chased, SellBack, Sold, RescuePoll, RescueAct, Rescued, SendFails, limits
    <2> QED
        BY <2>1, <2>2 DEF IInv, TypeOK, Ordered, Trades
<1>2. CASE BuyFollow
    <2>1. /\ trade.at = "first" /\ trade.got[trade.lead] >= Unit
          /\ Ask(trade, "second", Other(trade.lead), "buy", Whole(trade.got[trade.lead]), FALSE)
        BY <1>2 DEF BuyFollow
    <2>2. ~paused
        BY <1>1, <2>1, UnitAssumption DEF PInv, PausedOut
    <2> QED
        BY <1>1, <2>1, <2>2, AskKeptOut
<1>3. CASE EvenUp
    BY <1>3, EvenUpKeptOut
<1>4. CASE Chased
    BY <1>1, <1>4, GetOutKeptOut DEF Chased, PInv, PausedOut
<1>5. CASE SellBack
    <2>1. paused => trade.lead # "K"
        BY <1>1, <1>5 DEF SellBack, PInv, PausedOut
    <2>2. CASE GoOn(trade, "done")
        BY <1>1, <2>2, GoOnKeptOut
    <2>3. CASE Ask(trade, "sell", trade.long, "sell", Left(trade), FALSE)
        BY <1>1, <2>1, <2>3, AskKeptOut
    <2> QED
        BY <1>5, <2>2, <2>3 DEF SellBack
<1>6. CASE Sold
    <2>1. CASE Left(trade) < Unit
        BY <1>1, <1>6, <2>1, GoOnKeptOut DEF Sold
    <2>2. CASE ~(Left(trade) < Unit)
        <3> DEFINE t == [trade EXCEPT !.round = 1]
        <3>1. t \in Trades /\ t.lead = trade.lead
            BY <1>1, BoundsAssumption DEF Trades
        <3>2. GoOn(t, "rescue")
            BY <1>6, <2>2 DEF Sold
        <3> HIDE DEF t
        <3> QED
            BY <3>1, <3>2, GoOnKeptOut
    <2> QED
        BY <2>1, <2>2
<1>7. CASE RescuePoll
    <2>1. trade' = [trade EXCEPT !.at = "look"] /\ order' = order
        BY <1>7 DEF RescuePoll
    <2>2. trade'.at = "look"
        BY <1>1, <2>1 DEF Trades
    <2> QED
        BY <2>1, <2>2 DEF PInv, Unfilled, Follows, PausedOut, KeptOut
<1>8. CASE RescueAct
    <2>1. CASE Fail(trade)
        BY <1>1, <2>1, FailKeptOut
    <2>2. CASE TRUE \in Opens(Other(trade.long)) /\ Ask(trade, "rescued", Other(trade.long), "buy", Left(trade), FALSE)
        BY <1>1, <2>2, OpenNotPaused, AskKeptOut
    <2>3. CASE TRUE \in Opens(trade.long) /\ Ask(trade, "rescued", trade.long, "sell", Left(trade), FALSE)
        BY <1>1, <2>3, OpenNotPaused, AskKeptOut
    <2>4. CASE NextRound(trade)
        BY <2>4, NextRoundKeptOut
    <2> QED
        BY <1>8, <2>1, <2>2, <2>3, <2>4 DEF RescueAct
<1>9. CASE Rescued
    BY <1>9, NextRoundKeptOut DEF Rescued
<1>10. CASE SendFails
    BY <1>1, <1>10, FailKeptOut DEF SendFails
<1> QED
    BY <1>2, <1>3, <1>4, <1>5, <1>6, <1>7, <1>8, <1>9, <1>10 DEF Decides

\* What an order that was turned away as paused leaves behind.
LEMMA LearnedKeptOut ==
    ASSUME IInv, PInv, up, ~Idle, InFlight, NEW status, NEW n \in Int, Learn(status, n), status # "unknown",
           status = "paused" => order.verdict = "paused" /\ n = 0
    PROVE  PInv'
<1> DEFINE t == [trade EXCEPT !.got[order.venue] = @ + Signed(order, n),
                              !.unwound = @ \/ (order.act = "sell" /\ n > 0 /\ status # "unknown")]
<1>1. GoOn(t, t.at) /\ up' = up /\ paused' = (paused \/ status = "paused")
    BY DEF Learn
<1>2. /\ order.venue \in {"K", "P"} /\ trade \in Trades /\ trade.got \in [{"K", "P"} -> Int]
      /\ trade.lead \in {"K", "P"}
    BY DEF IInv, TypeOK, Orders, Trades, Holdings, Venues
<1>3. Signed(order, n) \in Int
    BY DEF Signed
<1>4. /\ trade'.at = trade.at /\ trade'.lead = trade.lead
      /\ trade'.got[order.venue] = trade.got[order.venue] + Signed(order, n)
    BY <1>1, <1>2, <1>3 DEF GoOn, Trades
<1>5. order'.phase = "none" /\ order'.filled = 0 /\ order'.verdict = "ok"
    BY <1>1 DEF GoOn, NoOrder
<1>6. order.phase # "none" /\ (trade.at = "first" => order.venue = trade.lead)
    BY DEF InFlight, IInv, Shape
<1> HIDE DEF t
<1>7. PausedOut'
    <2>1. CASE paused
        BY <1>4, <1>5, <1>6, <2>1 DEF PInv, PausedOut
    <2>2. CASE status = "paused"
        <3>1. order.venue = "K" /\ n = 0
            BY <2>2 DEF PInv, Unfilled
        <3>2. Signed(order, n) = 0
            BY <3>1, SignedNothing
        <3>3. trade.lead = "K" => trade.at \notin {"second", "chase", "complete"}
            BY <1>6, <3>1 DEF PInv, Follows, Other
        <3>4. trade.lead = "P" => trade.at # "first"
            BY <1>6, <3>1
        <3>5. trade.lead = "K" /\ trade.at = "first" => trade'.got["K"] = 0
            BY <1>2, <1>4, <1>6, <3>1, <3>2 DEF PInv, Follows
        <3> QED
            BY <1>2, <1>4, <1>5, <3>3, <3>4, <3>5 DEF PausedOut
    <2> QED
        BY <1>1, <2>1, <2>2 DEF PausedOut
<1> QED
    BY <1>5, <1>7 DEF PInv, Unfilled, Follows

LEMMA OutcomesKeptOut ==
    ASSUME IInv, PInv, Reply \/ ReadPosition \/ GiveUp \/ LearnFails
    PROVE  PInv' /\ KeptOut
<1>1. up /\ ~Idle /\ InFlight
    BY DEF Reply, ReadPosition, GiveUp, LearnFails, InFlight
<1>2. order.filled \in Int /\ order.qty \in Nat /\ order.venue \in Venues /\ order.pair \in Pairs /\ order.before \in Int
    BY DEF IInv, TypeOK, Orders
<1>3. KeptOut
    BY <1>1 DEF KeptOut, InFlight
<1>4. CASE Reply
    <2>1. order.verdict \in {"ok", "rejected", "paused"}
        BY <1>4 DEF Reply, IInv, TypeOK, Orders
    <2>2. StatusOf(order.filled, order.qty) \in {"filled", "partial", "none"}
        BY DEF StatusOf
    <2>3. PICK status \in {"filled", "partial", "none", "rejected", "paused"} :
              Learn(status, order.filled) /\ (status = "paused" => order.verdict = "paused")
        BY <1>4, <2>1, <2>2 DEF Reply
    <2> QED
        BY <1>1, <1>2, <1>3, <2>3, LearnedKeptOut DEF PInv, Unfilled
<1>5. CASE ReadPosition
    <2>1. StatusOf(ReadAs(order), order.qty) \in {"filled", "partial", "none"}
        BY DEF StatusOf
    <2>2. pos[order.pair][order.venue] \in Int
        BY <1>2 DEF IInv, TypeOK, Holdings
    <2>3. ReadAs(order) \in Int
        BY <1>2, <2>2 DEF ReadAs, Signed, Least
    <2> QED
        BY <1>1, <1>3, <1>5, <2>1, <2>3, LearnedKeptOut DEF ReadPosition
<1>6. CASE GiveUp \/ LearnFails
    <2>1. trade'.at = "done" /\ order'.phase = "none" /\ order'.filled = 0 /\ order'.verdict = "ok"
        <3>1. CASE LearnFails
            BY <3>1 DEF LearnFails, Fail, GoOn, NoOrder, IInv, TypeOK, Trades
        <3>2. CASE GiveUp
            <4>1. PICK n \in 0..(IF order.venue = "P" THEN order.filled ELSE 0) : Learn("unknown", n)
                BY <3>2 DEF GiveUp
            <4> DEFINE t == [trade EXCEPT !.got[order.venue] = @ + Signed(order, n),
                                          !.unwound = @ \/ (order.act = "sell" /\ n > 0 /\ "unknown" # "unknown")]
            <4>2. GoOn([t EXCEPT !.stopped = TRUE], "done")
                BY <4>1 DEF Learn, Fail
            <4>3. trade'.at = "done"
                BY <4>2 DEF GoOn, IInv, TypeOK, Trades
            <4> QED
                BY <4>2, <4>3 DEF GoOn, NoOrder
        <3> QED
            BY <1>6, <3>1, <3>2
    <2> QED
        BY <1>3, <2>1 DEF PInv, Unfilled, Follows, PausedOut
<1> QED
    BY <1>4, <1>5, <1>6

LEMMA NextKeptOut ==
    ASSUME IInv, PInv, [Next]_vars
    PROVE  PInv' /\ KeptOut
<1>1. CASE QuietNext
    <2>1. UNCHANGED <<trade, order, up>>
        BY <1>1, QuietNextType DEF IInv
    <2>2. paused' => paused
        BY <1>1 DEF QuietNext, Poll, ReadAccount, AccountRead, AccountReadFails, PauseEnds, Commit, HaltByHand,
                    ResumeRead, ResumeApply, vars, limits
    <2> QED
        BY <2>1, <2>2 DEF PInv, Unfilled, Follows, PausedOut, KeptOut, Idle
<1>2. CASE \E p \in Pairs, lead \in Leads, size \in Sizes : Execute(p, lead, size)
    <2>1. PICK p \in Pairs, lead \in Leads, size \in Sizes : Execute(p, lead, size)
        BY <1>2
    <2> DEFINE t == [NoTrade EXCEPT !.pair = p, !.lead = lead, !.long = lead, !.reserve = size * Unit]
    <2>2. /\ ~paused /\ paused' = paused /\ trade' = [t EXCEPT !.at = "first"]
          /\ order' = [NoOrder EXCEPT !.phase = "waiting", !.pair = t.pair, !.venue = lead, !.act = "buy",
                                      !.qty = size * Unit, !.fok = (lead = "P")]
        BY <2>1 DEF Execute, Passes, Ask, limits
    <2>3. order'.phase = "waiting" /\ order'.filled = 0 /\ order'.verdict = "ok"
        BY <2>2 DEF NoOrder
    <2>4. trade'.at = "first" /\ trade'.got = Flat /\ trade'.lead = lead
        BY <2>2 DEF NoTrade
    <2>5. Flat[lead] = 0
        BY <2>1, LeadsAssumption DEF Flat
    <2> QED
        BY <2>2, <2>3, <2>4, <2>5 DEF PInv, Unfilled, Follows, PausedOut, KeptOut
<1>3. CASE Decides
    BY <1>3, DecidesKeptOut
<1>4. CASE Send \/ Exchange \/ ReplyUnclear
    <2>1. UNCHANGED <<trade, up, paused>> /\ order.phase # "none" /\ order'.phase # "none"
        BY <1>4 DEF Send, Exchange, ReplyUnclear, limits, IInv, TypeOK, Orders
    <2>2. order'.venue = order.venue /\ Unfilled'
        <3>1. order \in Orders
            BY DEF IInv, TypeOK
        <3>2. CASE Send
            <4>1. /\ order'.phase = "sent" /\ order'.filled = order.filled /\ order'.verdict = order.verdict
                  /\ order'.venue = order.venue /\ order.phase = "waiting"
                BY <3>1, <3>2 DEF Send, Orders
            <4> QED
                BY <4>1 DEF PInv, Unfilled
        <3>3. CASE ReplyUnclear
            <4>1. /\ order'.phase = "unclear" /\ order'.filled = order.filled /\ order'.verdict = order.verdict
                  /\ order'.venue = order.venue
                BY <3>1, <3>3 DEF ReplyUnclear, Orders
            <4> QED
                BY <4>1 DEF PInv, Unfilled
        <3>4. CASE Exchange
            <4>1. order.phase = "sent" /\ order.filled = 0 /\ order.verdict = "ok"
                BY <3>4 DEF Exchange, PInv, Unfilled
            <4>2. CASE \E n \in Fills(order) : order' = [order EXCEPT !.phase = "acted", !.filled = n]
                BY <3>1, <4>1, <4>2 DEF Orders, Unfilled
            <4>3. CASE \E verdict \in {"rejected", "lost"} \cup (IF order.venue = "K" THEN {"paused"} ELSE {}) :
                            order' = [order EXCEPT !.phase = "acted", !.verdict = verdict]
                BY <3>1, <4>1, <4>3 DEF Orders, Unfilled
            <4> QED
                BY <3>4, <4>2, <4>3 DEF Exchange
        <3> QED
            BY <1>4, <3>2, <3>3, <3>4
    <2> QED
        BY <2>1, <2>2 DEF PInv, Follows, PausedOut, KeptOut, Idle
<1>5. CASE Reply \/ ReadPosition \/ GiveUp \/ LearnFails
    BY <1>5, OutcomesKeptOut
<1>6. CASE Finish \/ FinishFails
    <2>1. Idle' /\ order'.phase = "none" /\ order'.filled = 0 /\ order'.verdict = "ok"
        BY <1>6 DEF Finish, FinishFails, Idle, NoTrade, NoOrder
    <2> QED
        BY <2>1 DEF PInv, Unfilled, Follows, PausedOut, KeptOut
<1>7. CASE Crash
    <2>1. /\ Idle' /\ ~up' /\ order' \in {order, NoOrder}
        BY <1>7 DEF Crash, Idle, NoTrade
    <2>2. NoOrder.phase = "none" /\ NoOrder.filled = 0 /\ NoOrder.verdict = "ok"
        BY DEF NoOrder
    <2> QED
        BY <2>1, <2>2 DEF PInv, Unfilled, Follows, PausedOut, KeptOut
<1>8. CASE Restart
    <2>1. Idle' /\ order'.phase = "none" /\ order'.filled = 0 /\ order'.verdict = "ok"
        BY <1>8 DEF Restart, IInv, Shape, Idle, NoOrder
    <2> QED
        BY <2>1 DEF PInv, Unfilled, Follows, PausedOut, KeptOut
<1> QED
    BY <1>1, <1>2, <1>3, <1>4, <1>5, <1>6, <1>7, <1>8 DEF Next, TradeStep, QuietNext, Decides

\* Once Kalshi has turned an order away as paused, no order of a trade goes there
\* until the pause has passed, the sale that needs no open venue included.
THEOREM PauseKept == Spec => NoOrderIntoPause
<1>1. Init => PInv
    BY DEF Init, PInv, Unfilled, Follows, PausedOut, Idle, NoTrade, NoOrder
<1>2. IInv /\ PInv /\ [Next]_vars => PInv'
    BY NextKeptOut
<1>3. IInv /\ PInv /\ [Next]_vars =>
          [order.phase = "none" /\ order'.phase = "waiting" /\ order'.venue = "K" => ~paused]_vars
    BY NextKeptOut DEF KeptOut
<1> QED
    BY <1>1, <1>2, <1>3, Invariance, PTL DEF Spec, NoOrderIntoPause
=============================================================================
