--------------------------- MODULE Trading_proofs ---------------------------
(***************************************************************************)
(* BookCheck, Limits, Windows and Pricing, for any times, limits and books: *)
(* that a book which may be traded on is new enough (Vouched), that no      *)
(* trade is made which the limits rule out (WithinTheLimits), that a window *)
(* is looked at when it is due, traded once and recorded once               *)
(* (TakenWhenDue, RecordedOnce), and that a pair is sized at what it is     *)
(* worth, and an order for it fills (PricedRight).                          *)
(***************************************************************************)
EXTENDS MCTrading, Sums

-----------------------------------------------------------------------------
(* BookCheck *)

\* Its types, in three parts.
Wired == wire \in Seq(1..MaxBooks)
Shown ==
    /\ book \in [ready : BOOLEAN, has : 0..MaxBooks, exch_ts : 0..MaxBooks]
    /\ read \in [at : {"none", "asked", "answered"}, age : 0..Timeout, got : 0..MaxBooks]
Aged ==
    /\ exch \in 1..MaxBooks /\ ago \in [0..Timeout -> 1..MaxBooks]
    /\ down \in -1..Back /\ checked \in 0..(MaxAge + 1) /\ wait \in 0..Retry

\* The book in hand was updated with messages only; a read is as new as the exchange's book
\* was when it was sent;
Newest ==
    /\ book.has = book.exch_ts /\ (book.ready => book.has > 0)
    /\ ago[0] <= exch /\ \A j, k \in 0..Timeout : j <= k => ago[k] <= ago[j]
    /\ read.at = "answered" => read.got >= ago[read.age]

\* and so is what a read vouched for: the book, or, while there is none, what the stream brings.
Kept ==
    checked <= MaxAge => IF book.ready THEN book.has >= ago[checked]
                         ELSE \A i \in 1..Len(wire) : wire[i] >= ago[checked]

BInv == Wired /\ Shown /\ Aged /\ Newest /\ Kept

LEMMA CheckTimes ==
    /\ MaxAge \in Nat /\ MinGap \in Nat /\ Retry \in Nat /\ Timeout \in Nat /\ Back \in Nat
    /\ MinGap <= Retry /\ MaxAge <= Timeout /\ MaxBooks \in Nat \ {0}
    BY TradingAssumption DEF Check!TimesFit

LEMMA CheckInit == Check!Init => BInv
<1> SUFFICES ASSUME Check!Init PROVE BInv
    OBVIOUS
<1>1. Wired
    BY DEF Check!Init, Wired
<1>2. Shown /\ Aged
    BY CheckTimes DEF Check!Init, Shown, Aged, Check!NoRead
<1>3. Newest /\ Kept
    BY CheckTimes DEF Check!Init, Newest, Kept, Check!NoRead
<1> QED
    BY <1>1, <1>2, <1>3 DEF BInv

\* Queues: the head leaves, an element joins.
LEMMA HeadLeaves ==
    ASSUME NEW S, NEW w \in Seq(S), w # <<>>
    PROVE  Head(w) \in S /\ Head(w) = w[1] /\ 1 \in 1..Len(w) /\ Tail(w) \in Seq(S)
    OBVIOUS

LEMMA LastJoins ==
    ASSUME NEW S, NEW w \in Seq(S), NEW m \in S
    PROVE  /\ Append(w, m) \in Seq(S)
           /\ \A i \in 1..Len(Append(w, m)) : (i \in 1..Len(w) /\ Append(w, m)[i] = w[i]) \/ Append(w, m)[i] = m
    OBVIOUS

\* An update never takes a book that is up back, and leaves it as new as the message.
LEMMA UpdatedIs ==
    ASSUME Shown, Newest, NEW b \in 1..MaxBooks, book' = Check!Updated(b)
    PROVE  /\ book' \in [ready : BOOLEAN, has : 0..MaxBooks, exch_ts : 0..MaxBooks]
           /\ book'.has = book'.exch_ts /\ book'.ready /\ book'.has >= b
           /\ book.ready => book'.has >= book.has
BY CheckTimes DEF Check!Updated, Shown, Newest

\* The exchange's book is none of before.
LEMMA ExchNewest ==
    ASSUME Aged, Newest
    PROVE  \A k \in 0..Timeout : ago[k] <= exch
BY CheckTimes DEF Aged, Newest

\* The stream brings nothing older than the exchange's book of now.
LEMMA Streamed ==
    ASSUME Wired, Aged, Newest, Kept, NEW m \in 1..MaxBooks, m >= exch,
           wire' = wire \/ wire' = Append(wire, m), UNCHANGED <<ago, book, checked>>
    PROVE  Wired' /\ Kept'
<1>1. wire' \in Seq(1..MaxBooks) /\ \A i \in 1..Len(wire') : (i \in 1..Len(wire) /\ wire'[i] = wire[i]) \/ wire'[i] = m
    <2>1. CASE wire' = wire
        BY <2>1 DEF BInv, Wired
    <2>2. CASE wire' = Append(wire, m)
        BY <2>2, LastJoins DEF BInv, Wired
    <2> QED  BY <2>1, <2>2
<1>2. \A k \in 0..Timeout : ago[k] \in 1..MaxBooks /\ ago[k] <= exch
    BY ExchNewest DEF Aged
<1>3. checked <= MaxAge => checked \in 0..Timeout
    BY CheckTimes DEF Aged
<1>4. checked <= MaxAge => m >= ago[checked]
    BY <1>2, <1>3, CheckTimes DEF Aged
<1> QED
    BY <1>1, <1>4 DEF Wired, Kept

LEMMA CheckTrade ==
    ASSUME BInv, Check!Trade \/ Check!Subscribe
    PROVE  BInv'
<1>1. CASE Check!Trade
    <2>1. exch' \in 1..MaxBooks /\ exch' = exch + 1 /\ (wire' = wire \/ wire' = Append(wire, exch'))
        BY <1>1, CheckTimes DEF Check!Trade, BInv, Aged
    <2>2. Wired' /\ Kept'
        <3>1. exch' >= exch
            BY <2>1 DEF BInv, Aged
        <3> QED  BY <1>1, <2>1, <3>1, Streamed DEF Check!Trade, BInv
    <2>3. Shown' /\ Aged'
        BY <1>1, <2>1 DEF Check!Trade, BInv, Shown, Aged
    <2>4. Newest'
        BY <1>1, <2>1, CheckTimes DEF Check!Trade, BInv, Newest, Aged
    <2> QED  BY <2>2, <2>3, <2>4 DEF BInv
<1>2. CASE Check!Subscribe
    <2>1. exch \in 1..MaxBooks /\ exch >= exch
        BY CheckTimes DEF BInv, Aged
    <2>2. Wired' /\ Kept'
        BY <1>2, <2>1, Streamed DEF Check!Subscribe, BInv
    <2>3. Shown' /\ Aged'
        BY <1>2, CheckTimes DEF Check!Subscribe, BInv, Shown, Aged
    <2>4. Newest'
        BY <1>2 DEF Check!Subscribe, BInv, Newest
    <2> QED  BY <2>2, <2>3, <2>4 DEF BInv
<1> QED
    BY <1>1, <1>2

LEMMA CheckArrive ==
    ASSUME BInv, Check!Arrive
    PROVE  BInv'
<1>1. /\ Head(wire) \in 1..MaxBooks /\ Head(wire) = wire[1] /\ 1 \in 1..Len(wire)
      /\ Wired'
    BY HeadLeaves DEF Check!Arrive, BInv, Wired
<1>2. /\ book' \in [ready : BOOLEAN, has : 0..MaxBooks, exch_ts : 0..MaxBooks]
      /\ book'.has = book'.exch_ts /\ book'.ready /\ book'.has >= Head(wire)
      /\ book.ready => book'.has >= book.has
    BY <1>1, UpdatedIs DEF Check!Arrive, BInv
<1>3. Shown' /\ Aged'
    BY <1>2 DEF Check!Arrive, BInv, Shown, Aged
<1>4. Newest'
    BY <1>1, <1>2 DEF Check!Arrive, BInv, Newest
<1>5. Kept'
    <2> SUFFICES ASSUME checked <= MaxAge PROVE book'.has >= ago[checked]
        BY <1>2 DEF Check!Arrive, Kept
    <2>1. book.has \in Nat /\ book'.has \in Nat /\ Head(wire) \in Nat /\ ago[checked] \in Nat
        BY <1>1, <1>2, CheckTimes DEF BInv, Shown, Aged
    <2> QED  BY <1>1, <1>2, <2>1 DEF BInv, Kept
<1> QED
    BY <1>1, <1>3, <1>4, <1>5 DEF BInv

LEMMA CheckApply ==
    ASSUME BInv, Check!Apply
    PROVE  BInv' /\ Check!Onward
<1>1. read.at = "answered" /\ book.ready /\ read' = Check!NoRead /\ UNCHANGED <<exch, ago, wire, down>>
    BY DEF Check!Apply
<1>2. CASE Check!Failed /\ UNCHANGED <<book, checked>>
    <2>1. Shown' /\ Aged'
        BY <1>1, <1>2, CheckTimes DEF Check!Failed, BInv, Shown, Aged, Check!NoRead
    <2>2. Newest' /\ Kept' /\ Wired' /\ Check!Onward
        BY <1>1, <1>2, CheckTimes DEF BInv, Newest, Kept, Wired, Shown, Check!NoRead, Check!Onward
    <2> QED  BY <2>1, <2>2 DEF BInv
<1>3. CASE /\ book' = IF book.exch_ts = 0 \/ read.got > book.exch_ts THEN Check!Updated(read.got) ELSE book
           /\ checked' = Check!Vouch(read.age) /\ wait' = wait
    <2>1. read.got \in 1..MaxBooks
        BY <1>1, CheckTimes DEF BInv, Shown, Aged, Newest
    <2>2. /\ book' \in [ready : BOOLEAN, has : 0..MaxBooks, exch_ts : 0..MaxBooks]
          /\ book'.has = book'.exch_ts /\ book'.ready /\ book'.has >= read.got
          /\ book'.has >= book.has
        <3>1. CASE book' = Check!Updated(read.got)
            BY <1>1, <2>1, <3>1, UpdatedIs DEF BInv
        <3>2. CASE book' = book /\ read.got <= book.exch_ts
            BY <1>1, <3>2, CheckTimes DEF BInv, Newest, Shown
        <3> QED  BY <1>3, <2>1, <3>1, <3>2, CheckTimes DEF BInv, Shown
    <2>3. checked' \in 0..(MaxAge + 1) /\ (checked' <= MaxAge => checked' = read.age)
        BY <1>3, CheckTimes DEF Check!Vouch, BInv, Shown
    <2>4. Shown' /\ Aged'
        BY <1>1, <1>3, <2>2, <2>3, CheckTimes DEF BInv, Shown, Aged, Check!NoRead
    <2>5. Newest' /\ Wired' /\ Check!Onward
        BY <1>1, <2>1, <2>2, CheckTimes DEF BInv, Newest, Wired, Check!NoRead, Check!Onward
    <2>6. Kept'
        <3> SUFFICES ASSUME checked' <= MaxAge PROVE book'.has >= ago[checked']
            BY <1>1, <2>2 DEF Kept
        <3>1. ago[read.age] \in Nat /\ read.got \in Nat /\ book'.has \in Nat
            BY <2>1, <2>2, CheckTimes DEF BInv, Shown, Aged
        <3> QED  BY <1>1, <2>2, <2>3, <3>1 DEF BInv, Newest
    <2> QED  BY <2>4, <2>5, <2>6 DEF BInv
<1> QED
    BY <1>2, <1>3 DEF Check!Apply

LEMMA CheckTick ==
    ASSUME BInv, Check!Tick
    PROVE  BInv'
<1>1. /\ ago' = [k \in 0..Timeout |-> IF k = 0 THEN exch ELSE ago[k - 1]]
      /\ UNCHANGED <<exch, wire, book>>
    BY DEF Check!Tick
<1>2. \A k \in 0..Timeout : /\ ago'[k] = IF k = 0 THEN exch ELSE ago[k - 1]
                            /\ ago[k] \in 1..MaxBooks /\ ago'[k] \in 1..MaxBooks
    <2>1. \A k \in 0..Timeout : k # 0 => k - 1 \in 0..Timeout
        BY CheckTimes
    <2> QED  BY <1>1, <2>1 DEF BInv, Aged
<1>3. \A j, k \in 0..Timeout : j <= k => ago'[k] <= ago'[j]
    <2> SUFFICES ASSUME NEW j \in 0..Timeout, NEW k \in 0..Timeout, j <= k PROVE ago'[k] <= ago'[j]
        OBVIOUS
    <2>1. CASE k = 0
        BY <1>2, <2>1, CheckTimes
    <2>2. CASE k # 0 /\ j = 0
        <3>1. k - 1 \in 0..Timeout
            BY <2>2, CheckTimes
        <3>2. ago[k - 1] <= exch
            BY <3>1, ExchNewest DEF BInv
        <3> QED  BY <1>2, <2>2, <3>2
    <2>3. CASE k # 0 /\ j # 0
        <3>1. k - 1 \in 0..Timeout /\ j - 1 \in 0..Timeout /\ j - 1 <= k - 1
            BY <2>3, CheckTimes
        <3>2. ago[k - 1] <= ago[j - 1]
            BY <3>1 DEF BInv, Newest
        <3> QED  BY <1>2, <2>3, <3>2
    <2> QED  BY <2>1, <2>2, <2>3
<1>4. /\ read' \in [at : {"none", "asked", "answered"}, age : 0..Timeout, got : 0..MaxBooks]
      /\ read'.at = "answered" => read.at = "answered" /\ read'.got = read.got /\ read'.age = read.age + 1
    <2>1. CASE read = Check!NoRead
        BY <2>1 DEF Check!Tick, Check!NoRead, BInv, Shown
    <2>2. CASE read # Check!NoRead
        <3>1. read.age < Timeout /\ read' = [read EXCEPT !.age = @ + 1]
            BY <2>2 DEF Check!Tick
        <3> QED  BY <3>1, CheckTimes DEF BInv, Shown
    <2> QED  BY <2>1, <2>2
<1>5. Newest'
    <2>1. ago'[0] <= exch'
        BY <1>1, <1>2, CheckTimes DEF BInv, Aged
    <2>2. read'.at = "answered" => read'.got >= ago'[read'.age]
        <3> SUFFICES ASSUME read'.at = "answered" PROVE read'.got >= ago'[read'.age]
            OBVIOUS
        <3>1. read'.age \in 0..Timeout /\ read'.age # 0 /\ read'.age - 1 = read.age
            BY <1>4, CheckTimes DEF BInv, Shown
        <3>2. ago'[read'.age] = ago[read.age]
            BY <1>2, <3>1
        <3> QED  BY <1>4, <3>2 DEF BInv, Newest
    <2> QED  BY <1>1, <1>3, <2>1, <2>2 DEF BInv, Newest
<1>6. checked' \in 0..(MaxAge + 1) /\ (checked' <= MaxAge => checked <= MaxAge /\ checked' = checked + 1)
    <2>1. MaxAge \in Nat /\ checked \in 0..(MaxAge + 1)
        BY CheckTimes DEF BInv, Aged
    <2>2. checked' = IF checked > MaxAge THEN checked ELSE checked + 1
        BY DEF Check!Tick
    <2> QED
        BY <2>1, <2>2
<1>7. Kept'
    <2> SUFFICES ASSUME checked' <= MaxAge
                 PROVE  IF book'.ready THEN book'.has >= ago'[checked']
                        ELSE \A i \in 1..Len(wire') : wire'[i] >= ago'[checked']
        BY DEF Kept
    <2>1. checked' \in 0..Timeout /\ checked' # 0 /\ checked' - 1 = checked
        BY <1>6, CheckTimes DEF BInv, Aged
    <2>2. ago'[checked'] = ago[checked]
        BY <1>2, <2>1
    <2> QED  BY <1>1, <1>6, <2>2 DEF BInv, Kept
<1>8. down' \in -1..Back /\ wait' \in 0..Retry
    <2>1. down \in {-1, Back} \/ down + 1 \in -1..Back
        BY CheckTimes DEF BInv, Aged
    <2>2. down' = down \/ (down \notin {-1, Back} /\ down' = down + 1)
        BY DEF Check!Tick
    <2>3. wait' \in 0..Retry
        <3>1. Retry \in Nat /\ wait \in 0..Retry
            BY CheckTimes DEF BInv, Aged
        <3>2. wait' = IF wait = 0 THEN 0 ELSE wait - 1
            BY DEF Check!Tick
        <3> QED
            BY <3>1, <3>2
    <2> QED  BY <2>1, <2>2, <2>3 DEF BInv, Aged
<1>9. Shown' /\ Wired'
    BY <1>1, <1>4 DEF BInv, Shown, Wired
<1>10. Aged'
    BY <1>1, <1>2, <1>6, <1>8 DEF BInv, Aged
<1> QED
    BY <1>5, <1>7, <1>9, <1>10 DEF BInv

LEMMA CheckStep ==
    ASSUME BInv, [Check!Next]_(Check!vars)
    PROVE  BInv'
<1>1. CASE Check!Disconnect
    <2>1. Wired'
        BY <1>1 DEF Check!Disconnect, Wired
    <2>2. book' \in [ready : BOOLEAN, has : 0..MaxBooks, exch_ts : 0..MaxBooks] /\ book'.has = book.has
          /\ book'.exch_ts = book.exch_ts /\ ~book'.ready
        BY <1>1 DEF Check!Disconnect, BInv, Shown
    <2>4. Shown' /\ Newest'
        BY <1>1, <2>2 DEF Check!Disconnect, BInv, Shown, Newest
    <2>5. Aged'
        BY <1>1, CheckTimes DEF Check!Disconnect, BInv, Aged
    <2>3. Kept'
        BY <1>1 DEF Check!Disconnect, BInv, Shown, Kept
    <2> QED  BY <2>1, <2>3, <2>4, <2>5 DEF BInv
<1>2. CASE Check!Ask
    <2>4. read' = [at |-> "asked", age |-> 0, got |-> 0]
        BY <1>2 DEF Check!Ask, Check!NoRead
    <2>1. Shown'
        BY <1>2, <2>4, CheckTimes DEF Check!Ask, BInv, Shown
    <2>3. Aged'
        BY <1>2, CheckTimes DEF Check!Ask, BInv, Aged
    <2>2. Wired' /\ Kept' /\ Newest'
        BY <1>2, <2>4 DEF Check!Ask, BInv, Wired, Kept, Newest
    <2> QED  BY <2>1, <2>2, <2>3 DEF BInv
<1>3. CASE Check!Answer
    <2>1. Shown' /\ read'.age = read.age /\ read'.got = exch
        <3>1. exch \in 0..MaxBooks
            BY CheckTimes DEF BInv, Aged
        <3>2. read' \in [at : {"none", "asked", "answered"}, age : 0..Timeout, got : 0..MaxBooks]
              /\ read'.age = read.age /\ read'.got = exch
            BY <1>3, <3>1 DEF Check!Answer, BInv, Shown
        <3> QED  BY <1>3, <3>2 DEF Check!Answer, BInv, Shown
    <2>4. Aged'
        BY <1>3 DEF Check!Answer, BInv, Aged
    <2>2. read.age \in 0..Timeout /\ ago[read.age] <= exch /\ ago[read.age] \in Nat /\ exch \in Nat
        BY ExchNewest, CheckTimes DEF BInv, Shown, Aged
    <2>3. Wired' /\ Kept' /\ Newest'
        BY <1>3, <2>1, <2>2 DEF Check!Answer, BInv, Wired, Kept, Newest
    <2> QED  BY <2>1, <2>3, <2>4 DEF BInv
<1>4. CASE Check!ApplyToNone \/ Check!Forget \/ Check!ReadFails
    <2>1. Shown'
        BY <1>4, CheckTimes DEF Check!ApplyToNone, Check!Forget, Check!ReadFails, BInv, Shown, Check!NoRead
    <2>4. Aged'
        <3>1. read.age \in 0..Timeout
            BY DEF BInv, Shown
        <3>2. wait' \in 0..Retry
            <4>1. Retry \in Nat /\ Timeout \in Nat /\ wait \in 0..Retry
                BY CheckTimes DEF BInv, Aged
            <4>2. wait' \in {wait, 0, Retry - read.age} /\ (wait' = Retry - read.age => Retry > read.age \/ wait' \in {wait, 0})
                BY <1>4 DEF Check!ApplyToNone, Check!Forget, Check!ReadFails, Check!Failed
            <4> QED
                BY <3>1, <4>1, <4>2
        <3>3. UNCHANGED <<exch, ago, down>> /\ checked' \in 0..(MaxAge + 1)
            BY <1>4, CheckTimes DEF Check!ApplyToNone, Check!Forget, Check!ReadFails, BInv, Aged
        <3> QED
            BY <3>2, <3>3 DEF BInv, Aged
    <2>2. Wired' /\ Newest'
        BY <1>4 DEF Check!ApplyToNone, Check!Forget, Check!ReadFails, BInv, Wired, Newest, Check!NoRead
    <2>3. Kept'
        BY <1>4, CheckTimes DEF Check!ApplyToNone, Check!Forget, Check!ReadFails, BInv, Kept
    <2> QED  BY <2>1, <2>2, <2>3, <2>4 DEF BInv
<1>5. CASE UNCHANGED Check!vars
    BY <1>5 DEF Check!vars, BInv, Wired, Shown, Aged, Newest, Kept
<1> QED
    BY <1>1, <1>2, <1>3, <1>4, <1>5, CheckTrade, CheckArrive, CheckApply, CheckTick DEF Check!Next

LEMMA CheckOnward ==
    ASSUME BInv, [Check!Next]_(Check!vars)
    PROVE  Check!Onward
<1>1. book.has \in Nat
    BY DEF BInv, Shown
<1>2. ASSUME UNCHANGED book PROVE Check!Onward
    BY <1>1, <1>2 DEF Check!Onward
<1>3. CASE Check!Arrive
    <2>1. Head(wire) \in 1..MaxBooks
        BY <1>3, HeadLeaves DEF Check!Arrive, BInv, Wired
    <2> QED  BY <1>3, <2>1, UpdatedIs DEF Check!Arrive, BInv, Check!Onward
<1>4. CASE Check!Disconnect
    BY <1>4 DEF Check!Disconnect, Check!Onward, BInv, Shown
<1> QED
    BY <1>2, <1>3, <1>4, CheckApply
    DEF Check!Next, Check!vars, Check!Trade, Check!Subscribe, Check!Ask, Check!Answer, Check!ApplyToNone,
        Check!ReadFails, Check!Forget, Check!Tick

LEMMA CheckVouched ==
    ASSUME BInv
    PROVE  Check!Vouched
<1> SUFFICES ASSUME checked <= MaxAge, book.ready PROVE book.has >= ago[MaxAge]
    BY DEF Check!Vouched, Check!Ok
<1>1. checked \in 0..Timeout /\ MaxAge \in 0..Timeout
    BY CheckTimes DEF BInv, Aged
<1>2. ago[MaxAge] <= ago[checked] /\ ago[MaxAge] \in Nat /\ ago[checked] \in Nat /\ book.has \in Nat
    BY <1>1 DEF BInv, Aged, Newest, Shown
<1> QED
    BY <1>2 DEF BInv, Kept

-----------------------------------------------------------------------------
(* Windows *)

\* The longest a trader waits before it looks at a pick again.
Within == W!Most(W!Most(Quiet, Settle), W!Most(MinWindow, Recheck))

Watches == [window : W!Times, due : Nat, woken : Nat, seen : W!Times, confirming : BOOLEAN]

\* A run begins with no window, and with none traded;
Begun ==
    /\ mode = "down" => ep = W!Closed /\ taken = {} /\ timers = {} /\ ~busy
    /\ resumable # W!NoRow => resumable \in rows /\ taken = {} /\ ep = W!Closed

\* a window has a time it opened at, and one traded in this run is open or on record;
Opened ==
    /\ (ep # W!Closed => ep.start > 0) /\ \A r \in rows : r.start > 0
    /\ \A w \in taken : (ep # W!Closed /\ ep.start = w) \/ \E r \in rows : r.start = w

\* an open one that was traded, or is being, is the one the pair's state says;
Known ==
    /\ ep # W!Closed /\ ep.start \in taken => traded = ep.start
    /\ ep # W!Closed /\ busy /\ ~asleep => traded = ep.start

\* the books moved before now, what is due is due soon, and every timer is set and has yet to ring.
Ringing ==
    /\ \A l \in W!Legs : book.moved[l] <= now
    /\ watch.due <= watch.seen + Within /\ watch.seen <= now
    /\ now < watch.woken => watch.woken \in timers
    /\ W!Priced => \A t \in timers : t >= now

WRest == W!TypeOK /\ W!RecordedOnce /\ Begun /\ Opened /\ Known
WInv == WRest /\ Ringing /\ W!LooksAgain

LEMMA WindowTimes ==
    /\ MinWindow \in Nat /\ Quiet \in Nat /\ Settle \in Nat /\ Recheck \in Nat /\ Idle \in Nat
    /\ Resume \in Nat /\ MaxStarts \in Nat /\ LastTick \in Nat /\ LastTick > 0
    /\ Within \in Nat /\ Within < Idle
    /\ Quiet <= Within /\ Settle <= Within /\ MinWindow <= Within /\ Recheck <= Within
BY TradingAssumption DEF W!TimesFit, Within, W!Most

LEMMA WindowInit == W!Init => WInv
<1> SUFFICES ASSUME W!Init PROVE WInv
    OBVIOUS
<1>1. book = [ready |-> FALSE, offer |-> "none", moved |-> [l \in W!Legs |-> 0]]
    BY DEF W!Init, W!Blank
<1>2. W!TypeOK
    <2>1. book \in [ready : BOOLEAN, offer : W!Offers, moved : [W!Legs -> W!Times]]
        BY <1>1, WindowTimes DEF W!Offers, W!Times
    <2>2. watch \in Watches
        BY WindowTimes DEF W!Init, W!NoWatch, Watches, W!Times
    <2>3. ep \in [start : W!Times, last : W!Times] /\ resumable \in W!Row
        BY WindowTimes DEF W!Init, W!Closed, W!NoRow, W!Times, W!Row
    <2>4. /\ now \in 1..LastTick /\ last \in W!Times /\ traded \in W!Times /\ starts \in 0..MaxStarts
          /\ mode \in {"up", "draining", "down"}
        BY WindowTimes DEF W!Init, W!Times
    <2>5. /\ rows \subseteq W!Row /\ taken \subseteq W!Times /\ timers \subseteq Nat
          /\ busy \in BOOLEAN /\ sure \in BOOLEAN /\ asleep \in BOOLEAN
        BY DEF W!Init
    <2> QED  BY <2>1, <2>2, <2>3, <2>4, <2>5 DEF W!TypeOK, Watches
<1>3. W!RecordedOnce /\ Begun /\ Opened /\ Known /\ W!LooksAgain
    BY DEF W!Init, W!RecordedOnce, Begun, Opened, Known, W!LooksAgain
<1>4. Ringing
    BY <1>1, WindowTimes DEF W!Init, Ringing, W!NoWatch
<1> QED
    BY <1>2, <1>3, <1>4 DEF WInv, WRest

-----------------------------------------------------------------------------
(* A re-pricing *)

\* A positive walk goes on with the window that is open, reopens the one cut short, or opens
\* one that was never traded.
LEMMA Observed ==
    ASSUME WRest, W!Observe, now' = now
    PROVE  /\ ep' \in [start : W!Times, last : W!Times] /\ ep'.start > 0 /\ ep' # W!Closed
           /\ resumable' = W!NoRow /\ rows' \subseteq rows
           /\ \A r \in rows' : r.start # ep'.start
           /\ \/ ep # W!Closed /\ ep'.start = ep.start /\ rows' = rows
              \/ ep = W!Closed /\ ep'.start \notin taken /\ (rows' = rows \/ taken = {})
<1> USE DEF WRest
<1>1. now \in W!Times /\ now > 0
    BY WindowTimes DEF W!TypeOK, W!Times
<1>2. CASE ep # W!Closed
    <2>1. ep' = [ep EXCEPT !.last = now] /\ UNCHANGED <<rows, resumable>>
        BY <1>2 DEF W!Observe
    <2>2. ep' \in [start : W!Times, last : W!Times] /\ ep'.start = ep.start
        BY <1>1, <2>1 DEF W!TypeOK
    <2>3. ep'.start > 0 /\ resumable' = W!NoRow /\ \A r \in rows' : r.start # ep'.start
        BY <1>2, <2>1, <2>2 DEF Opened, Begun, W!RecordedOnce
    <2> QED  BY <1>2, <2>1, <2>2, <2>3 DEF W!Closed
<1>3. CASE ep = W!Closed /\ W!Resumes
    <2>1. /\ resumable' = W!NoRow /\ rows' = rows \ {resumable}
          /\ ep' = [start |-> resumable.start, last |-> now]
        BY <1>3 DEF W!Observe, W!Reopened
    <2>2. resumable \in rows /\ taken = {} /\ resumable \in W!Row
        BY <1>3 DEF W!Resumes, Begun, W!TypeOK
    <2>3. resumable.start > 0 /\ resumable.start \in W!Times
        BY <2>2 DEF Opened, W!Row, W!TypeOK
    <2>4. \A r \in rows' : r.start # ep'.start
        BY <2>1, <2>2 DEF W!RecordedOnce
    <2> QED  BY <1>1, <1>3, <2>1, <2>2, <2>3, <2>4 DEF W!Closed
<1>4. CASE ep = W!Closed /\ ~W!Resumes
    <2>1. /\ resumable' = W!NoRow /\ rows' = rows /\ ep' = [start |-> now, last |-> now]
          /\ \A r \in rows : r.start # now
        BY <1>4 DEF W!Observe
    <2>2. now \notin taken
        BY <1>4, <2>1 DEF Opened
    <2> QED  BY <1>1, <1>4, <2>1, <2>2 DEF W!Closed
<1> QED
    BY <1>2, <1>3, <1>4

\* A wake-up leaves a timer no later than what is due.
LEMMA Woken ==
    ASSUME now \in W!Times, now' = now, NEW left, left \subseteq Nat,
           NEW w \in Watches, NEW due \in Nat, NEW c \in BOOLEAN,
           now < w.woken => w.woken \in left, due >= now, due <= now + Within, w.seen = now,
           W!WakeAt(w, due, c, left)
    PROVE  /\ watch' \in Watches /\ watch'.window = w.window /\ watch'.seen = now
           /\ watch'.due = due /\ (now < watch'.woken => watch'.woken \in timers')
           /\ timers' \subseteq Nat /\ \A t \in timers' : t \in left \/ t >= now
           /\ \E t \in timers' : t <= watch'.due
           /\ UNCHANGED <<traded, busy, taken>>
<1>1. CASE W!Pending(w, due)
    <2>1. watch' = [w EXCEPT !.due = due, !.confirming = c, !.woken = w.woken] /\ timers' = left
        BY <1>1 DEF W!WakeAt, Watches
    <2>2. /\ watch' \in Watches /\ watch'.window = w.window /\ watch'.seen = now
          /\ watch'.due = due /\ watch'.woken = w.woken
        BY <2>1 DEF Watches
    <2>3. w.woken \in left /\ w.woken <= due
        BY <1>1 DEF W!Pending
    <2> QED  BY <2>1, <2>2, <2>3 DEF W!WakeAt
<1>2. CASE ~W!Pending(w, due)
    <2>1. watch' = [w EXCEPT !.due = due, !.confirming = c, !.woken = due] /\ timers' = left \cup {due}
        BY <1>2 DEF W!WakeAt, Watches
    <2>2. /\ watch' \in Watches /\ watch'.window = w.window /\ watch'.seen = now
          /\ watch'.due = due /\ watch'.woken = due
        BY <2>1 DEF Watches
    <2> QED  BY <2>1, <2>2 DEF W!WakeAt
<1> QED
    BY <1>1, <1>2

\* What consider may do with an open window: leave it, see to it that it is looked at again,
\* turn it down for good, or trade it.
LEMMA Considered ==
    ASSUME WRest, Ringing, NEW left, left \subseteq timers,
           now < watch.woken => watch.woken \in left, now' = now,
           NEW win \in W!Times, book' \in [ready : BOOLEAN, offer : W!Offers, moved : [W!Legs -> W!Times]],
           \A l \in W!Legs : book'.moved[l] <= now,
           W!Consider(win, left)
    PROVE  /\ asleep' = busy
           /\ watch' \in Watches /\ watch'.window = win /\ watch'.seen = now
           /\ watch'.due <= now + Within /\ (now < watch'.woken => watch'.woken \in timers')
           /\ timers' \subseteq Nat /\ \A t \in timers' : t \in left \/ t >= now
           /\ \/ /\ busy \/ traded = win \/ book'.offer # "pick"
                 /\ UNCHANGED <<traded, busy, taken>>
              \/ /\ ~busy /\ traded # win /\ \E t \in timers' : t <= watch'.due
                 /\ UNCHANGED <<traded, busy, taken>>
              \/ ~busy /\ traded # win /\ traded' = win /\ UNCHANGED <<busy, taken>>
              \/ ~busy /\ traded # win /\ traded' = win /\ busy' /\ taken' = taken \cup {win}
<1> USE DEF WRest
<1>0. now \in W!Times /\ now \in Nat /\ busy \in BOOLEAN /\ left \subseteq Nat /\ Within \in Nat
    BY WindowTimes DEF W!TypeOK, W!Times
<1> DEFINE w == IF watch.window = win THEN [watch EXCEPT !.seen = now]
                ELSE [window |-> win, due |-> now + MinWindow, woken |-> 0, seen |-> now,
                      confirming |-> FALSE]
<1>1. /\ w \in Watches /\ w.window = win /\ w.seen = now /\ w.due <= now + Within
      /\ now < w.woken => w.woken \in left
    <2>1. CASE watch.window = win
        <3>1. w = [watch EXCEPT !.seen = now] /\ watch \in Watches
            BY <2>1 DEF W!TypeOK, Watches
        <3>2. /\ w \in Watches /\ w.window = win /\ w.seen = now /\ w.due = watch.due
              /\ w.woken = watch.woken
            BY <1>0, <2>1, <3>1 DEF Watches
        <3>3. watch.due \in Nat /\ watch.seen \in Nat
            BY WindowTimes DEF W!TypeOK, W!Times
        <3> QED  BY <1>0, <3>2, <3>3 DEF Ringing
    <2>2. CASE watch.window # win
        <3>1. w = [window |-> win, due |-> now + MinWindow, woken |-> 0, seen |-> now,
                   confirming |-> FALSE]
            BY <2>2
        <3>2. now + MinWindow \in Nat /\ now + MinWindow <= now + Within /\ ~(now < 0)
            BY <1>0, WindowTimes
        <3> HIDE DEF w
        <3> QED  BY <1>0, <3>1, <3>2 DEF Watches
    <2> QED  BY <2>1, <2>2
<1>3. W!Hold \in Int /\ W!Hold <= Within
    <2>1. /\ now' - book'.moved["K"] \in Nat /\ now' - book'.moved["P"] \in Nat
        BY <1>0, WindowTimes DEF W!Legs, W!Times
    <2> QED
        BY <2>1, WindowTimes DEF W!Hold, W!Most, W!Least
<1>4. PICK v \in Watches :
        /\ v.window = win /\ v.seen = now /\ v.due <= now + Within
        /\ now < v.woken => v.woken \in left
        /\ asleep' = busy
        /\ \/ /\ busy \/ traded = win \/ book'.offer # "pick"
              /\ watch' = v /\ timers' = left /\ UNCHANGED <<traded, busy, taken>>
           \/ /\ ~busy /\ traded # win
              /\ \/ now < v.due /\ W!WakeAt(v, v.due, v.confirming, left)
                 \/ W!Hold > 0 /\ W!WakeAt(v, now + W!Hold, FALSE, left)
                 \/ \E c \in BOOLEAN : W!WakeAt(v, now + Recheck, c, left)
                 \/ traded' = win /\ watch' = v /\ timers' = left /\ UNCHANGED <<busy, taken>>
                 \/ W!Take(v, win, left)
    <2>1. /\ asleep' = busy
          /\ \/ /\ busy \/ traded = win \/ book'.offer # "pick"
                /\ watch' = w /\ timers' = left /\ UNCHANGED <<traded, busy, taken>>
             \/ /\ ~busy /\ traded # win
                /\ \/ now < w.due /\ W!WakeAt(w, w.due, w.confirming, left)
                   \/ W!Hold > 0 /\ W!WakeAt(w, now + W!Hold, FALSE, left)
                   \/ \E c \in BOOLEAN : W!WakeAt(w, now + Recheck, c, left)
                   \/ traded' = win /\ watch' = w /\ timers' = left /\ UNCHANGED <<busy, taken>>
                   \/ W!Take(w, win, left)
        BY DEF W!Consider, W!Verdicts
    <2> HIDE DEF w
    <2> QED  BY <1>1, <2>1
<1>2. v.due \in Nat /\ v.confirming \in BOOLEAN
    BY DEF Watches
<1>5. ASSUME NEW due \in Nat, NEW c \in BOOLEAN, due >= now, due <= now + Within,
             W!WakeAt(v, due, c, left)
      PROVE  /\ watch' \in Watches /\ watch'.window = win /\ watch'.seen = now
             /\ watch'.due <= now + Within /\ (now < watch'.woken => watch'.woken \in timers')
             /\ timers' \subseteq Nat /\ \A t \in timers' : t \in left \/ t >= now
             /\ \E t \in timers' : t <= watch'.due
             /\ UNCHANGED <<traded, busy, taken>>
    <2>1. v.window = win /\ v.seen = now /\ (now < v.woken => v.woken \in left)
        BY <1>4
    <2>2. now \in W!Times /\ left \subseteq Nat
        BY <1>0
    <2> QED  BY ONLY <1>5, <2>1, <2>2, Woken, now' = now
<1>6. CASE /\ busy \/ traded = win \/ book'.offer # "pick"
           /\ watch' = v /\ timers' = left /\ UNCHANGED <<traded, busy, taken>>
    BY <1>0, <1>4, <1>6
<1>7. CASE ~busy /\ traded # win /\ now < v.due /\ W!WakeAt(v, v.due, v.confirming, left)
    <2>1. v.due >= now
        BY <1>0, <1>2, <1>7
    <2> QED  BY <1>2, <1>4, <1>5, <1>7, <2>1
<1>8. CASE ~busy /\ traded # win /\ W!Hold > 0 /\ W!WakeAt(v, now + W!Hold, FALSE, left)
    <2>1. now + W!Hold \in Nat /\ now + W!Hold >= now /\ now + W!Hold <= now + Within
        BY <1>0, <1>3, <1>8
    <2> QED  BY <1>4, <1>5, <1>8, <2>1
<1>9. CASE ~busy /\ traded # win /\ \E c \in BOOLEAN : W!WakeAt(v, now + Recheck, c, left)
    <2>1. now + Recheck \in Nat /\ now + Recheck >= now /\ now + Recheck <= now + Within
        BY <1>0, WindowTimes
    <2>2. PICK c \in BOOLEAN : W!WakeAt(v, now + Recheck, c, left)
        BY <1>9
    <2> QED  BY <1>4, <1>5, <1>9, <2>1, <2>2
<1>10. CASE /\ ~busy /\ traded # win
            /\ traded' = win /\ watch' = v /\ timers' = left /\ UNCHANGED <<busy, taken>>
    BY <1>0, <1>4, <1>10
<1>11. CASE ~busy /\ traded # win /\ W!Take(v, win, left)
    BY <1>0, <1>4, <1>11 DEF W!Take, W!Marked
<1> QED
    BY <1>4, <1>6, <1>7, <1>8, <1>9, <1>10, <1>11

\* A pair that is paused, or not worth trading: what was open is closed.
LEMMA ClosedUp ==
    ASSUME WRest, Ringing, W!Priced, NEW left, left \subseteq timers,
           now < watch.woken => watch.woken \in left,
           book' \in [ready : BOOLEAN, offer : W!Offers, moved : [W!Legs -> W!Times]],
           \A l \in W!Legs : book'.moved[l] <= now,
           sure' \in BOOLEAN, last' \in W!Times, UNCHANGED <<now, mode, starts>>,
           W!Close, timers' = left, resumable' = resumable \/ resumable' = W!NoRow,
           UNCHANGED <<watch, traded, busy, taken, asleep>>
    PROVE  WInv' /\ W!TakesOnce
<1> USE DEF WRest
<1>1. ep' = W!Closed /\ mode' = mode /\ mode # "down"
    BY DEF W!Close, W!Priced
<1>2. /\ rows \subseteq rows' /\ rows' \subseteq W!Row
      /\ \A r \in rows' : r \in rows \/ (ep # W!Closed /\ r.start = ep.start /\ rows' = rows \cup {r})
      /\ ep # W!Closed => \E r \in rows' : r.start = ep.start
    <2>1. CASE ep = W!Closed
        BY <2>1 DEF W!Close, W!TypeOK
    <2>2. CASE ep # W!Closed
        <3> DEFINE new == [start |-> ep.start, end |-> now, cut |-> FALSE]
        <3>1. rows' = rows \cup {new}
            BY <2>2 DEF W!Close
        <3>2. new \in W!Row /\ new.start = ep.start
            BY WindowTimes DEF W!Row, W!TypeOK, W!Times
        <3>3. rows \subseteq W!Row
            BY DEF W!TypeOK
        <3> HIDE DEF new
        <3> QED  BY <2>2, <3>1, <3>2, <3>3
    <2> QED  BY <2>1, <2>2
<1>3. ep' \in [start : W!Times, last : W!Times] /\ resumable' \in W!Row
    <2>1. ep' \in [start : W!Times, last : W!Times] /\ W!NoRow \in W!Row
        BY <1>1, WindowTimes DEF W!Closed, W!NoRow, W!Row, W!Times
    <2> QED  BY <2>1 DEF W!TypeOK
<1>4. timers' \subseteq Nat
    BY DEF W!TypeOK
<1>5. W!TypeOK'
    BY <1>2, <1>3, <1>4 DEF W!TypeOK
<1>6. W!RecordedOnce'
    BY <1>1, <1>2 DEF W!RecordedOnce
<1>7. Begun'
    BY <1>1, <1>2 DEF Begun
<1>8. Opened'
    <2>1. \A r \in rows' : r.start > 0
        BY <1>2 DEF Opened
    <2>2. \A w \in taken : \E r \in rows' : r.start = w
        BY <1>2 DEF Opened
    <2> QED  BY <1>1, <2>1, <2>2 DEF Opened
<1>9. Known' /\ W!LooksAgain' /\ W!TakesOnce
    BY <1>1 DEF Known, W!LooksAgain, W!TakesOnce
<1>10. Ringing'
    BY <1>1 DEF Ringing, W!Priced
<1> QED
    BY <1>5, <1>6, <1>7, <1>8, <1>9, <1>10 DEF WInv

\* A re-pricing leaves everything as it should be, whatever it finds and decides.
LEMMA Evaluated ==
    ASSUME WRest, Ringing, W!Priced, NEW left, left \subseteq timers,
           now < watch.woken => watch.woken \in left,
           book' \in [ready : BOOLEAN, offer : W!Offers, moved : [W!Legs -> W!Times]],
           \A l \in W!Legs : book'.moved[l] <= now,
           sure' \in BOOLEAN, last' \in W!Times, UNCHANGED <<now, mode, starts>>,
           W!Evaluate(left)
    PROVE  WInv' /\ W!TakesOnce
<1>1. CASE /\ W!Close /\ timers' = left /\ (resumable' = resumable \/ resumable' = W!NoRow)
           /\ UNCHANGED <<watch, traded, busy, taken, asleep>>
    BY <1>1, ClosedUp
<1>2. CASE W!Observe /\ W!Consider(ep'.start, left)
    <2>1. /\ ep' \in [start : W!Times, last : W!Times] /\ ep'.start > 0 /\ ep' # W!Closed
          /\ resumable' = W!NoRow /\ rows' \subseteq rows
          /\ \A r \in rows' : r.start # ep'.start
          /\ \/ ep # W!Closed /\ ep'.start = ep.start /\ rows' = rows
             \/ ep = W!Closed /\ ep'.start \notin taken /\ (rows' = rows \/ taken = {})
        BY <1>2, Observed
    <2>2. PICK win \in W!Times : win = ep'.start
        BY <2>1
    <2>3. /\ asleep' = busy
          /\ watch' \in Watches /\ watch'.window = win /\ watch'.seen = now
          /\ watch'.due <= now + Within /\ (now < watch'.woken => watch'.woken \in timers')
          /\ timers' \subseteq Nat /\ \A t \in timers' : t \in left \/ t >= now
          /\ \/ /\ busy \/ traded = win \/ book'.offer # "pick"
                /\ UNCHANGED <<traded, busy, taken>>
             \/ /\ ~busy /\ traded # win /\ \E t \in timers' : t <= watch'.due
                /\ UNCHANGED <<traded, busy, taken>>
             \/ ~busy /\ traded # win /\ traded' = win /\ UNCHANGED <<busy, taken>>
             \/ ~busy /\ traded # win /\ traded' = win /\ busy' /\ taken' = taken \cup {win}
        BY <1>2, <2>2, Considered
    <2>4. win \in taken => traded = win
        BY <2>1, <2>2 DEF WRest, Known
    <2>5. W!TypeOK'
        <3>1. resumable' \in W!Row
            BY <2>1, WindowTimes DEF W!NoRow, W!Row, W!Times
        <3>2. traded' \in W!Times /\ taken' \subseteq W!Times /\ busy' \in BOOLEAN /\ asleep' \in BOOLEAN
            BY <2>3 DEF WRest, W!TypeOK
        <3> QED  BY <2>1, <2>3, <3>1, <3>2 DEF WRest, W!TypeOK, Watches
    <2>6. W!RecordedOnce' /\ Begun'
        BY <2>1 DEF WRest, W!RecordedOnce, Begun, W!Priced
    <2>7. Opened'
        <3>1. \A r \in rows' : r.start > 0
            BY <2>1 DEF WRest, Opened
        <3>2. ASSUME NEW w \in taken'
              PROVE  ep'.start = w \/ \E r \in rows' : r.start = w
            <4>1. CASE w = win
                BY <2>2, <4>1
            <4>2. CASE w \in taken
                BY <2>1, <4>2 DEF WRest, Opened
            <4> QED  BY <2>3, <4>1, <4>2
        <3> QED  BY <2>1, <3>1, <3>2 DEF Opened
    <2>8. Known' /\ W!TakesOnce
        BY <2>2, <2>3, <2>4 DEF Known, W!TakesOnce, WRest, W!TypeOK
    <2>9. Ringing'
        <3>1. now \in Nat /\ \A t \in left : t >= now
            BY WindowTimes DEF WRest, W!TypeOK, Ringing
        <3> QED  BY <2>3, <3>1 DEF Ringing, W!Priced
    <2>10. W!LooksAgain'
        BY <2>2, <2>3 DEF W!LooksAgain
    <2> QED  BY <2>5, <2>6, <2>7, <2>8, <2>9, <2>10 DEF WInv, WRest
<1> QED
    BY <1>1, <1>2 DEF W!Evaluate

-----------------------------------------------------------------------------
(* The greatest of a set of times *)

-----------------------------------------------------------------------------
(* The steps of Windows *)

LEMMA WindowPriced ==
    ASSUME WInv, W!BookChanges \/ W!BookGoes \/ W!Rings \/ W!Answered
    PROVE  WInv' /\ W!TakesOnce
<1> DEFINE Right == [ready : BOOLEAN, offer : W!Offers, moved : [W!Legs -> W!Times]]
<1>1. /\ now \in W!Times /\ book \in Right /\ last \in W!Times /\ sure \in BOOLEAN
      /\ now < watch.woken => watch.woken \in timers
      /\ \A l \in W!Legs : book.moved[l] <= now
    BY WindowTimes DEF WInv, WRest, W!TypeOK, Ringing, W!Times
<1>2. ASSUME NEW b \in Right, \A l \in W!Legs : b.moved[l] <= now, W!Books(b)
      PROVE  WInv' /\ W!TakesOnce
    BY <1>1, <1>2, Evaluated DEF W!Books, WInv
<1>3. CASE W!BookChanges
    <2>1. PICK offer \in W!Offers, tops \in SUBSET W!Legs :
             W!Books([ready |-> TRUE, offer |-> offer,
                      moved |-> [l \in W!Legs |-> IF l \in tops \/ ~book.ready THEN now ELSE book.moved[l]]])
        BY <1>3 DEF W!BookChanges
    <2> DEFINE m == [l \in W!Legs |-> IF l \in tops \/ ~book.ready THEN now ELSE book.moved[l]]
               b == [ready |-> TRUE, offer |-> offer, moved |-> m]
    <2>2. m \in [W!Legs -> W!Times] /\ \A l \in W!Legs : m[l] <= now
        BY <1>1, WindowTimes DEF W!Times
    <2> HIDE DEF m
    <2>3. b \in Right /\ b.moved = m
        BY <2>2
    <2>4. W!Books(b)
        BY <2>1 DEF m
    <2> HIDE DEF b
    <2> QED  BY <1>2, <2>2, <2>3, <2>4
<1>4. CASE W!BookGoes
    <2> DEFINE b == [book EXCEPT !.ready = FALSE]
    <2>1. b \in Right /\ b.moved = book.moved
        BY <1>1
    <2>2. W!Books(b)
        BY <1>4 DEF W!BookGoes
    <2> HIDE DEF b
    <2> QED  BY <1>1, <1>2, <2>1, <2>2
<1>5. CASE W!Rings
    <2>1. PICK t \in timers : t <= now /\ W!Evaluate(timers \ {t})
        BY <1>5 DEF W!Rings
    <2> DEFINE left == timers \ {t}
    <2>2. left \subseteq timers /\ (now < watch.woken => watch.woken \in left)
        BY <1>1, <2>1, WindowTimes DEF WInv, WRest, W!TypeOK, W!Times
    <2>3. W!Evaluate(left) /\ W!Priced /\ UNCHANGED <<book, sure, now, last, mode, starts>>
        BY <1>5, <2>1 DEF W!Rings
    <2> HIDE DEF left
    <2> QED  BY <1>1, <2>2, <2>3, Evaluated DEF WInv
<1>6. CASE W!Answered
    <2>1. W!Evaluate(timers) /\ W!Priced /\ UNCHANGED <<book, now, last, mode, starts>> /\ sure' \in BOOLEAN
        BY <1>6 DEF W!Answered
    <2> QED  BY <1>1, <2>1, Evaluated DEF WInv
<1> QED
    BY <1>3, <1>4, <1>5, <1>6

\* What a start may reopen is a row on record.
LEMMA WindowStart ==
    ASSUME WInv, W!Start
    PROVE  WInv'
<1> USE DEF WInv, WRest
<1>1. /\ mode = "down" /\ mode' = "up" /\ starts' \in 0..MaxStarts
      /\ UNCHANGED <<now, book, last, ep, rows, watch, traded, busy, sure, timers, taken, asleep>>
    BY WindowTimes DEF W!Start, W!TypeOK
<1>2. ep = W!Closed /\ taken = {} /\ timers = {}
    BY <1>1 DEF Begun
<1>3. resumable' = W!NoRow \/ resumable' \in rows
    <2>1. CASE W!Recent = {}
        BY <2>1 DEF W!Start
    <2>2. CASE W!Recent # {}
        <3> DEFINE Saved == {r.end : r \in W!Recent}
        <3>1. W!Recent \subseteq rows /\ \A r \in rows : r.end \in Nat /\ r.end <= LastTick
            BY WindowTimes DEF W!Recent, W!TypeOK, W!Row, W!Times
        <3>2. Saved \in SUBSET Nat /\ Saved # {} /\ \A x \in Saved : x <= LastTick
            BY <2>2, <3>1
        <3>3. PICK x \in Saved : \A y \in Saved : y <= x
            <4> HIDE DEF Saved
            <4> QED  BY <3>2, HasGreatest, WindowTimes
        <3>4. \E r \in W!Recent : \A q \in W!Recent : q.end <= r.end
            BY <3>3
        <3> QED  BY <2>2, <3>1, <3>4 DEF W!Start
    <2> QED  BY <2>1, <2>2
<1>4. resumable' \in W!Row
    <2>1. W!NoRow \in W!Row
        BY WindowTimes DEF W!NoRow, W!Row, W!Times
    <2> QED  BY <1>3, <2>1 DEF W!TypeOK
<1>5. W!TypeOK'
    BY <1>1, <1>4 DEF W!TypeOK
<1>6. W!RecordedOnce' /\ Begun' /\ Opened' /\ Known'
    BY <1>1, <1>2, <1>3 DEF W!RecordedOnce, Begun, Opened, Known
<1>7. Ringing' /\ W!LooksAgain'
    BY <1>1, <1>2 DEF Ringing, W!LooksAgain
<1> QED
    BY <1>5, <1>6, <1>7

LEMMA WindowStop ==
    ASSUME WInv, W!StopAsked
    PROVE  WInv'
<1> USE DEF WInv, WRest
<1>1. /\ mode = "up" /\ mode' = "draining" /\ ep' = W!Closed
      /\ UNCHANGED <<now, book, last, resumable, watch, traded, busy, sure, timers, starts, taken, asleep>>
    BY DEF W!StopAsked
<1>2. /\ rows \subseteq rows' /\ rows' \subseteq W!Row
      /\ \A r \in rows' : r \in rows \/ (ep # W!Closed /\ r.start = ep.start /\ rows' = rows \cup {r})
      /\ ep # W!Closed => \E r \in rows' : r.start = ep.start
    <2>1. CASE ep = W!Closed
        BY <2>1 DEF W!StopAsked, W!TypeOK
    <2>2. CASE ep # W!Closed
        <3> DEFINE new == [start |-> ep.start, end |-> ep.last, cut |-> TRUE]
        <3>1. rows' = rows \cup {new}
            BY <2>2 DEF W!StopAsked
        <3>2. new \in W!Row /\ new.start = ep.start
            BY DEF W!Row, W!TypeOK
        <3>3. rows \subseteq W!Row
            BY DEF W!TypeOK
        <3> HIDE DEF new
        <3> QED  BY <2>2, <3>1, <3>2, <3>3
    <2> QED  BY <2>1, <2>2
<1>3. W!TypeOK'
    <2>1. ep' \in [start : W!Times, last : W!Times]
        BY <1>1, WindowTimes DEF W!Closed, W!Times
    <2> QED  BY <1>1, <1>2, <2>1 DEF W!TypeOK
<1>4. W!RecordedOnce' /\ Begun'
    BY <1>1, <1>2 DEF W!RecordedOnce, Begun
<1>5. Opened'
    <2>1. \A r \in rows' : r.start > 0
        BY <1>2 DEF Opened
    <2>2. \A w \in taken : \E r \in rows' : r.start = w
        BY <1>2 DEF Opened
    <2> QED  BY <1>1, <2>1, <2>2 DEF Opened
<1>6. Known' /\ Ringing' /\ W!LooksAgain'
    BY <1>1 DEF Known, Ringing, W!Priced, W!LooksAgain
<1> QED
    BY <1>3, <1>4, <1>5, <1>6

LEMMA WindowGone ==
    ASSUME WInv, W!Gone
    PROVE  WInv'
<1> USE DEF WInv, WRest
<1>1. book' = [ready |-> FALSE, offer |-> "none", moved |-> [l \in W!Legs |-> 0]]
    BY DEF W!Gone, W!Blank
<1>2. W!TypeOK'
    <2>1. book' \in [ready : BOOLEAN, offer : W!Offers, moved : [W!Legs -> W!Times]]
        BY <1>1, WindowTimes DEF W!Offers, W!Times
    <2>2. watch' \in Watches
        BY WindowTimes DEF W!Gone, W!NoWatch, Watches, W!Times
    <2>3. ep' \in [start : W!Times, last : W!Times] /\ resumable' \in W!Row
        BY WindowTimes DEF W!Gone, W!Closed, W!NoRow, W!Times, W!Row
    <2>4. traded' \in W!Times /\ taken' \subseteq W!Times /\ timers' \subseteq Nat
        BY WindowTimes DEF W!Gone, W!Times
    <2>5. UNCHANGED <<now, last, rows, starts>> /\ mode' \in {"up", "draining", "down"}
        BY DEF W!Gone
    <2>6. busy' \in BOOLEAN /\ sure' \in BOOLEAN /\ asleep' \in BOOLEAN
        BY Zenon DEF W!Gone
    <2> QED  BY <2>1, <2>2, <2>3, <2>4, <2>5, <2>6 DEF W!TypeOK, Watches
<1>3. W!RecordedOnce' /\ Begun' /\ Opened' /\ Known' /\ W!LooksAgain'
    BY DEF W!Gone, W!RecordedOnce, Begun, Opened, Known, W!LooksAgain
<1>4. Ringing'
    <2>1. watch'.due = 0 /\ watch'.seen = 0 /\ watch'.woken = 0 /\ now \in Nat
        BY WindowTimes DEF W!Gone, W!NoWatch, W!TypeOK
    <2> QED  BY <1>1, <2>1, WindowTimes DEF W!Gone, Ringing
<1> QED
    BY <1>2, <1>3, <1>4

\* A watch that is forgotten was of no window that is still to be looked at.
LEMMA WindowForget ==
    ASSUME WInv, W!Forget
    PROVE  WInv'
<1> USE DEF WInv, WRest
<1>1. /\ mode = "up" /\ watch' = W!NoWatch /\ watch.seen < now - Idle
      /\ UNCHANGED <<now, book, last, ep, resumable, rows, traded, busy, sure, timers,
                     mode, starts, taken, asleep>>
    BY DEF W!Forget
<1>2. now \in Nat /\ timers \subseteq Nat /\ watch.due \in Nat /\ watch.seen \in Nat
    BY WindowTimes DEF W!TypeOK, W!Times
<1>3. ASSUME NEW t \in timers, t <= watch.due PROVE FALSE
    <2>1. t >= now
        BY <1>1 DEF Ringing, W!Priced
    <2> QED  BY <1>1, <1>2, <1>3, <2>1, WindowTimes DEF Ringing
<1>4. W!LooksAgain'
    BY <1>1, <1>3 DEF W!LooksAgain, W!Priced
<1>5. watch' \in Watches /\ watch'.due = 0 /\ watch'.seen = 0 /\ watch'.woken = 0
    BY <1>1, WindowTimes DEF W!NoWatch, Watches, W!Times
<1>6. W!TypeOK'
    BY <1>1, <1>5 DEF W!TypeOK, Watches
<1>7. W!RecordedOnce' /\ Begun' /\ Opened' /\ Known'
    BY <1>1 DEF W!RecordedOnce, Begun, Opened, Known
<1>8. Ringing'
    BY <1>1, <1>2, <1>5, WindowTimes DEF Ringing, W!Priced
<1> QED
    BY <1>4, <1>6, <1>7, <1>8

LEMMA WindowStep ==
    ASSUME WInv, [W!Next]_(W!vars)
    PROVE  WInv' /\ W!TakesOnce
<1> USE DEF WInv, WRest
<1>1. CASE W!BookChanges \/ W!BookGoes \/ W!Rings \/ W!Answered
    BY <1>1, WindowPriced
<1>2. CASE W!Lapses \/ W!TradeEnds \/ UNCHANGED W!vars
    <2>1. /\ UNCHANGED <<now, book, last, ep, resumable, rows, watch, traded, timers, mode, starts,
                         taken, asleep>>
          /\ busy' \in BOOLEAN /\ sure' \in BOOLEAN /\ (busy' => busy)
        <3>1. busy \in BOOLEAN /\ sure \in BOOLEAN
            BY DEF W!TypeOK
        <3>2. CASE W!Lapses
            BY <3>1, <3>2, Zenon DEF W!Lapses
        <3>3. CASE W!TradeEnds
            BY <3>1, <3>3, Zenon DEF W!TradeEnds
        <3>4. CASE UNCHANGED W!vars
            BY <3>1, <3>4, Zenon DEF W!vars
        <3> QED  BY <1>2, <3>2, <3>3, <3>4
    <2>2. W!TypeOK' /\ W!TakesOnce
        BY <2>1 DEF W!TypeOK, W!TakesOnce
    <2>3. W!RecordedOnce' /\ Begun' /\ Opened' /\ Known'
        BY <2>1 DEF W!RecordedOnce, Begun, Opened, Known
    <2>4. Ringing' /\ W!LooksAgain'
        BY <1>2, <2>1 DEF Ringing, W!Priced, W!LooksAgain, Known, W!Lapses, W!TradeEnds, W!vars
    <2> QED  BY <2>2, <2>3, <2>4
<1>3. CASE W!Tick
    <2>1. /\ UNCHANGED <<book, last, ep, resumable, rows, watch, traded, busy, sure, timers, mode, starts,
                         taken, asleep>>
          /\ now' = now + 1 /\ now' \in 1..LastTick /\ now \in Nat
        BY <1>3, WindowTimes DEF W!Tick, W!TypeOK
    <2>2. W!TypeOK' /\ W!TakesOnce
        BY <2>1 DEF W!TypeOK, W!TakesOnce
    <2>3. W!RecordedOnce' /\ Begun' /\ Opened' /\ Known' /\ W!LooksAgain'
        BY <2>1 DEF W!RecordedOnce, Begun, Opened, Known, W!LooksAgain, W!Priced
    <2>4. Ringing'
        <3>1. \A l \in W!Legs : book.moved[l] \in Nat
            BY WindowTimes DEF W!TypeOK, W!Times
        <3>2. watch.woken \in Nat /\ watch.seen \in Nat /\ timers \subseteq Nat
            BY WindowTimes DEF W!TypeOK, W!Times
        <3>3. \A l \in W!Legs : book'.moved[l] <= now'
            BY <2>1, <3>1 DEF Ringing
        <3>4. W!Priced' => \A t \in timers' : t >= now'
            BY <1>3, <2>1, <3>2 DEF W!Tick, W!Priced
        <3> QED  BY <2>1, <3>2, <3>3, <3>4 DEF Ringing
    <2> QED  BY <2>2, <2>3, <2>4
<1>4. CASE W!Start
    BY <1>4, WindowStart DEF W!Start, W!TakesOnce
<1>5. CASE W!StopAsked
    BY <1>5, WindowStop DEF W!StopAsked, W!TakesOnce
<1>6. CASE W!Gone
    BY <1>6, WindowGone DEF W!Gone, W!TakesOnce
<1>7. CASE W!Forget
    BY <1>7, WindowForget DEF W!Forget, W!TakesOnce
<1> QED
    BY <1>1, <1>2, <1>3, <1>4, <1>5, <1>6, <1>7 DEF W!Next

-----------------------------------------------------------------------------
(* Limits *)

\* The trades on record that were made on a day, the one under way if it was, and the
\* sell-backs the breaker counts.
Of(d) == {r \in rows : L!DayOf(r.at) = d}
Today == IF busy # L!NoTrade /\ L!DayOf(busy.at) = L!DayOf(now) THEN 1 ELSE 0
Recently == {r \in rows : r.how = "sold" /\ L!Knows(r) /\ r.n > resumed /\ L!From(r) > now - Hour}

\* The records are numbered, and were made in their runs, in order;
Numbered ==
    /\ IsFiniteSet(rows) /\ IsFiniteSet(sold) /\ Cardinality(rows) <= MaxTrades
    /\ \A r \in rows : /\ r.n <= Cardinality(rows) /\ r.run <= run /\ r.at <= r.end /\ r.end <= now
                       /\ r.how = "sold" => r.left = r.pair
                       /\ r.run < run => r.at <= began
    /\ \A r, q \in rows : r.n = q.n => r = q

\* the count of the day counts them all;
Counted ==
    /\ Cardinality(Of(L!DayOf(now))) <= PerDay
    /\ up => Cardinality(Of(L!DayOf(now))) + Today <= L!TradesToday

\* what is to be let alone is cooling;
Rested ==
    up => \A r \in rows : \A m \in r.left :
        /\ r.how = "sold" /\ L!Knows(r) => L!From(r) + Rest <= now \/ L!From(r) + Rest <= cooling[m]
        /\ r.how = "missed" /\ r.run = run => r.end + Cool <= now \/ r.end + Cool <= cooling[m]

\* the breaker's list has every sell-back of the last hour, and was not tripped by them;
Listed ==
    up => \A r \in rows : r.how = "sold" /\ L!Knows(r) /\ L!From(r) > now - Hour =>
              [n |-> r.n, at |-> L!From(r)] \in sold
Broken == ~halted => Cardinality(Recently) < PerHour

\* and the trade under way began when the clock let it.
Underway ==
    /\ (up => run > 0) /\ (~up => busy = L!NoTrade)
    /\ busy # L!NoTrade =>
        /\ busy.pair \in Pairs /\ Cardinality(rows) < MaxTrades
        /\ busy.at <= now /\ now <= busy.at + Longest
        /\ busy.hours => {busy.at, busy.at + Margin} \cap Shut = {}
        /\ busy.at < StartOf[busy.pair] - Margin \/ busy.at >= StartOf[busy.pair] + Opening

LimitsKept == busy # L!NoTrade => L!DayKept /\ L!RestKept /\ L!BreakerKept

LRest == L!TypeOK /\ Numbered
LInv == LRest /\ Counted /\ Rested /\ Listed /\ Broken /\ Underway /\ LimitsKept

LEMMA LimitTimes ==
    /\ PerDay \in Nat /\ PerHour \in Nat /\ Hour \in Nat /\ Rest \in Nat /\ Cool \in Nat
    /\ Margin \in Nat /\ Opening \in Nat /\ Longest \in Nat
    /\ MaxTrades \in Nat /\ MaxRuns \in Nat /\ MaxNow \in Nat /\ Day \in Nat \ {0}
    /\ PerHour > 0 /\ Cool <= Rest /\ \A p \in Pairs : StartOf[p] \in Nat
    /\ \A t \in 0..MaxNow : {t, t + Margin} \cap Shut = {} => t..(t + Margin) \cap Shut = {}
BY TradingAssumption DEF L!LimitsFit

LEMMA SameCount == ASSUME NEW S PROVE L!Cardinality(S) = Cardinality(S)
    BY DEF L!Cardinality, Cardinality

\* Days pass in order.
LEMMA DaysPass ==
    ASSUME NEW a \in Nat, NEW b \in Nat, a <= b
    PROVE  L!DayOf(a) \in Nat /\ L!DayOf(b) \in Nat /\ L!DayOf(a) <= L!DayOf(b)
BY LimitTimes DEF L!DayOf

LEMMA GreatestIsMax ==
    ASSUME NEW S \in SUBSET Nat, S # {}, NEW b \in Nat, \A x \in S : x <= b
    PROVE  L!Max(S) \in S /\ \A y \in S : y <= L!Max(S)
<1>1. \E x \in S : \A y \in S : y <= x
    BY HasGreatest
<1>2. \E x \in S : \A y \in S : x >= y
    BY <1>1
<1>3. L!Max(S) \in S /\ \A y \in S : L!Max(S) >= y
    BY <1>2 DEF L!Max
<1> QED
    BY <1>3

\* What the fields of a row are.
LEMMA RowIs ==
    ASSUME LRest, NEW r \in rows
    PROVE  /\ r.n \in 1..MaxTrades /\ r.run \in 1..MaxRuns /\ r.pair \in Pairs
           /\ r.at \in Nat /\ r.end \in Nat /\ r.at <= r.end /\ r.end <= now /\ r.run <= run
           /\ r.left \subseteq L!Markets /\ L!From(r) \in Nat /\ r.at <= L!From(r) /\ L!From(r) <= now
BY LimitTimes DEF LRest, L!TypeOK, L!Row, Numbered, L!From

\* The sets that are counted are finite.
LEMMA Counts ==
    ASSUME LRest
    PROVE  /\ \A d : IsFiniteSet(Of(d)) /\ Cardinality(Of(d)) \in Nat
           /\ IsFiniteSet(Recently) /\ Cardinality(Recently) \in Nat
           /\ Cardinality(rows) \in Nat
<1>1. \A S \in SUBSET rows : IsFiniteSet(S) /\ Cardinality(S) \in Nat
    BY FS_Subset, FS_CardinalityType DEF LRest, Numbered
<1>2. Recently \in SUBSET rows /\ \A d : Of(d) \in SUBSET rows
    BY DEF Recently, Of
<1> QED
    BY <1>1, <1>2

LEMMA LimitNow ==
    ASSUME LRest
    PROVE  now \in Nat /\ now <= MaxNow /\ L!TradesToday \in 0..PerDay /\ busy.at \in Nat /\ busy.at <= now
BY LimitTimes DEF LRest, L!TypeOK, L!TradesToday

LEMMA LimitInit == L!Init => LInv
<1> SUFFICES ASSUME L!Init PROVE LInv
    OBVIOUS
<1>1. L!TypeOK
    <2>1. L!DayOf(MaxNow) \in Nat
        BY DaysPass, LimitTimes
    <2>2. busy \in [pair : Pairs \cup {{}}, at : 0..now, hours : BOOLEAN]
        BY DEF L!Init, L!NoTrade
    <2>3. \A m \in L!Markets : cooling[m] \in 0..MaxNow + Rest
        BY LimitTimes DEF L!Init
    <2>4. count.day \in 0..L!DayOf(MaxNow) /\ count.n \in 0..PerDay
        BY <2>1, LimitTimes DEF L!Init
    <2>5. /\ now \in 0..MaxNow /\ run \in 0..MaxRuns /\ began \in 0..now /\ resumed \in 0..MaxTrades
          /\ sold \subseteq [n : 1..MaxTrades, at : 0..now] /\ rows \subseteq L!Row
        BY LimitTimes DEF L!Init
    <2>6. up \in BOOLEAN /\ halted \in BOOLEAN /\ hours \in BOOLEAN
        BY Zenon DEF L!Init
    <2> QED  BY <2>2, <2>3, <2>4, <2>5, <2>6 DEF L!TypeOK
<1>2. \A d : Of(d) = {}
    BY DEF L!Init, Of
<1>3. Recently = {}
    BY DEF L!Init, Recently
<1>4. Cardinality({}) = 0 /\ IsFiniteSet({})
    BY FS_EmptySet
<1>5. Numbered /\ Counted
    BY <1>2, <1>4, LimitTimes DEF L!Init, Numbered, Counted
<1>6. Rested /\ Listed /\ Underway /\ LimitsKept
    BY DEF L!Init, Rested, Listed, Underway, LimitsKept
<1>7. Broken
    BY <1>3, <1>4, LimitTimes DEF Broken
<1> QED
    BY <1>1, <1>5, <1>6, <1>7 DEF LInv, LRest

\* What depends on the records and on what is known of them stays as long as they do.
LEMMA SameRecords ==
    ASSUME UNCHANGED <<rows, run, began>>
    PROVE  /\ \A d : Of(d)' = Of(d)
           /\ UNCHANGED <<now, resumed>> => Recently' = Recently
           /\ UNCHANGED <<busy, resumed>> => (LimitsKept' <=> LimitsKept)
<1>1. \A r : (L!Knows(r)' <=> L!Knows(r)) /\ L!From(r)' = L!From(r)
    BY DEF L!Knows, L!From
<1>2. \A d : Of(d)' = Of(d)
    BY DEF Of
<1>3. ASSUME UNCHANGED <<now, resumed>> PROVE Recently' = Recently
    BY <1>1, <1>3 DEF Recently
<1>4. ASSUME UNCHANGED <<busy, resumed>> PROVE LimitsKept' <=> LimitsKept
    <2>1. L!DayKept' <=> L!DayKept
        BY <1>4 DEF L!DayKept
    <2>2. L!RestKept' <=> L!RestKept
        BY <1>1, <1>4 DEF L!RestKept
    <2>3. L!BreakerKept' <=> L!BreakerKept
        <3>1. {r \in rows : r.how = "sold" /\ L!Knows(r) /\ r.n > resumed /\ L!From(r) > busy.at - Hour}'
                = {r \in rows : r.how = "sold" /\ L!Knows(r) /\ r.n > resumed /\ L!From(r) > busy.at - Hour}
            BY <1>1, <1>4
        <3> QED  BY <3>1 DEF L!BreakerKept
    <2> QED  BY <1>4, <2>1, <2>2, <2>3 DEF LimitsKept
<1> QED
    BY <1>2, <1>3, <1>4

-----------------------------------------------------------------------------
(* The steps of Limits *)

\* A trade begins only where nothing rules it out.
LEMMA LimitDecides ==
    ASSUME LInv, NEW p \in Pairs, L!Decides(p)
    PROVE  LInv'
<1> USE DEF LInv, LRest
<1>1. /\ up /\ ~halted /\ busy = L!NoTrade /\ Cardinality(rows) < MaxTrades /\ L!TradesToday < PerDay
      /\ ~L!KalshiClosed /\ ~L!NearStart(p) /\ \A m \in p : cooling[m] <= now
      /\ busy' = [pair |-> p, at |-> now, hours |-> hours]
      /\ count'.day = L!DayOf(now) /\ count'.n = L!TradesToday + 1
      /\ UNCHANGED <<now, run, began, up, cooling, sold, halted, hours, rows, resumed>>
    BY SameCount DEF L!Decides, L!MoreToday
<1>2. busy'.pair = p /\ busy'.at = now /\ busy'.hours = hours
    BY <1>1
<1>3. L!TypeOK'
    <2>1. L!DayOf(now) \in 0..L!DayOf(MaxNow)
        BY LimitNow, LimitTimes, DaysPass
    <2>2. count'.day \in 0..L!DayOf(MaxNow)' /\ count'.n \in 0..PerDay
        BY <1>1, <2>1, LimitNow, LimitTimes
    <2>3. busy' \in [pair : Pairs \cup {{}}, at : 0..now, hours : BOOLEAN]
        BY <1>1, LimitNow DEF L!TypeOK
    <2> QED  BY <1>1, <2>2, <2>3 DEF L!TypeOK
<1>4. Numbered' /\ Rested' /\ Listed'
    BY <1>1 DEF Numbered, Rested, Listed, L!Knows, L!From
<1>5. /\ L!DayOf(now)' = L!DayOf(now) /\ Of(L!DayOf(now))' = Of(L!DayOf(now)) /\ Recently' = Recently
      /\ L!DayOf(now) \in Nat
    <2>1. L!DayOf(now)' = L!DayOf(now)
        BY <1>1
    <2>2. L!DayOf(now) \in Nat
        BY LimitNow, DaysPass
    <2> QED  BY <1>1, <2>1, <2>2, SameRecords
<1>6. Counted'
    <2>1. Today' \in 0..1 /\ L!TradesToday' = L!TradesToday + 1
        BY <1>1, <1>5 DEF Today, L!TradesToday
    <2>2. Today \in 0..1
        BY DEF Today
    <2> QED  BY <1>1, <1>5, <2>1, <2>2, Counts, LimitNow, LimitTimes DEF Counted
<1>7. Broken'
    BY <1>1, <1>5 DEF Broken
<1>8. Underway'
    <2>1. busy'.hours => {busy'.at, busy'.at + Margin} \cap Shut = {}
        BY <1>1, <1>2 DEF L!KalshiClosed, L!Open
    <2>2. busy'.at < StartOf[busy'.pair] - Margin \/ busy'.at >= StartOf[busy'.pair] + Opening
        BY <1>1, <1>2, LimitNow, LimitTimes DEF L!NearStart
    <2> QED  BY <1>1, <1>2, <2>1, <2>2, LimitNow, LimitTimes DEF Underway
<1>9. LimitsKept'
    <2>1. L!DayKept'
        <3>1. {r \in rows' : L!DayOf(r.at) = L!DayOf(busy'.at)} = Of(L!DayOf(now))
            BY <1>1, <1>2 DEF Of
        <3>2. Cardinality(Of(L!DayOf(now))) < PerDay
            <4>1. Today \in 0..1
                BY DEF Today
            <4> QED  BY <1>1, <1>5, <4>1, Counts, LimitNow, LimitTimes DEF Counted
        <3> QED  BY <3>1, <3>2, SameCount DEF L!DayKept
    <2>2. L!RestKept'
        <3> SUFFICES ASSUME NEW r \in rows, r.left \cap p # {}
                     PROVE  /\ r.how = "sold" /\ L!Knows(r) => now >= L!From(r) + Rest
                            /\ r.how = "missed" /\ r.run = run => now >= r.end + Cool
            BY <1>1, <1>2 DEF L!RestKept, L!Knows, L!From
        <3>1. PICK m \in r.left : m \in p
            OBVIOUS
        <3>2. cooling[m] <= now /\ cooling[m] \in Nat
            BY <1>1, <3>1, LimitTimes DEF L!TypeOK, L!Markets
        <3> QED  BY <1>1, <3>1, <3>2, RowIs, LimitNow, LimitTimes DEF Rested
    <2>3. L!BreakerKept'
        <3>1. {r \in rows' : r.how = "sold" /\ L!Knows(r)' /\ r.n > resumed' /\ L!From(r)' > busy'.at - Hour}
                = Recently
            BY <1>1, <1>2 DEF Recently, L!Knows, L!From
        <3> QED  BY <1>1, <3>1, SameCount DEF L!BreakerKept, Broken
    <2> QED  BY <2>1, <2>2, <2>3 DEF LimitsKept
<1> QED
    BY <1>3, <1>4, <1>6, <1>7, <1>8, <1>9

\* The hours are read, the process ends, or nothing happens.
LEMMA LimitCalm ==
    ASSUME LInv, UNCHANGED <<now, run, began, count, cooling, sold, halted, rows, resumed>>,
           hours' \in BOOLEAN, up' \in BOOLEAN,
           (busy' = busy /\ up' = up) \/ (busy' = L!NoTrade /\ ~up')
    PROVE  LInv'
<1> USE DEF LInv, LRest
<1>1. L!TypeOK'
    <2>1. L!NoTrade \in [pair : Pairs \cup {{}}, at : 0..now, hours : BOOLEAN]
        BY LimitNow DEF L!NoTrade
    <2> QED  BY <2>1 DEF L!TypeOK
<1>2. Numbered' /\ Rested' /\ Listed'
    <2>1. up' => up
        OBVIOUS
    <2> QED  BY <2>1 DEF Numbered, Rested, Listed, L!Knows, L!From
<1>3. Of(L!DayOf(now))' = Of(L!DayOf(now)) /\ Recently' = Recently
    BY SameRecords, LimitNow, DaysPass
<1>4. Counted'
    <2>1. up' => Today' = Today /\ L!TradesToday' = L!TradesToday
        BY DEF Today, L!TradesToday
    <2> QED  BY <1>3, <2>1 DEF Counted
<1>5. Broken'
    BY <1>3 DEF Broken
<1>6. Underway'
    BY DEF Underway
<1>7. LimitsKept'
    <2>1. CASE busy' = busy
        BY <2>1, SameRecords
    <2>2. CASE busy' = L!NoTrade
        BY <2>2 DEF LimitsKept
    <2> QED  BY <2>1, <2>2
<1> QED
    BY <1>1, <1>2, <1>4, <1>5, <1>6, <1>7

\* The owner has trading resumed: the breaker counts anew.
LEMMA LimitResumes ==
    ASSUME LInv, L!Resumes
    PROVE  LInv'
<1> USE DEF LInv, LRest
<1>1. /\ halted' = FALSE /\ resumed' = Cardinality(rows)
      /\ UNCHANGED <<now, run, began, up, busy, count, cooling, sold, hours, rows>>
    BY SameCount DEF L!Resumes
<1>2. L!TypeOK'
    <2>1. resumed' \in 0..MaxTrades
        BY <1>1, Counts, LimitTimes DEF Numbered
    <2>2. halted' \in BOOLEAN
        BY <1>1, Zenon
    <2> QED  BY <1>1, <2>1, <2>2 DEF L!TypeOK
<1>3. Numbered' /\ Rested' /\ Listed' /\ Underway'
    BY <1>1 DEF Numbered, Rested, Listed, Underway, L!Knows, L!From
<1>4. Of(L!DayOf(now))' = Of(L!DayOf(now))
    BY <1>1, SameRecords, LimitNow, DaysPass
<1>5. Counted'
    BY <1>1, <1>4 DEF Counted, Today, L!TradesToday
<1>6. \A r \in rows' : ~(r.n > resumed')
    BY <1>1, RowIs, Counts DEF Numbered
<1>7. Cardinality({}) = 0
    BY FS_EmptySet
<1>8. Broken'
    <2>1. Recently' = {}
        BY <1>6 DEF Recently
    <2> QED  BY <1>7, <2>1, LimitTimes DEF Broken
<1>9. LimitsKept'
    <2>1. L!BreakerKept'
        <3>1. {r \in rows' : r.how = "sold" /\ L!Knows(r)' /\ r.n > resumed' /\ L!From(r)' > busy'.at - Hour}
                = {}
            BY <1>6
        <3> QED  BY <1>7, <3>1, SameCount, LimitTimes DEF L!BreakerKept
    <2>2. busy' # L!NoTrade => L!DayKept' /\ L!RestKept'
        BY <1>1 DEF LimitsKept, L!DayKept, L!RestKept, L!Knows, L!From
    <2> QED  BY <2>1, <2>2 DEF LimitsKept
<1> QED
    BY <1>2, <1>3, <1>5, <1>8, <1>9

\* A new day has no trades yet.
LEMMA LimitTick ==
    ASSUME LInv, L!Tick
    PROVE  LInv'
<1> USE DEF LInv, LRest
<1>1. /\ now' = now + 1 /\ now' \in 0..MaxNow /\ (busy # L!NoTrade => now < busy.at + Longest)
      /\ UNCHANGED <<run, began, up, busy, count, cooling, sold, halted, hours, rows, resumed>>
    <2>1. now < MaxNow /\ now' = now + 1
        BY DEF L!Tick
    <2>2. now' \in 0..MaxNow
        BY <2>1, LimitNow, LimitTimes
    <2> QED  BY <2>1, <2>2 DEF L!Tick
<1>2. L!TypeOK'
    <2>1. began' \in 0..now'
        BY <1>1, LimitNow DEF L!TypeOK
    <2>2. busy' \in [pair : Pairs \cup {{}}, at : 0..now', hours : BOOLEAN]
        BY <1>1, LimitNow DEF L!TypeOK
    <2>3. sold' \subseteq [n : 1..MaxTrades, at : 0..now']
        BY <1>1, LimitNow DEF L!TypeOK
    <2> QED  BY <1>1, <2>1, <2>2, <2>3 DEF L!TypeOK
<1>3. \A r \in rows : r.end <= now /\ r.end \in Nat /\ r.at \in Nat /\ r.at <= now /\ L!From(r) \in Nat
    BY RowIs, LimitNow
<1>4. Numbered'
    BY <1>1, <1>3, LimitNow DEF Numbered
<1>5. Rested'
    <2> SUFFICES ASSUME up, NEW r \in rows, NEW m \in r.left
                 PROVE  /\ r.how = "sold" /\ L!Knows(r) => L!From(r) + Rest <= now' \/ L!From(r) + Rest <= cooling[m]
                        /\ r.how = "missed" /\ r.run = run => r.end + Cool <= now' \/ r.end + Cool <= cooling[m]
        BY <1>1 DEF Rested, L!Knows, L!From
    <2> QED  BY <1>1, <1>3, LimitNow, LimitTimes DEF Rested
<1>6. Listed'
    <2> SUFFICES ASSUME up, NEW r \in rows, r.how = "sold", L!Knows(r), L!From(r) > now' - Hour
                 PROVE  [n |-> r.n, at |-> L!From(r)] \in sold
        BY <1>1 DEF Listed, L!Knows, L!From
    <2>1. L!From(r) > now - Hour
        BY <1>1, <1>3, LimitNow, LimitTimes
    <2> QED  BY <2>1 DEF Listed
<1>7. Counted'
    <2>1. now' \in Nat /\ L!DayOf(now) \in Nat /\ L!DayOf(now') \in Nat /\ L!DayOf(now) <= L!DayOf(now')
        BY <1>1, LimitNow, DaysPass
    <2>2. CASE L!DayOf(now') = L!DayOf(now)
        <3>1. Of(L!DayOf(now))' = Of(L!DayOf(now))
            BY <1>1, <2>2 DEF Of
        <3>2. Today' = Today /\ L!TradesToday' = L!TradesToday
            BY <1>1, <2>2 DEF Today, L!TradesToday
        <3> QED  BY <1>1, <3>1, <3>2 DEF Counted
    <2>3. CASE L!DayOf(now') # L!DayOf(now)
        <3>1. \A t \in Nat : t <= now => L!DayOf(t) # L!DayOf(now')
            BY <2>1, <2>3, DaysPass, LimitNow
        <3>2. Of(L!DayOf(now))' = {}
            BY <1>1, <1>3, <3>1 DEF Of
        <3>3. Today' = 0
            BY <1>1, <3>1, LimitNow DEF Today
        <3>4. L!TradesToday' \in Nat
            BY <1>1, LimitTimes DEF L!TradesToday, L!TypeOK
        <3>5. Cardinality({}) = 0
            BY FS_EmptySet
        <3> QED  BY <3>2, <3>3, <3>4, <3>5, LimitTimes DEF Counted
    <2> QED  BY <2>2, <2>3
<1>8. Broken'
    <2>1. Recently' \subseteq Recently
        BY <1>1, <1>3, LimitNow, LimitTimes DEF Recently, L!Knows, L!From
    <2>2. Cardinality(Recently') <= Cardinality(Recently) /\ Cardinality(Recently') \in Nat
        <3>1. IsFiniteSet(Recently) /\ Cardinality(Recently) \in Nat
            BY Counts
        <3> QED  BY <2>1, <3>1, FS_Subset, FS_CardinalityType
    <2> QED  BY <1>1, <2>2, Counts, LimitTimes DEF Broken
<1>9. Underway'
    BY <1>1, LimitNow, LimitTimes DEF Underway
<1>10. LimitsKept'
    BY <1>1, SameRecords
<1> QED
    BY <1>2, <1>4, <1>5, <1>6, <1>7, <1>8, <1>9, <1>10

\* A start works out from the records what the run before it knew, and what it goes by: of the
\* earlier trades of its day it counts the sell-backs from when they were made.
LEMMA StartKnows ==
    ASSUME LRest, run' = run + 1, began' = now, UNCHANGED rows, NEW r \in rows
    PROVE  /\ r.run # run' /\ L!From(r)' = r.at
           /\ L!Knows(r)' => L!DayOf(r.at) = L!DayOf(now) /\ L!Knows(r)
<1>1. r.run <= run /\ r.run \in Nat /\ run \in Nat
    BY RowIs, LimitTimes DEF LRest, L!TypeOK
<1>2. r.run # run' /\ L!From(r)' = r.at
    BY <1>1 DEF L!From
<1>3. ASSUME L!Knows(r)' PROVE L!DayOf(r.at) = L!DayOf(now) /\ L!Knows(r)
    <2>1. L!DayOf(r.at) = L!DayOf(now)
        BY <1>2, <1>3 DEF L!Knows
    <2>2. CASE r.run < run
        <3>1. r.at <= began /\ began <= now /\ r.at \in Nat /\ began \in Nat /\ now \in Nat
            BY <2>2, RowIs, LimitNow DEF LRest, Numbered, L!TypeOK
        <3>2. /\ L!DayOf(r.at) <= L!DayOf(began) /\ L!DayOf(began) <= L!DayOf(now)
              /\ L!DayOf(r.at) \in Nat /\ L!DayOf(began) \in Nat /\ L!DayOf(now) \in Nat
            BY <3>1, DaysPass
        <3> QED  BY <2>1, <3>2 DEF L!Knows
    <2>3. CASE r.run = run
        BY <2>1, <2>3 DEF L!Knows
    <2> QED  BY <1>1, <2>2, <2>3
<1> QED
    BY <1>2, <1>3

LEMMA LimitStarts ==
    ASSUME LInv, L!Starts
    PROVE  LInv'
<1> USE DEF LInv, LRest
<1> DEFINE s == {r \in Of(L!DayOf(now)) : r.how = "sold"}
           late == IF s = {} THEN 0 ELSE L!Max({r.at : r \in s})
           rests(m) == {r.at + Rest : r \in {x \in s : m \in x.pair}}
           again == {x \in s : x.at > late - Hour}
<1>1. /\ ~up /\ run < MaxRuns /\ up' = TRUE /\ run' = run + 1 /\ began' = now /\ hours' = FALSE
      /\ UNCHANGED <<now, busy, halted, rows, resumed>>
    BY DEF L!Starts
<1>2. /\ count' = [day |-> L!DayOf(now), n |-> Cardinality(Of(L!DayOf(now)))]
      /\ cooling' = [m \in L!Markets |-> IF rests(m) = {} THEN 0 ELSE L!Max(rests(m))]
      /\ sold' = {[n |-> r.n, at |-> r.at] : r \in again}
    BY SameCount DEF L!Starts, L!Remembered, Of
<1>3. busy = L!NoTrade /\ s \subseteq rows
    BY <1>1 DEF Underway, Of
<1>4. \A r \in rows : /\ r.run # run' /\ L!From(r)' = r.at /\ r.at <= L!From(r) /\ L!From(r) <= now
                      /\ r.at \in Nat /\ r.at <= now /\ L!From(r) \in Nat
                      /\ L!Knows(r)' => L!DayOf(r.at) = L!DayOf(now) /\ L!Knows(r)
    BY <1>1, StartKnows, RowIs, LimitNow
<1>5. \A r \in rows : r.how = "sold" /\ L!Knows(r)' => r \in s
    BY <1>4 DEF Of
<1>6. ASSUME NEW m \in L!Markets
      PROVE  /\ cooling'[m] \in 0..MaxNow + Rest
             /\ \A r \in s : m \in r.pair => r.at + Rest <= cooling'[m]
    <2>1. \A x \in rests(m) : x \in Nat /\ x <= MaxNow + Rest
        BY <1>3, <1>4, LimitNow, LimitTimes
    <2>2. cooling'[m] = IF rests(m) = {} THEN 0 ELSE L!Max(rests(m))
        BY <1>2
    <2>3. rests(m) # {} => L!Max(rests(m)) \in rests(m) /\ \A y \in rests(m) : y <= L!Max(rests(m))
        <3>1. rests(m) \in SUBSET Nat /\ MaxNow + Rest \in Nat /\ \A x \in rests(m) : x <= MaxNow + Rest
            BY <2>1, LimitTimes
        <3> HIDE DEF rests
        <3> QED  BY <3>1, GreatestIsMax
    <2>4. \A r \in s : m \in r.pair => r.at + Rest \in rests(m)
        OBVIOUS
    <2> HIDE DEF rests, s
    <2> QED  BY <2>1, <2>2, <2>3, <2>4, LimitTimes
<1>7. late \in Nat /\ late <= now
    <2> DEFINE ats == {r.at : r \in s}
    <2>1. ats \in SUBSET Nat /\ \A x \in ats : x <= now
        BY <1>3, <1>4
    <2>2. s # {} => ats # {}
        OBVIOUS
    <2>3. late = IF s = {} THEN 0 ELSE L!Max(ats)
        OBVIOUS
    <2> HIDE DEF ats, s, late
    <2>4. s # {} => L!Max(ats) \in ats
        BY <2>1, <2>2, GreatestIsMax, LimitNow
    <2>5. s # {} => late \in ats
        BY <2>3, <2>4
    <2>6. s = {} => late = 0
        BY <2>3
    <2>7. CASE s = {}
        BY <2>6, <2>7, LimitNow
    <2>8. CASE s # {}
        BY <2>1, <2>5, <2>8
    <2> QED  BY <2>7, <2>8
<1>8. /\ again \subseteq rows /\ sold' \subseteq [n : 1..MaxTrades, at : 0..now] /\ IsFiniteSet(sold')
    <2>4. again \subseteq rows
        BY <1>3
    <2>5. \A r \in rows : [n |-> r.n, at |-> r.at] \in [n : 1..MaxTrades, at : 0..now]
        BY <1>4, RowIs, LimitNow
    <2>1. again \subseteq rows /\ sold' \subseteq [n : 1..MaxTrades, at : 0..now]
        <3> HIDE DEF again
        <3> QED  BY <1>2, <2>4, <2>5
    <2> DEFINE f == [r \in again |-> [n |-> r.n, at |-> r.at]]
    <2>2. f \in Surjection(again, sold')
        BY <1>2 DEF Surjection
    <2>3. IsFiniteSet(again)
        BY <2>1, FS_Subset DEF Numbered
    <2> HIDE DEF f, again
    <2> QED  BY <2>1, <2>2, <2>3, FS_Surjection
<1>9. count'.day = L!DayOf(now) /\ count'.n = Cardinality(Of(L!DayOf(now)))
    BY <1>2
<1> HIDE DEF s, late, rests, again
<1>10. L!DayOf(now) \in 0..L!DayOf(MaxNow) /\ Cardinality(Of(L!DayOf(now))) \in 0..PerDay
    BY Counts, LimitNow, LimitTimes, DaysPass DEF Counted
<1>11. L!TypeOK'
    <2>1. count'.day \in 0..L!DayOf(MaxNow)' /\ count'.n \in 0..PerDay
        BY <1>9, <1>10
    <2>2. run' \in 0..MaxRuns /\ began' \in 0..now
        BY <1>1, LimitNow, LimitTimes DEF L!TypeOK
    <2>3. up' \in BOOLEAN /\ hours' \in BOOLEAN
        BY <1>1, Zenon
    <2> QED  BY <1>1, <1>6, <1>8, <2>1, <2>2, <2>3 DEF L!TypeOK
<1>12. Numbered'
    <2>1. \A r \in rows : r.run <= run'
        BY <1>1, RowIs, LimitTimes DEF L!TypeOK
    <2> QED  BY <1>1, <1>4, <1>8, <2>1 DEF Numbered
<1>13. Counted'
    <2>1. Of(L!DayOf(now))' = Of(L!DayOf(now)) /\ Today' = 0
        BY <1>1, <1>3 DEF Of, Today
    <2>2. L!TradesToday' = Cardinality(Of(L!DayOf(now)))
        BY <1>1, <1>9 DEF L!TradesToday
    <2> QED  BY <1>10, <2>1, <2>2 DEF Counted
<1>14. Rested'
    <2> SUFFICES ASSUME NEW r \in rows, NEW m \in r.left, r.how = "sold", L!Knows(r)'
                 PROVE  L!From(r)' + Rest <= cooling'[m]
        BY <1>1, <1>4 DEF Rested
    <2>1. m \in L!Markets /\ m \in r.pair
        BY RowIs DEF Numbered
    <2> QED  BY <1>4, <1>5, <1>6, <2>1
<1>15. Listed'
    <2> SUFFICES ASSUME NEW r \in rows, r.how = "sold", L!Knows(r)', L!From(r)' > now - Hour
                 PROVE  [n |-> r.n, at |-> L!From(r)'] \in sold'
        BY <1>1 DEF Listed
    <2>1. r \in again
        BY <1>4, <1>5, <1>7, LimitNow, LimitTimes DEF again
    <2> QED  BY <1>2, <1>4, <2>1
<1>16. Broken'
    <2>1. Recently' \subseteq Recently
        BY <1>1, <1>4, LimitNow, LimitTimes DEF Recently
    <2>2. Cardinality(Recently') <= Cardinality(Recently) /\ Cardinality(Recently') \in Nat
        <3>1. IsFiniteSet(Recently) /\ Cardinality(Recently) \in Nat
            BY Counts
        <3> QED  BY <2>1, <3>1, FS_Subset, FS_CardinalityType
    <2> QED  BY <1>1, <2>2, Counts, LimitTimes DEF Broken
<1>17. Underway' /\ LimitsKept'
    BY <1>1, <1>3, LimitTimes DEF Underway, LimitsKept, L!TypeOK
<1> QED
    BY <1>11, <1>12, <1>13, <1>14, <1>15, <1>16, <1>17

\* As many numbered records as there are entries of a list that has each.
LEMMA EachListed ==
    ASSUME NEW S, NEW T, IsFiniteSet(T), \A r, q \in S : r.n = q.n => r = q,
           NEW at, \A r \in S : [n |-> r.n, at |-> at[r]] \in T
    PROVE  Cardinality(S) <= Cardinality(T)
<1> DEFINE f == [r \in S |-> [n |-> r.n, at |-> at[r]]]
<1>1. \A r \in S : f[r].n = r.n
    OBVIOUS
<1>2. f \in [S -> T]
    OBVIOUS
<1> HIDE DEF f
<1>3. f \in Injection(S, T)
    BY <1>1, <1>2 DEF Injection, IsInjective
<1> QED
    BY <1>3, FS_Injection

\* The trade is written up: what it leaves to be let alone cools, and a sell-back is listed, and
\* trips the breaker if it is one too many.
LEMMA LimitFinishes ==
    ASSUME LInv, NEW how \in {"done", "missed", "sold"}, L!Finishes(how)
    PROVE  LInv'
<1> USE DEF LInv, LRest
<1> DEFINE until == now + (IF how = "sold" THEN Rest ELSE Cool)
           n == Cardinality(rows) + 1
<1>1. PICK left \in L!LeftAlone(how) :
        /\ rows' = rows \cup {[n |-> n, run |-> run, pair |-> busy.pair, at |-> busy.at,
                               end |-> now, how |-> how, left |-> left]}
        /\ cooling' = IF left = {} THEN cooling ELSE L!Cooled(cooling, left, until)
        /\ IF how = "sold" THEN /\ sold' = L!SoldBack(sold, n, now)
                                /\ halted' = (halted \/ L!Trips(L!SoldBack(sold, n, now)))
           ELSE UNCHANGED <<sold, halted>>
    BY SameCount DEF L!Finishes
<1>2. /\ busy # L!NoTrade /\ busy' = L!NoTrade
      /\ UNCHANGED <<now, run, began, up, count, hours, resumed>>
    BY DEF L!Finishes
<1>3. /\ up /\ run \in 1..MaxRuns /\ busy.pair \in Pairs /\ n \in 1..MaxTrades /\ Cardinality(rows) \in Nat
      /\ now \in 0..MaxNow /\ now \in Nat /\ busy.at \in 0..MaxNow /\ busy.at \in Nat /\ busy.at <= now
    BY <1>2, Counts, LimitNow, LimitTimes DEF Underway, L!TypeOK
<1>4. left \subseteq L!Markets /\ (how = "sold" => left = busy.pair)
    BY <1>3 DEF L!LeftAlone, L!Markets
<1> DEFINE new == [n |-> n, run |-> run, pair |-> busy.pair, at |-> busy.at,
                   end |-> now, how |-> how, left |-> left]
<1>5. /\ rows' = rows \cup {new} /\ new \in L!Row
      /\ new.n = n /\ new.run = run /\ new.pair = busy.pair /\ new.at = busy.at /\ new.end = now
      /\ new.how = how /\ new.left = left
    BY <1>1, <1>3, <1>4 DEF L!Row
<1> HIDE DEF new
<1>6. \A r \in rows : r.n # n /\ r.n \in Nat /\ r.n <= Cardinality(rows)
    BY <1>3, RowIs DEF Numbered
<1>7. new \notin rows /\ Cardinality(rows') = n /\ IsFiniteSet(rows')
    BY <1>5, <1>6, FS_AddElement DEF Numbered
<1>8. until \in Nat /\ until <= MaxNow + Rest /\ until >= now
    BY <1>3, LimitTimes
<1>9. ASSUME NEW m \in L!Markets
      PROVE  /\ cooling'[m] \in 0..MaxNow + Rest /\ (cooling[m] <= now \/ cooling'[m] >= cooling[m])
             /\ m \in left => cooling'[m] >= until
    <2>1. cooling[m] \in 0..MaxNow + Rest
        BY DEF L!TypeOK
    <2>2. CASE left = {}
        BY <1>1, <2>1, <2>2, LimitTimes
    <2>3. CASE left # {}
        <3> DEFINE t == IF cooling[m] > now THEN cooling[m] ELSE 0
        <3>1. cooling'[m] = IF m \in left THEN L!Most(t, until) ELSE t
            BY <1>1, <2>3 DEF L!Cooled
        <3> QED  BY <1>3, <1>8, <2>1, <3>1, LimitTimes DEF L!Most
    <2> QED  BY <2>2, <2>3
<1>10. /\ sold' \subseteq [n : 1..MaxTrades, at : 0..now] /\ IsFiniteSet(sold')
       /\ \A x \in sold : x.at > now - Hour \/ how # "sold" => x \in sold'
       /\ how = "sold" => [n |-> n, at |-> now] \in sold'
    <2> DEFINE one == [n |-> n, at |-> now]
               held == {x \in sold : x.at > now - Hour}
    <2>1. CASE how = "sold"
        <3>1. sold' = held \cup {one}
            BY <1>1, <2>1 DEF L!SoldBack
        <3>2. one \in [n : 1..MaxTrades, at : 0..now]
            BY <1>3
        <3>3. held \subseteq sold /\ IsFiniteSet(held)
            BY FS_Subset DEF Numbered
        <3>4. \A x \in sold : x.at > now - Hour => x \in held
            OBVIOUS
        <3> HIDE DEF one, held
        <3>5. IsFiniteSet(held \cup {one})
            BY <3>3, FS_AddElement
        <3>6. one \in sold' /\ sold' \subseteq [n : 1..MaxTrades, at : 0..now]
            BY <3>1, <3>2, <3>3 DEF L!TypeOK
        <3> QED  BY <2>1, <3>1, <3>4, <3>5, <3>6 DEF one
    <2>2. CASE how # "sold"
        BY <1>1, <2>2 DEF L!TypeOK, Numbered
    <2> QED  BY <2>1, <2>2
<1>11. (halted => halted') /\ halted' \in BOOLEAN /\ (how = "sold" /\ ~halted' => Cardinality(sold') < PerHour)
    <2>1. CASE how = "sold"
        <3>1. Cardinality(sold') \in Nat
            BY <1>10, FS_CardinalityType
        <3>2. halted' = (halted \/ Cardinality(sold') >= PerHour)
            BY <1>1, <2>1, SameCount DEF L!Trips
        <3>3. halted' \in BOOLEAN /\ (halted => halted') /\ (~halted' => ~(Cardinality(sold') >= PerHour))
            BY <3>2, Zenon
        <3> QED  BY <3>1, <3>3, LimitTimes
    <2>2. CASE how # "sold"
        BY <1>1, <2>2 DEF L!TypeOK
    <2> QED  BY <2>1, <2>2
<1>12. \A r : (L!Knows(r)' <=> L!Knows(r)) /\ L!From(r)' = L!From(r)
    BY <1>2 DEF L!Knows, L!From
<1>13. L!From(new) = now /\ L!Knows(new)
    BY <1>5 DEF L!From, L!Knows
<1> HIDE DEF n, until
<1>14. L!TypeOK'
    <2>1. L!NoTrade \in [pair : Pairs \cup {{}}, at : 0..now, hours : BOOLEAN]
        BY LimitNow DEF L!NoTrade
    <2>2. rows' \subseteq L!Row
        BY <1>5 DEF L!TypeOK
    <2> QED  BY <1>2, <1>9, <1>10, <1>11, <2>1, <2>2 DEF L!TypeOK
<1>15. Numbered'
    <2>1. \A r, q \in rows' : r.n = q.n => r = q
        BY <1>5, <1>6 DEF Numbered
    <2>2. \A r \in rows' : /\ r.n <= n /\ r.run <= run /\ r.at <= r.end /\ r.end <= now
                           /\ r.how = "sold" => r.left = r.pair
                           /\ r.run < run => r.at <= began
        <3>1. ASSUME NEW r \in rows
              PROVE  /\ r.n <= n /\ r.run <= run /\ r.at <= r.end /\ r.end <= now
                     /\ r.how = "sold" => r.left = r.pair
                     /\ r.run < run => r.at <= began
            BY <1>3, <1>6 DEF n, Numbered
        <3>2. /\ new.n <= n /\ new.run <= run /\ new.at <= new.end /\ new.end <= now
              /\ new.how = "sold" => new.left = new.pair
              /\ new.run < run => new.at <= began
            BY <1>3, <1>4, <1>5
        <3>3. ASSUME NEW r \in rows', r = new
              PROVE  /\ r.n <= n /\ r.run <= run /\ r.at <= r.end /\ r.end <= now
                     /\ r.how = "sold" => r.left = r.pair
                     /\ r.run < run => r.at <= began
            BY <3>2, <3>3, Zenon
        <3>4. \A r \in rows' : r \in rows \/ r = new
            BY <1>5
        <3> QED  BY <3>1, <3>3, <3>4
    <2> QED  BY <1>2, <1>3, <1>7, <1>10, <2>1, <2>2 DEF Numbered
<1>16. Counted'
    <2>1. /\ L!TradesToday' = L!TradesToday /\ Today' = 0
          /\ Of(L!DayOf(now))' = {r \in rows' : L!DayOf(r.at) = L!DayOf(now)}
        BY <1>2 DEF L!TradesToday, Today, Of
    <2>2. /\ Cardinality(Of(L!DayOf(now))) + Today <= L!TradesToday
          /\ IsFiniteSet(Of(L!DayOf(now))) /\ Cardinality(Of(L!DayOf(now))) \in Nat
        BY <1>3, Counts DEF Counted
    <2>3. Cardinality(Of(L!DayOf(now))') = Cardinality(Of(L!DayOf(now))) + Today
        <3>1. CASE L!DayOf(busy.at) = L!DayOf(now)
            <4>1. /\ Of(L!DayOf(now))' = Of(L!DayOf(now)) \cup {new} /\ new \notin Of(L!DayOf(now))
                  /\ Today = 1
                BY <1>2, <1>5, <1>7, <2>1, <3>1 DEF Of, Today
            <4>2. Cardinality(Of(L!DayOf(now)) \cup {new}) = Cardinality(Of(L!DayOf(now))) + 1
                BY <2>2, <4>1, FS_AddElement
            <4> QED  BY <4>1, <4>2
        <3>2. CASE L!DayOf(busy.at) # L!DayOf(now)
            <4>1. Of(L!DayOf(now))' = Of(L!DayOf(now)) /\ Today = 0
                BY <1>5, <2>1, <3>2 DEF Of, Today
            <4> QED  BY <2>2, <4>1
        <3> QED  BY <3>1, <3>2
    <2>4. L!TradesToday <= PerDay /\ L!TradesToday \in Nat /\ Today \in 0..1
        BY LimitNow, LimitTimes DEF Today
    <2> QED  BY <1>2, <2>1, <2>2, <2>3, <2>4, LimitTimes DEF Counted
<1>17. Rested'
    <2> SUFFICES ASSUME NEW r \in rows', NEW m \in r.left
                 PROVE  /\ r.how = "sold" /\ L!Knows(r) =>
                            L!From(r) + Rest <= now \/ L!From(r) + Rest <= cooling'[m]
                        /\ r.how = "missed" /\ r.run = run =>
                            r.end + Cool <= now \/ r.end + Cool <= cooling'[m]
        BY <1>2, <1>12 DEF Rested
    <2>1. CASE r = new
        BY <1>3, <1>4, <1>5, <1>9, <1>13, <2>1, LimitTimes DEF until
    <2>2. CASE r \in rows
        <3>1. m \in L!Markets /\ L!From(r) \in Nat /\ r.end \in Nat
            BY <2>2, RowIs
        <3>2. cooling[m] \in 0..MaxNow + Rest /\ cooling'[m] \in 0..MaxNow + Rest
            BY <1>9, <3>1 DEF L!TypeOK
        <3>3. cooling[m] <= now \/ cooling'[m] >= cooling[m]
            BY <1>9, <3>1
        <3>4. /\ r.how = "sold" /\ L!Knows(r) =>
                     L!From(r) + Rest <= now \/ L!From(r) + Rest <= cooling[m]
              /\ r.how = "missed" /\ r.run = run =>
                     r.end + Cool <= now \/ r.end + Cool <= cooling[m]
            BY <1>3, <2>2 DEF Rested
        <3> QED  BY <1>3, <3>1, <3>2, <3>3, <3>4, LimitTimes
    <2> QED  BY <1>5, <2>1, <2>2
<1>18. Listed'
    <2> SUFFICES ASSUME NEW r \in rows', r.how = "sold", L!Knows(r), L!From(r) > now - Hour
                 PROVE  [n |-> r.n, at |-> L!From(r)] \in sold'
        BY <1>2, <1>12 DEF Listed
    <2>1. CASE r = new
        BY <1>5, <1>10, <1>13, <2>1
    <2>2. CASE r \in rows
        BY <1>3, <1>10, <2>2 DEF Listed
    <2> QED  BY <1>5, <2>1, <2>2
<1>19. Broken'
    <2> SUFFICES ASSUME ~halted' PROVE Cardinality(Recently') < PerHour
        BY DEF Broken
    <2>1. Recently' = {r \in rows' : r.how = "sold" /\ L!Knows(r) /\ r.n > resumed /\ L!From(r) > now - Hour}
        BY <1>2, <1>12 DEF Recently
    <2>2. CASE how = "sold"
        <3> DEFINE at == [r \in rows' |-> L!From(r)]
        <3>1. \A r \in Recently' : r \in rows' /\ [n |-> r.n, at |-> at[r]] \in sold'
            BY <1>2, <1>3, <1>12, <1>18, <2>1 DEF Listed
        <3>2. \A r, q \in Recently' : r.n = q.n => r = q
            BY <1>15, <3>1 DEF Numbered
        <3> HIDE DEF at
        <3>3. Cardinality(Recently') <= Cardinality(sold')
            BY <1>10, <3>1, <3>2, EachListed
        <3>4. Cardinality(sold') \in Nat /\ IsFiniteSet(Recently')
            BY <1>7, <1>10, <3>1, FS_Subset, FS_CardinalityType
        <3>5. Cardinality(Recently') \in Nat
            BY <3>4, FS_CardinalityType
        <3> QED  BY <1>11, <2>2, <3>3, <3>4, <3>5, LimitTimes
    <2>3. CASE how # "sold"
        <3>1. Recently' = Recently
            BY <1>5, <2>1, <2>3 DEF Recently
        <3> QED  BY <1>11, <3>1 DEF Broken
    <2> QED  BY <2>2, <2>3
<1>20. Underway' /\ LimitsKept'
    BY <1>2, <1>3 DEF Underway, LimitsKept
<1> QED
    BY <1>14, <1>15, <1>16, <1>17, <1>18, <1>19, <1>20

LEMMA LimitStep ==
    ASSUME LInv, [L!Next]_(L!vars)
    PROVE  LInv'
<1>1. CASE L!ReadExchange \/ L!Ends \/ UNCHANGED L!vars
    <2>1. up \in BOOLEAN /\ hours \in BOOLEAN
        BY DEF LInv, LRest, L!TypeOK
    <2>2. CASE L!ReadExchange
        <3>1. hours' \in BOOLEAN
            BY <2>2, Zenon DEF L!ReadExchange
        <3> QED  BY <2>1, <2>2, <3>1, LimitCalm DEF L!ReadExchange
    <2>3. CASE L!Ends
        <3>1. up' \in BOOLEAN
            BY <2>3, Zenon DEF L!Ends
        <3> QED  BY <2>1, <2>3, <3>1, LimitCalm DEF L!Ends
    <2>4. CASE UNCHANGED L!vars
        BY <2>1, <2>4, LimitCalm DEF L!vars
    <2> QED  BY <1>1, <2>2, <2>3, <2>4
<1> QED
    BY <1>1, LimitDecides, LimitFinishes, LimitResumes, LimitTick, LimitStarts DEF L!Next

\* A trade that keeps within the margin is over before what it was to be over before.
LEMMA LimitsHeld ==
    ASSUME LInv
    PROVE  L!WithinTheLimits
<1>0. ASSUME busy # L!NoTrade, ~L!ClockKept PROVE now <= busy.at + Margin
    BY <1>0 DEF L!ClockKept
<1> SUFFICES ASSUME busy # L!NoTrade, now <= busy.at + Margin PROVE L!ClockKept
    BY <1>0 DEF LInv, LimitsKept, L!WithinTheLimits
<1>1. /\ busy.pair \in Pairs /\ busy.at <= now
      /\ busy.hours => {busy.at, busy.at + Margin} \cap Shut = {}
      /\ busy.at < StartOf[busy.pair] - Margin \/ busy.at >= StartOf[busy.pair] + Opening
    BY DEF LInv, Underway
<1>2. busy.at \in 0..MaxNow /\ now \in busy.at..(busy.at + Margin)
    BY <1>1, LimitNow, LimitTimes DEF LInv
<1>3. busy.hours => now \notin Shut
    BY <1>1, <1>2, LimitTimes
<1>4. now < StartOf[busy.pair] \/ busy.at >= StartOf[busy.pair] + Opening
    BY <1>1, <1>2, LimitTimes
<1> QED
    BY <1>3, <1>4 DEF L!ClockKept

-----------------------------------------------------------------------------
(* The parts together *)

AllKept == /\ part = "window" => WInv
           /\ part = "limits" => LInv
           /\ part = "check" => BInv

LEMMA TradingInit == MCInit => AllKept
    BY WindowInit, LimitInit, CheckInit DEF MCInit, AllKept

\* A step is one of the part's own.
LEMMA TradingParts ==
    ASSUME [MCNext]_vars
    PROVE  /\ part' = part
           /\ part = "window" => [W!Next]_(W!vars)
           /\ part = "limits" => [L!Next]_(L!vars)
           /\ part = "check" => [Check!Next]_(Check!vars)
<1>1. CASE MCNext
    BY <1>1 DEF MCNext
<1>2. CASE UNCHANGED vars
    BY <1>2 DEF vars, window, limits, checks, W!vars, L!vars, Check!vars
<1> QED
    BY <1>1, <1>2

LEMMA TradingStep == AllKept /\ [MCNext]_vars => AllKept'
<1> SUFFICES ASSUME AllKept, [MCNext]_vars PROVE AllKept'
    OBVIOUS
<1>1. part' = part
    BY TradingParts
<1>2. part = "window" => WInv'
    BY TradingParts, WindowStep DEF AllKept
<1>3. part = "limits" => LInv'
    BY TradingParts, LimitStep DEF AllKept
<1>4. part = "check" => BInv'
    BY TradingParts, CheckStep DEF AllKept
<1> QED
    BY <1>1, <1>2, <1>3, <1>4 DEF AllKept

LEMMA TradingInvariant == MCSpec => []AllKept
    BY TradingInit, TradingStep, PTL DEF MCSpec

\* The type invariants, of whatever times, limits and pairs of markets.
THEOREM TradingTypes == MCSpec => []TypesOK
<1>1. BInv => Check!TypeOK
    BY DEF BInv, Wired, Shown, Aged, Check!TypeOK
<1>2. AllKept => TypesOK
    BY <1>1 DEF AllKept, WInv, WRest, LInv, LRest, TypesOK
<1> QED
    BY <1>2, TradingInvariant, PTL

\* A window is on record once, through stops, kills and resumptions (Episodes._resume).
THEOREM OnRecordOnce == MCSpec => []RecordedOnce
<1>1. AllKept => RecordedOnce
    BY DEF AllKept, WInv, WRest, RecordedOnce
<1> QED
    BY <1>1, TradingInvariant, PTL

\* A window is traded at most once in a run, and one that could be traded is looked at again
\* no later than it is due (PaperTrader.consider, _wake).
THEOREM TakenOnceAndWhenDue == MCSpec => TakenWhenDue
<1>1. AllKept => (part = "window" => W!LooksAgain)
    BY DEF AllKept, WInv
<1>2. AllKept /\ [MCNext]_vars => [part = "window" => W!TakesOnce]_vars
    BY TradingParts, WindowStep DEF AllKept
<1> QED
    BY <1>1, <1>2, TradingInvariant, PTL DEF MCSpec, TakenWhenDue

\* A trade is only made when the limits allow it, by the records, whatever restarts and
\* resumptions there were (LiveGuard, LiveTrader.__init__).
THEOREM LimitsHold == MCSpec => []WithinTheLimits
<1>1. AllKept => WithinTheLimits
    BY LimitsHeld DEF AllKept, WithinTheLimits
<1> QED
    BY <1>1, TradingInvariant, PTL

\* A Polymarket US book that may be traded on is at least as new as the exchange's was
\* MAX_AGE_S ago, and never goes back while it is up (BookCheck.ok, PMBook.update).
THEOREM BooksVouched == MCSpec => Vouched
<1>1. AllKept => (part = "check" => Check!Vouched)
    BY CheckVouched DEF AllKept
<1>2. AllKept /\ [MCNext]_vars => [part = "check" => Check!Onward]_vars
    BY TradingParts, CheckOnward DEF AllKept
<1> QED
    BY <1>1, <1>2, TradingInvariant, PTL DEF MCSpec, Vouched

-----------------------------------------------------------------------------
(* Pricing *)


LEMMA PricingConstants ==
    /\ Ticks \in Nat /\ Ticks > 0 /\ Parts \in Nat /\ Parts > 0 /\ Per \in Nat /\ Per > 0
    /\ Coef \in Nat /\ Coef <= Per /\ MaxLevels \in Nat
    /\ \A p \in Prices : p \in 1..Ticks /\ Ticks - p \in 1..Ticks
    /\ \A q \in Qtys : q \in Nat \ {0}
    /\ \A n \in Budgets : n \in Nat
    /\ \A n \in Asked : n \in Nat
    /\ \A n \in Edges : n \in Nat
BY TradingAssumption DEF UnitsFit, BooksFit

LEMMA TimesNat == ASSUME NEW a \in Nat, NEW b \in Nat PROVE a * b \in Nat
OBVIOUS

LEMMA OneMore ==
    ASSUME NEW a \in Nat, NEW b \in Nat
    PROVE  (a + 1) * b = a * b + b
OBVIOUS

LEMMA TimesUp == ASSUME NEW c \in Nat, NEW a \in Int, NEW b \in Int, a <= b PROVE c * a <= c * b /\ a * c <= b * c
OBVIOUS

\* A higher price costs more, fee included: what the fee falls by is less than the rise.
LEMMA UnitGrows ==
    ASSUME NEW p \in 0..Ticks, NEW q \in 0..Ticks, p <= q
    PROVE  Unit(p) \in Nat /\ Unit(q) \in Nat /\ Unit(p) <= Unit(q) /\ (p > 0 => Unit(p) > 0)
<1> DEFINE T == Ticks
           P == Per
           C == Coef
           d == q - p
           x == p * (T - p)
           y == q * (T - q)
<1>1. /\ T \in Nat /\ P \in Nat /\ P > 0 /\ T > 0 /\ C \in Nat /\ C <= P /\ p \in Nat /\ q \in Nat /\ d \in Nat
      /\ q = p + d /\ T - p \in Nat /\ T - q \in Nat /\ p <= T /\ q <= T
    BY PricingConstants
<1>2. x \in Nat /\ y \in Nat /\ Unit(p) = p * T * P + C * p * (T - p) /\ Unit(q) = q * T * P + C * q * (T - q)
    BY <1>1, TimesNat DEF Unit
<1> HIDE DEF T, P, C, d
<1>3. C * p * (T - p) = C * x /\ C * q * (T - q) = C * y
    BY <1>1
<1>4. y + d * T - x = d * ((T - p) + (T - q))
    BY <1>1
<1>5. d * ((T - p) + (T - q)) \in Nat
    BY <1>1, TimesNat
<1> HIDE DEF x, y
<1>6. d * T \in Nat /\ C * (d * T) <= P * (d * T)
    BY <1>1, TimesNat, TimesUp
<1>7. C * x <= C * (y + d * T)
    <2>1. x <= y + d * T
        BY <1>1, <1>2, <1>4, <1>5, <1>6
    <2> QED
        BY <1>1, <1>2, <1>6, <2>1, TimesUp
<1>8. C * (y + d * T) = C * y + C * (d * T)
    BY <1>1, <1>2, <1>6
<1>9. q * T * P = p * T * P + P * (d * T)
    BY <1>1
<1>10. C * x \in Nat /\ C * y \in Nat /\ p * T \in Nat /\ p * T * P \in Nat /\ q * T * P \in Nat
       /\ C * (d * T) \in Nat /\ P * (d * T) \in Nat
    BY <1>1, <1>2, <1>6, TimesNat
<1>11. p > 0 => p * T * P > 0
    <2>1. p > 0 => p * T > 0
        BY <1>1
    <2> QED
        BY <1>1, <1>10, <2>1
<1> DEFINE a == C * x
           b == C * y
           e == p * T * P
           f == q * T * P
           g == C * (d * T)
           h == P * (d * T)
<1>12. /\ a \in Nat /\ b \in Nat /\ e \in Nat /\ f \in Nat /\ g \in Nat /\ h \in Nat
       /\ a <= b + g /\ g <= h /\ f = e + h /\ (p > 0 => e > 0) /\ Unit(p) = e + a /\ Unit(q) = f + b
    BY <1>2, <1>3, <1>6, <1>7, <1>8, <1>9, <1>10, <1>11
<1> HIDE DEF a, b, e, f, g, h
<1> QED
    BY <1>12

-----------------------------------------------------------------------------
(* Sums of naturals *)

Adds(f, S) == IsFiniteSet(S) /\ \A x \in S : f[x] \in Nat

LEMMA SumOfPart ==
    ASSUME NEW f, NEW S, Adds(f, S), NEW R, R \subseteq S
    PROVE  /\ SumFunctionOnSet(f, S) \in Nat /\ SumFunctionOnSet(f, R) \in Nat
           /\ SumFunctionOnSet(f, R) <= SumFunctionOnSet(f, S)
           /\ R = {} => SumFunctionOnSet(f, R) = 0
           /\ \A x \in R : f[x] <= SumFunctionOnSet(f, R)
           /\ \A x \in S : SumFunctionOnSet(f, S) = f[x] + SumFunctionOnSet(f, S \ {x})
<1>1. IsFiniteSet(S) /\ (\A x \in S : f[x] \in Int) /\ \A x \in S : f[x] \in Nat
    BY DEF Adds
<1>2. IsFiniteSet(R) /\ (\A x \in R : f[x] \in Nat) /\ \A x \in R : f[x] \in Int
    BY <1>1, FS_Subset
<1>3. IsFiniteSet(S \ R) /\ (\A x \in S \ R : f[x] \in Nat)
    BY <1>1, FS_Subset
<1>4. /\ SumFunctionOnSet(f, S) \in Nat /\ SumFunctionOnSet(f, R) \in Nat
      /\ SumFunctionOnSet(f, S \ R) \in Nat
      /\ \A x \in R : f[x] <= SumFunctionOnSet(f, R)
    <2>1. SumFunctionOnSet(f, S) \in Nat
        BY <1>1, SumNat
    <2>2. SumFunctionOnSet(f, R) \in Nat /\ \A x \in R : f[x] <= SumFunctionOnSet(f, R)
        BY <1>2, SumNat
    <2>3. SumFunctionOnSet(f, S \ R) \in Nat
        BY <1>3, SumNat
    <2> QED
        BY <2>1, <2>2, <2>3
<1>5. SumFunctionOnSet(f, S) = SumFunctionOnSet(f, R) + SumFunctionOnSet(f, S \ R)
    BY <1>1, SumSplit
<1>6. \A x \in S : SumFunctionOnSet(f, S) = f[x] + SumFunctionOnSet(f, S \ {x})
    BY <1>1, SumTakes
<1>7. R = {} => SumFunctionOnSet(f, R) = 0
    BY SumNothing
<1>8. SumFunctionOnSet(f, R) <= SumFunctionOnSet(f, S)
    BY ONLY <1>4, <1>5
<1>9. /\ SumFunctionOnSet(f, S) \in Nat /\ SumFunctionOnSet(f, R) \in Nat
      /\ \A x \in R : f[x] <= SumFunctionOnSet(f, R)
    BY <1>4
<1> QED
    BY ONLY <1>6, <1>7, <1>8, <1>9, Zenon

-----------------------------------------------------------------------------
(* Ladders *)

Level == [price : 1..Ticks, qty : Nat \ {0}]

\* A ladder as the code makes them: best first, no price twice, no level of nothing.
Good(L1) ==
    /\ L1 \in Seq(Level)
    /\ \A i, j \in 1..Len(L1) : i < j => L1[i].price < L1[j].price

Quantity(L1) == [i \in DOMAIN L1 |-> L1[i].qty]
Under(L1, p) == {i \in DOMAIN L1 : L1[i].price <= p}

LEMMA UpToSum ==
    ASSUME NEW L1, NEW p
    PROVE  UpTo(L1, p) = SumFunctionOnSet(Quantity(L1), Under(L1, p))
BY DEF UpTo, Quantity, Under

\* The numbers of a ladder's levels.
LEMMA Levels ==
    ASSUME NEW L1, Good(L1)
    PROVE  /\ Len(L1) \in Nat /\ DOMAIN L1 = 1..Len(L1) /\ IsFiniteSet(DOMAIN L1)
           /\ \A i \in 1..Len(L1) : /\ L1[i] \in Level /\ L1[i].price \in 1..Ticks /\ L1[i].qty \in Nat /\ L1[i].qty > 0
                                      /\ Quantity(L1)[i] = L1[i].qty
           /\ \A i, j \in 1..Len(L1) : L1[i].price = L1[j].price => i = j
           /\ \A i, j \in 1..Len(L1) : i <= j <=> L1[i].price <= L1[j].price
           /\ Adds(Quantity(L1), DOMAIN L1)
<1>1. L1 \in Seq(Level) /\ \A i, j \in 1..Len(L1) : i < j => L1[i].price < L1[j].price
    BY DEF Good
<1>2. Len(L1) \in Nat /\ DOMAIN L1 = 1..Len(L1) /\ \A i \in 1..Len(L1) : L1[i] \in Level
    BY <1>1, LenProperties
<1>3. IsFiniteSet(DOMAIN L1)
    BY <1>2, FS_Interval
<1>4. \A i \in 1..Len(L1) : L1[i].price \in 1..Ticks /\ L1[i].qty \in Nat /\ L1[i].qty > 0
    BY <1>2 DEF Level
<1>5. \A i \in 1..Len(L1) : Quantity(L1)[i] = L1[i].qty
    BY <1>2 DEF Quantity
<1>6. Ticks \in Nat
    BY PricingConstants
<1>7. \A i, j \in 1..Len(L1) : L1[i].price = L1[j].price => i = j
    BY <1>1, <1>2, <1>4, <1>6
<1>8. \A i, j \in 1..Len(L1) : i <= j <=> L1[i].price <= L1[j].price
    BY <1>1, <1>2, <1>4, <1>6
<1>9. Adds(Quantity(L1), DOMAIN L1)
    BY <1>2, <1>3, <1>4, <1>5 DEF Adds
<1> QED
    BY <1>2, <1>3, <1>4, <1>5, <1>7, <1>8, <1>9

\* More of the levels, or all of those of a set: what they hold.
LEMMA SumOfLevels ==
    ASSUME NEW L1, Good(L1), NEW S, S \subseteq DOMAIN L1, NEW R, R \subseteq S
    PROVE  /\ SumFunctionOnSet(Quantity(L1), S) \in Nat /\ SumFunctionOnSet(Quantity(L1), R) \in Nat
           /\ SumFunctionOnSet(Quantity(L1), R) <= SumFunctionOnSet(Quantity(L1), S)
           /\ \A i \in S : /\ L1[i].qty <= SumFunctionOnSet(Quantity(L1), S)
                            /\ SumFunctionOnSet(Quantity(L1), S) = L1[i].qty + SumFunctionOnSet(Quantity(L1), S \ {i})
<1>1. /\ DOMAIN L1 = 1..Len(L1) /\ \A i \in 1..Len(L1) : Quantity(L1)[i] = L1[i].qty
      /\ Adds(Quantity(L1), DOMAIN L1)
    BY Levels
<1>2. Adds(Quantity(L1), S) /\ S \subseteq S
    BY <1>1, FS_Subset DEF Adds
<1> DEFINE f == Quantity(L1)
<1> HIDE DEF f
<1>3. /\ SumFunctionOnSet(f, S) \in Nat /\ SumFunctionOnSet(f, R) \in Nat
      /\ SumFunctionOnSet(f, R) <= SumFunctionOnSet(f, S)
    BY <1>2, SumOfPart DEF f
<1>4. \A i \in S : f[i] <= SumFunctionOnSet(f, S) /\ SumFunctionOnSet(f, S) = f[i] + SumFunctionOnSet(f, S \ {i})
    BY <1>2, SumOfPart DEF f
<1>5. \A i \in S : f[i] = L1[i].qty
    BY <1>1 DEF f
<1> QED
    BY <1>3, <1>4, <1>5 DEF f

\* What a ladder offers up to a price grows with it;
LEMMA UpToIs ==
    ASSUME NEW L1, Good(L1)
    PROVE  /\ \A p \in 0..Ticks : UpTo(L1, p) \in Nat
           /\ \A p, q \in 0..Ticks : p <= q => UpTo(L1, p) <= UpTo(L1, q)
           /\ UpTo(L1, 0) = 0
<1>0. Ticks \in Nat
    BY PricingConstants
<1>1. DOMAIN L1 = 1..Len(L1) /\ \A i \in DOMAIN L1 : L1[i].price \in 1..Ticks
    BY Levels
<1>2. \A p : Under(L1, p) \subseteq DOMAIN L1
    BY DEF Under
<1>3. \A p : UpTo(L1, p) \in Nat
    BY <1>2, SumOfLevels, UpToSum
<1>4. ASSUME NEW p \in 0..Ticks, NEW q \in 0..Ticks, p <= q PROVE UpTo(L1, p) <= UpTo(L1, q)
    <2>1. Under(L1, p) \subseteq Under(L1, q)
        BY <1>0, <1>1, <1>4 DEF Under
    <2> QED
        BY <1>2, <2>1, SumOfLevels, UpToSum
<1>5. Under(L1, 0) = {}
    BY <1>0, <1>1 DEF Under
<1>6. UpTo(L1, 0) = 0
    BY <1>5, SumNothing, UpToSum
<1> QED
    BY <1>3, <1>4, <1>6

\* by what there is at it.
LEMMA UpToNext ==
    ASSUME NEW L1, Good(L1), NEW p \in 1..Ticks
    PROVE  /\ \A i \in 1..Len(L1) : L1[i].price = p => UpTo(L1, p) = L1[i].qty + UpTo(L1, p - 1)
           /\ (\A i \in 1..Len(L1) : L1[i].price # p) => UpTo(L1, p) = UpTo(L1, p - 1)
<1>0. Ticks \in Nat
    BY PricingConstants
<1>1. /\ DOMAIN L1 = 1..Len(L1) /\ \A i \in DOMAIN L1 : L1[i].price \in 1..Ticks
      /\ \A i, j \in DOMAIN L1 : L1[i].price = L1[j].price => i = j
    BY Levels
<1>2. ASSUME NEW i \in 1..Len(L1), L1[i].price = p PROVE UpTo(L1, p) = L1[i].qty + UpTo(L1, p - 1)
    <2>1. Under(L1, p - 1) = Under(L1, p) \ {i} /\ i \in Under(L1, p) /\ Under(L1, p) \subseteq DOMAIN L1
        BY <1>0, <1>1, <1>2 DEF Under
    <2> DEFINE S == Under(L1, p)
    <2> HIDE DEF S
    <2>2. SumFunctionOnSet(Quantity(L1), S) = L1[i].qty + SumFunctionOnSet(Quantity(L1), S \ {i})
        BY <2>1, SumOfLevels DEF S
    <2> QED
        BY <2>1, <2>2, UpToSum DEF S
<1>3. ASSUME \A i \in 1..Len(L1) : L1[i].price # p PROVE UpTo(L1, p) = UpTo(L1, p - 1)
    <2>1. Under(L1, p - 1) = Under(L1, p)
        BY <1>0, <1>1, <1>3 DEF Under
    <2> QED
        BY <2>1, UpToSum, Zenon
<1> QED
    BY <1>2, <1>3

\* Where it grew last.
LEMMA LastLevel ==
    ASSUME NEW L1, Good(L1)
    PROVE  \A p \in 0..Ticks : UpTo(L1, p) = 0 \/ \E i \in 1..Len(L1) : L1[i].price <= p /\ UpTo(L1, L1[i].price) = UpTo(L1, p)
<1> DEFINE Found(p) == UpTo(L1, p) = 0 \/ \E i \in 1..Len(L1) : L1[i].price <= p /\ UpTo(L1, L1[i].price) = UpTo(L1, p)
           X == {p \in Nat : p <= Ticks => Found(p)}
<1>0. Ticks \in Nat /\ \A i \in 1..Len(L1) : L1[i].price \in 1..Ticks
    BY PricingConstants, Levels
<1>1. 0 \in X
    BY UpToIs
<1>2. ASSUME NEW p \in Nat, p \in X PROVE p + 1 \in X
    <2> SUFFICES ASSUME p + 1 <= Ticks PROVE Found(p + 1)
        OBVIOUS
    <2>1. p + 1 \in 1..Ticks /\ (p + 1) - 1 = p /\ Found(p)
        BY <1>0, <1>2
    <2>2. CASE \E i \in 1..Len(L1) : L1[i].price = p + 1
        BY <1>0, <2>2
    <2>3. CASE \A i \in 1..Len(L1) : L1[i].price # p + 1
        <3>1. UpTo(L1, p + 1) = UpTo(L1, p)
            BY <2>1, <2>3, UpToNext
        <3> QED
            BY <1>0, <2>1, <3>1
    <2> QED
        BY <2>2, <2>3
<1>3. \A p \in Nat : p \in X
    <2> HIDE DEF X
    <2>1. X \in SUBSET Nat
        BY DEF X
    <2> QED
        BY <1>1, <1>2, <2>1, SetInduction
<1> QED
    BY <1>0, <1>3

\* The least of a set of naturals.
LEMMA MinIs ==
    ASSUME NEW S \in SUBSET Nat, S # {}
    PROVE  Min(S) \in S /\ \A x \in S : Min(S) <= x
<1>1. \E x \in S : \A y \in S : x <= y
    BY HasLeast
<1> QED
    BY <1>1 DEF Min

\* A part of a ladder costs what the level it is in does.
LEMMA PriceAtIs ==
    ASSUME NEW L1, Good(L1), NEW k \in Nat \ {0}, k <= Offered(L1)
    PROVE  /\ PriceAt(L1, k) \in 1..Ticks
           /\ \A p \in 0..Ticks : UpTo(L1, p) >= k <=> PriceAt(L1, k) <= p
<1> DEFINE S == {p \in {l.price : l \in ToSet(L1)} : UpTo(L1, p) >= k}
<1>0. Ticks \in Nat /\ DOMAIN L1 = 1..Len(L1) /\ \A i \in 1..Len(L1) : L1[i].price \in 1..Ticks
    BY PricingConstants, Levels
<1>1. /\ \A p \in 0..Ticks : UpTo(L1, p) \in Nat
      /\ \A p, q \in 0..Ticks : p <= q => UpTo(L1, p) <= UpTo(L1, q)
    BY UpToIs
<1>2. \A p : p \in S <=> (\E i \in 1..Len(L1) : p = L1[i].price) /\ UpTo(L1, p) >= k
    BY <1>0 DEF ToSet
<1>3. \A p \in S : p \in 1..Ticks /\ UpTo(L1, p) >= k
    BY <1>0, <1>2
<1>4. ASSUME NEW p \in 0..Ticks, UpTo(L1, p) >= k PROVE \E s \in S : s <= p
    <2>1. UpTo(L1, p) # 0
        BY <1>1, <1>4
    <2>2. PICK i \in 1..Len(L1) : L1[i].price <= p /\ UpTo(L1, L1[i].price) = UpTo(L1, p)
        BY <2>1, LastLevel
    <2> QED
        BY <1>2, <1>4, <2>2
<1>5. S # {} /\ S \in SUBSET Nat
    BY <1>0, <1>3, <1>4 DEF Offered
<1> HIDE DEF S
<1>6. Min(S) \in S /\ \A x \in S : Min(S) <= x
    BY <1>5, MinIs
<1>7. PriceAt(L1, k) = Min(S)
    BY DEF PriceAt, S
<1> DEFINE m == Min(S)
<1> HIDE DEF m
<1>8. m \in 1..Ticks /\ UpTo(L1, m) >= k /\ \A x \in S : m <= x
    BY <1>3, <1>6 DEF m
<1>9. ASSUME NEW p \in 0..Ticks PROVE UpTo(L1, p) >= k <=> m <= p
    <2>1. ASSUME UpTo(L1, p) >= k PROVE m <= p
        <3>1. PICK x \in S : x <= p
            BY <1>4, <2>1
        <3>2. x \in 1..Ticks /\ m <= x
            BY <1>3, <1>8
        <3> QED
            BY <1>0, <1>8, <3>1, <3>2
    <2>2. ASSUME m <= p PROVE UpTo(L1, p) >= k
        <3>1. m \in 0..Ticks /\ UpTo(L1, m) <= UpTo(L1, p)
            BY <1>0, <1>1, <1>8, <2>2
        <3> QED
            BY <1>1, <1>8, <3>1
    <2> QED
        BY <2>1, <2>2
<1> QED
    BY <1>7, <1>8, <1>9 DEF m

LEMMA PriceIs ==
    ASSUME NEW L1, Good(L1), NEW k \in Nat \ {0}, NEW p \in 1..Ticks, UpTo(L1, p) >= k, UpTo(L1, p - 1) < k
    PROVE  k <= Offered(L1) /\ PriceAt(L1, k) = p
<1>0. Ticks \in Nat /\ p \in 0..Ticks /\ p - 1 \in 0..Ticks /\ Ticks \in 0..Ticks
    BY PricingConstants
<1>1. UpTo(L1, p) \in Nat /\ UpTo(L1, p - 1) \in Nat /\ Offered(L1) \in Nat /\ UpTo(L1, p) <= Offered(L1)
    BY <1>0, UpToIs DEF Offered
<1>2. k <= Offered(L1)
    BY <1>1
<1>3. PriceAt(L1, k) \in 1..Ticks /\ PriceAt(L1, k) <= p /\ ~(PriceAt(L1, k) <= p - 1)
    BY <1>0, <1>1, <1>2, PriceAtIs
<1> QED
    BY <1>0, <1>2, <1>3

LEMMA PriceGrows ==
    ASSUME NEW L1, Good(L1), NEW j \in Nat \ {0}, NEW k \in Nat \ {0}, j <= k, k <= Offered(L1)
    PROVE  /\ j <= Offered(L1) /\ PriceAt(L1, j) \in 1..Ticks /\ PriceAt(L1, k) \in 1..Ticks
           /\ PriceAt(L1, j) <= PriceAt(L1, k)
<1>0. Ticks \in Nat /\ Offered(L1) \in Nat
    BY PricingConstants, UpToIs DEF Offered
<1>1. j <= Offered(L1)
    BY <1>0
<1>2. PriceAt(L1, k) \in 1..Ticks /\ PriceAt(L1, j) \in 1..Ticks
    BY <1>1, PriceAtIs
<1>3. PriceAt(L1, k) \in 0..Ticks /\ UpTo(L1, PriceAt(L1, k)) >= k
    BY <1>0, <1>2, PriceAtIs
<1>4. UpTo(L1, PriceAt(L1, k)) >= j
    BY <1>3, UpToIs
<1> QED
    BY <1>1, <1>2, <1>3, <1>4, PriceAtIs

-----------------------------------------------------------------------------
(* The first level *)

\* What there is below it, and from it on.
LEMMA FirstIs ==
    ASSUME NEW L1, Good(L1), L1 # <<>>
    PROVE  /\ 1 \in 1..Len(L1) /\ L1[1].price \in 1..Ticks /\ L1[1].qty \in Nat \ {0}
           /\ \A p \in 0..Ticks : IF p < L1[1].price THEN UpTo(L1, p) = 0 ELSE UpTo(L1, p) >= L1[1].qty
<1>0. /\ Ticks \in Nat /\ Len(L1) \in Nat /\ DOMAIN L1 = 1..Len(L1)
      /\ \A i \in 1..Len(L1) : L1[i].price \in 1..Ticks /\ L1[i].qty \in Nat /\ L1[i].qty > 0
      /\ \A i, j \in 1..Len(L1) : i <= j <=> L1[i].price <= L1[j].price
    BY PricingConstants, Levels
<1>1. 1 \in 1..Len(L1)
    BY <1>0, EmptySeq DEF Good
<1>2. ASSUME NEW p \in 0..Ticks, p < L1[1].price PROVE UpTo(L1, p) = 0
    <2>1. \A i \in 1..Len(L1) : L1[1].price <= L1[i].price
        BY <1>0, <1>1
    <2>2. Under(L1, p) = {}
        BY <1>0, <1>1, <1>2, <2>1 DEF Under
    <2> QED
        BY <2>2, UpToSum, SumNothing
<1>3. ASSUME NEW p \in 0..Ticks, ~(p < L1[1].price) PROVE UpTo(L1, p) >= L1[1].qty
    <2>1. 1 \in Under(L1, p) /\ Under(L1, p) \subseteq DOMAIN L1
        BY <1>0, <1>1, <1>3 DEF Under
    <2>2. UpTo(L1, p) \in Nat /\ L1[1].qty <= UpTo(L1, p)
        BY <2>1, SumOfLevels, UpToSum, UpToIs
    <2> QED
        BY <1>0, <1>1, <2>2
<1> QED
    BY <1>0, <1>1, <1>2, <1>3

\* All of the first level is taken,
LEMMA LessAll ==
    ASSUME NEW L1, Good(L1), L1 # <<>>
    PROVE  /\ Good(Tail(L1))
           /\ \A p \in 0..Ticks : UpTo(L1, p) = UpTo(Tail(L1), p) + (IF L1[1].price <= p THEN L1[1].qty ELSE 0)
<1> DEFINE T == Tail(L1)
<1>1. /\ T \in Seq(Level) /\ Len(L1) \in Nat \ {0} /\ Len(T) = Len(L1) - 1
      /\ \A i \in 1..Len(T) : T[i] = L1[i + 1]
    BY FirstAndRest DEF Good
<1> HIDE DEF T
<1>2. \A i \in 1..Len(T) : i + 1 \in 1..Len(L1)
    BY <1>1
<1>3. Good(T)
    <2>1. ASSUME NEW i \in 1..Len(T), NEW j \in 1..Len(T), i < j
          PROVE  T[i].price < T[j].price
        <3>1. i + 1 \in 1..Len(L1) /\ j + 1 \in 1..Len(L1) /\ i + 1 < j + 1
            BY <1>1, <1>2, <2>1
        <3>2. L1[i + 1].price < L1[j + 1].price
            BY <3>1 DEF Good
        <3> QED
            BY <1>1, <3>2
    <2> QED
        BY <1>1, <2>1 DEF Good
<1>4. /\ DOMAIN T = 1..Len(T) /\ DOMAIN L1 = 1..Len(L1) /\ Len(T) \in Nat
      /\ \A i \in 1..Len(T) : Quantity(T)[i] = T[i].qty /\ T[i].qty \in Nat
      /\ \A i \in 1..Len(L1) : Quantity(L1)[i] = L1[i].qty /\ L1[i].qty \in Nat
    BY <1>3, Levels
<1>5. MovedOn(Quantity(T), Quantity(L1), Len(T))
    BY <1>1, <1>2, <1>4 DEF MovedOn
<1>6. ASSUME NEW p \in 0..Ticks
      PROVE  UpTo(L1, p) = UpTo(T, p) + (IF L1[1].price <= p THEN L1[1].qty ELSE 0)
    <2>1. FurtherOn(Under(T, p), Under(L1, p), Len(T))
        <3>1. Under(T, p) \subseteq 1..Len(T) /\ Under(L1, p) \subseteq 1..(Len(T) + 1)
            BY <1>1, <1>4 DEF Under
        <3>2. \A i \in 1..Len(T) : i \in Under(T, p) <=> i + 1 \in Under(L1, p)
            BY <1>1, <1>2, <1>4 DEF Under
        <3> QED
            BY <3>1, <3>2 DEF FurtherOn
    <2>2. 1 \in Under(L1, p) <=> L1[1].price <= p
        BY <1>1, <1>4 DEF Under
    <2> DEFINE I == Under(T, p)
               J == Under(L1, p)
               f == Quantity(T)
               h == Quantity(L1)
    <2>3. FurtherOn(I, J, Len(T)) /\ MovedOn(f, h, Len(T)) /\ Len(T) \in Nat
        BY <1>4, <1>5, <2>1
    <2>4. UpTo(L1, p) = SumFunctionOnSet(h, J) /\ UpTo(T, p) = SumFunctionOnSet(f, I) /\ h[1] = L1[1].qty
        BY <1>1, <1>4, UpToSum
    <2> HIDE DEF I, J, f, h
    <2>5. SumFunctionOnSet(h, J) = SumFunctionOnSet(f, I) + (IF 1 \in J THEN h[1] ELSE 0)
        BY <2>3, SumInFront
    <2> QED
        BY <2>2, <2>4, <2>5 DEF J
<1> QED
    BY <1>3, <1>6 DEF T

\* or some of it.
LEMMA LessSome ==
    ASSUME NEW L1, Good(L1), L1 # <<>>, NEW n \in Nat, n < L1[1].qty
    PROVE  /\ Good([L1 EXCEPT ![1].qty = @ - n])
           /\ \A p \in 0..Ticks : UpTo(L1, p) = UpTo([L1 EXCEPT ![1].qty = @ - n], p) + (IF L1[1].price <= p THEN n ELSE 0)
<1> DEFINE T == [L1 EXCEPT ![1].qty = @ - n]
<1>0. /\ Ticks \in Nat /\ Len(L1) \in Nat /\ DOMAIN L1 = 1..Len(L1) /\ L1 \in Seq(Level) /\ 1 \in 1..Len(L1)
      /\ \A i \in 1..Len(L1) : /\ L1[i] \in Level /\ L1[i].price \in 1..Ticks /\ L1[i].qty \in Nat /\ L1[i].qty > 0
                                 /\ Quantity(L1)[i] = L1[i].qty
    BY PricingConstants, Levels, FirstIs DEF Good
<1>1. /\ T \in Seq(Level) /\ Len(T) = Len(L1)
      /\ T[1].qty = L1[1].qty - n
      /\ \A i \in 1..Len(L1) : T[i].price = L1[i].price
      /\ \A i \in 1..Len(L1) : i # 1 => T[i].qty = L1[i].qty
    <2> DEFINE l == [L1[1] EXCEPT !.qty = @ - n]
    <2>1. l \in Level /\ l.qty = L1[1].qty - n /\ l.price = L1[1].price
        <3>1. L1[1] \in [price : 1..Ticks, qty : Nat \ {0}]
            BY <1>0 DEF Level
        <3>2. L1[1].qty - n \in Nat \ {0}
            BY <1>0
        <3>3. l \in [price : 1..Ticks, qty : Nat \ {0}]
            BY <3>1, <3>2
        <3> QED
            BY <3>1, <3>3 DEF Level
    <2>2. T = [L1 EXCEPT ![1] = l]
        OBVIOUS
    <2> HIDE DEF l, T
    <2>3. T \in Seq(Level) /\ Len(T) = Len(L1) /\ \A i \in 1..Len(L1) : T[i] = IF i = 1 THEN l ELSE L1[i]
        BY <1>0, <2>1, <2>2, ExceptSeq
    <2> QED
        BY <1>0, <2>1, <2>3
<1> HIDE DEF T
<1>2. Good(T)
    BY <1>0, <1>1 DEF Good
<1>3. /\ DOMAIN T = 1..Len(T)
      /\ \A i \in 1..Len(T) : Quantity(T)[i] = T[i].qty /\ T[i].qty \in Nat
    BY <1>2, Levels
<1>4. ASSUME NEW p \in 0..Ticks
      PROVE  UpTo(L1, p) = UpTo(T, p) + (IF L1[1].price <= p THEN n ELSE 0)
    <2> DEFINE S == Under(L1, p)
               f == Quantity(L1)
               h == Quantity(T)
    <2>1. Under(T, p) = S /\ S \subseteq 1..Len(L1) /\ (1 \in S <=> L1[1].price <= p)
        BY <1>0, <1>1, <1>3 DEF Under
    <2>2. UpTo(L1, p) = SumFunctionOnSet(f, S) /\ UpTo(T, p) = SumFunctionOnSet(h, S)
        BY <2>1, UpToSum
    <2>3. IsFiniteSet(S)
        <3>1. IsFiniteSet(DOMAIN L1) /\ S \subseteq DOMAIN L1
            BY <1>0, <2>1, Levels
        <3> QED
            BY ONLY <3>1, FS_Subset
    <2>4. f[1] = L1[1].qty /\ h[1] = L1[1].qty - n
        BY <1>0, <1>1, <1>3
    <2>5. \A i \in S : f[i] \in Nat /\ h[i] \in Nat /\ (i # 1 => f[i] = h[i])
        BY <1>0, <1>1, <1>3, <2>1
    <2> HIDE DEF S, f, h
    <2>6. Adds(f, S) /\ Adds(h, S) /\ IsFiniteSet(S \ {1})
        BY <2>3, <2>5, FS_Subset DEF Adds
    <2>7. SumFunctionOnSet(f, S) \in Nat /\ SumFunctionOnSet(h, S) \in Nat
        BY <2>6, SumOfPart
    <2>8. CASE 1 \in S
        <3>1. SumFunctionOnSet(f, S) = f[1] + SumFunctionOnSet(f, S \ {1})
            BY <2>6, <2>8, SumOfPart
        <3>2. SumFunctionOnSet(h, S) = h[1] + SumFunctionOnSet(h, S \ {1})
            BY <2>6, <2>8, SumOfPart
        <3>3. \A i \in S \ {1} : f[i] = h[i]
            BY <2>5
        <3>4. SumFunctionOnSet(f, S \ {1}) = SumFunctionOnSet(h, S \ {1})
            BY <2>6, <3>3, SumSame
        <3>5. SumFunctionOnSet(f, S \ {1}) \in Nat
            <4>1. S \ {1} \subseteq S
                OBVIOUS
            <4> QED
                BY <2>6, <4>1, SumOfPart
        <3> QED
            BY <1>0, <2>1, <2>2, <2>4, <2>8, <3>1, <3>2, <3>4, <3>5
    <2>9. CASE 1 \notin S
        <3>1. \A i \in S : f[i] = h[i]
            BY <2>5, <2>9
        <3>2. SumFunctionOnSet(f, S) = SumFunctionOnSet(h, S)
            BY <2>3, <3>1, SumSame
        <3> QED
            BY <2>1, <2>2, <2>7, <2>9, <3>2
    <2> QED
        BY <2>8, <2>9
<1> QED
    BY <1>2, <1>4 DEF T

\* So much of a ladder is gone: what is left of it.
Left(L1, s, R) ==
    Good(R) /\ \A p \in 0..Ticks : UpTo(R, p) = IF UpTo(L1, p) >= s THEN UpTo(L1, p) - s ELSE 0

LEMMA LessIs ==
    ASSUME NEW R, Good(R), R # <<>>, NEW n \in Nat, n <= R[1].qty
    PROVE  Good(Less(R, n)) /\ \A p \in 0..Ticks : UpTo(R, p) = UpTo(Less(R, n), p) + (IF R[1].price <= p THEN n ELSE 0)
<1>1. R[1].qty \in Nat
    BY FirstIs
<1>2. CASE R[1].qty = n
    BY <1>2, LessAll DEF Less
<1>3. CASE R[1].qty # n
    <2>1. n < R[1].qty
        BY <1>1, <1>3
    <2>2. Less(R, n) = [R EXCEPT ![1].qty = @ - n]
        BY <1>3 DEF Less
    <2> DEFINE T == [R EXCEPT ![1].qty = @ - n]
    <2>3. Good(T) /\ \A p \in 0..Ticks : UpTo(R, p) = UpTo(T, p) + (IF R[1].price <= p THEN n ELSE 0)
        BY <2>1, LessSome
    <2> HIDE DEF T
    <2> QED
        BY <2>2, <2>3 DEF T
<1> QED
    BY <1>2, <1>3

LEMMA LeftNext ==
    ASSUME NEW L1, Good(L1), NEW s \in Nat, NEW R, Left(L1, s, R), R # <<>>, NEW n \in Nat, n <= R[1].qty
    PROVE  Left(L1, s + n, Less(R, n))
<1> DEFINE T == Less(R, n)
<1>0. Ticks \in Nat /\ Good(R) /\ R[1].qty \in Nat /\ R[1].price \in 1..Ticks
    BY PricingConstants, FirstIs DEF Left
<1>1. Good(T) /\ \A p \in 0..Ticks : UpTo(R, p) = UpTo(T, p) + (IF R[1].price <= p THEN n ELSE 0)
    BY <1>0, LessIs
<1> HIDE DEF T
<1>2. ASSUME NEW p \in 0..Ticks
      PROVE  UpTo(T, p) = IF UpTo(L1, p) >= s + n THEN UpTo(L1, p) - (s + n) ELSE 0
    <2>1. UpTo(T, p) \in Nat /\ UpTo(R, p) \in Nat /\ UpTo(L1, p) \in Nat
        BY <1>0, <1>1, UpToIs
    <2>2. IF p < R[1].price THEN UpTo(R, p) = 0 ELSE UpTo(R, p) >= R[1].qty
        BY <1>0, FirstIs
    <2>3. UpTo(R, p) = IF UpTo(L1, p) >= s THEN UpTo(L1, p) - s ELSE 0
        BY DEF Left
    <2>4. UpTo(R, p) = UpTo(T, p) + (IF R[1].price <= p THEN n ELSE 0)
        BY <1>1
    <2> QED
        <3> DEFINE left == UpTo(T, p)
                   there == UpTo(R, p)
                   all == UpTo(L1, p)
                   price == R[1].price
                   qty == R[1].qty
        <3>1. /\ Ticks \in Nat /\ qty \in Nat /\ price \in 1..Ticks
              /\ left \in Nat /\ there \in Nat /\ all \in Nat /\ n <= qty
              /\ IF p < price THEN there = 0 ELSE there >= qty
              /\ there = IF all >= s THEN all - s ELSE 0
              /\ there = left + (IF price <= p THEN n ELSE 0)
            BY <1>0, <2>1, <2>2, <2>3, <2>4
        <3> HIDE DEF left, there, all, price, qty
        <3>2. left = IF all >= s + n THEN all - (s + n) ELSE 0
            <4>0. s \in Nat /\ n \in Nat /\ p \in Nat /\ price \in Nat
                BY <3>1
            <4>1. CASE p < price
                <5>1. there = 0 /\ left = 0
                    BY ONLY <3>1, <4>0, <4>1
                <5> QED
                    BY ONLY <3>1, <4>0, <5>1
            <4>2. CASE price <= p
                <5>1. there >= qty /\ there = left + n
                    BY ONLY <3>1, <4>0, <4>2
                <5> QED
                    BY ONLY <3>1, <4>0, <5>1
            <4> QED
                BY ONLY <4>0, <4>1, <4>2
        <3> QED
            BY <3>2 DEF left, all
<1> QED
    BY <1>1, <1>2 DEF Left, T

\* The parts that come next are in the first level of what is left; if nothing is, there are none.
LEMMA LeftPrice ==
    ASSUME NEW L1, Good(L1), NEW s \in Nat, NEW R, Left(L1, s, R), R # <<>>, NEW k \in Nat, s < k, k <= s + R[1].qty
    PROVE  k <= Offered(L1) /\ PriceAt(L1, k) = R[1].price /\ R[1].price \in 1..Ticks
<1> DEFINE p == R[1].price
<1>0. Ticks \in Nat /\ Good(R) /\ R[1].qty \in Nat /\ p \in 1..Ticks /\ p \in 0..Ticks /\ p - 1 \in 0..Ticks
    BY PricingConstants, FirstIs DEF Left
<1>1. UpTo(R, p) >= R[1].qty /\ UpTo(R, p - 1) = 0
    BY <1>0, FirstIs
<1> HIDE DEF p
<1>2. /\ UpTo(R, p) \in Nat /\ UpTo(L1, p) \in Nat /\ UpTo(L1, p - 1) \in Nat
      /\ UpTo(R, p) = (IF UpTo(L1, p) >= s THEN UpTo(L1, p) - s ELSE 0)
      /\ UpTo(R, p - 1) = IF UpTo(L1, p - 1) >= s THEN UpTo(L1, p - 1) - s ELSE 0
    BY <1>0, UpToIs DEF Left
<1>3. UpTo(L1, p) >= k /\ UpTo(L1, p - 1) < k
    BY <1>0, <1>1, <1>2
<1>4. k \in Nat \ {0}
    OBVIOUS
<1> QED
    BY <1>0, <1>3, <1>4, PriceIs DEF p

LEMMA NoneLeft ==
    ASSUME NEW L1, Good(L1), NEW s \in Nat, Left(L1, s, <<>>)
    PROVE  Offered(L1) <= s
<1>1. Ticks \in 0..Ticks
    BY PricingConstants
<1>2. Under(<<>>, Ticks) = {}
    BY DEF Under
<1>3. UpTo(<<>>, Ticks) = 0
    BY <1>2, UpToSum, SumNothing
<1>4. UpTo(L1, Ticks) \in Nat /\ UpTo(<<>>, Ticks) = IF UpTo(L1, Ticks) >= s THEN UpTo(L1, Ticks) - s ELSE 0
    BY <1>1, UpToIs DEF Left
<1> QED
    BY <1>3, <1>4 DEF Offered

LEMMA AllLeft ==
    ASSUME NEW L1, Good(L1)
    PROVE  Left(L1, 0, L1)
<1>1. \A p \in 0..Ticks : UpTo(L1, p) \in Nat
    BY UpToIs
<1> QED
    BY <1>1 DEF Left

-----------------------------------------------------------------------------
(* Costs *)

LEMMA CostIs ==
    ASSUME NEW L1, Good(L1), NEW n \in Nat, n <= Offered(L1)
    PROVE  /\ CostOf(L1, n) \in Nat
           /\ n = 0 => CostOf(L1, n) = 0
           /\ n > 0 => CostOf(L1, n - 1) \in Nat /\ CostOf(L1, n) = CostOf(L1, n - 1) + Unit(PriceAt(L1, n))
<1> DEFINE f == [k \in 1..n |-> Unit(PriceAt(L1, k))]
           g == [k \in 1..(n - 1) |-> Unit(PriceAt(L1, k))]
<1>0. Ticks \in Nat /\ Offered(L1) \in Nat
    BY PricingConstants, UpToIs DEF Offered
<1>1. ASSUME NEW k \in 1..n PROVE Unit(PriceAt(L1, k)) \in Nat
    <2>1. k \in Nat \ {0} /\ k <= Offered(L1)
        BY <1>0
    <2>2. PriceAt(L1, k) \in 0..Ticks
        BY <1>0, <2>1, PriceAtIs
    <2> QED
        BY <2>2, UnitGrows
<1>2. CostOf(L1, n) = SumFunctionOnSet(f, 1..n) /\ CostOf(L1, n - 1) = SumFunctionOnSet(g, 1..(n - 1))
    BY DEF CostOf, SumFunction
<1>3. /\ \A k \in 1..n : f[k] \in Nat
      /\ \A k \in 1..(n - 1) : k \in 1..n /\ f[k] = g[k] /\ g[k] \in Nat
    BY <1>1
<1>4. Adds(f, 1..n) /\ Adds(g, 1..(n - 1)) /\ IsFiniteSet(1..(n - 1)) /\ 1..(n - 1) \subseteq 1..n
    <2>1. n \in Int /\ n - 1 \in Int /\ 1 \in Int
        OBVIOUS
    <2>2. IsFiniteSet(1..n) /\ IsFiniteSet(1..(n - 1))
        BY ONLY <2>1, FS_Interval
    <2>3. Adds(f, 1..n) /\ Adds(g, 1..(n - 1))
        <3> HIDE DEF f, g
        <3> QED
            BY <1>3, <2>2 DEF Adds
    <2> QED
        BY <2>2, <2>3
<1>5. n > 0 => n \in 1..n /\ f[n] = Unit(PriceAt(L1, n)) /\ (1..n) \ {n} = 1..(n - 1)
    OBVIOUS
<1>6. n = 0 => 1..n = {}
    OBVIOUS
<1> HIDE DEF f, g
<1>7. SumFunctionOnSet(f, 1..(n - 1)) = SumFunctionOnSet(g, 1..(n - 1))
    BY <1>3, <1>4, SumSame
<1>8. SumFunctionOnSet(f, 1..n) \in Nat /\ SumFunctionOnSet(f, 1..(n - 1)) \in Nat
    BY <1>4, SumOfPart
<1>9. n = 0 => SumFunctionOnSet(f, 1..n) = 0
    BY <1>6, SumNothing
<1>10. ASSUME n > 0 PROVE SumFunctionOnSet(f, 1..n) = Unit(PriceAt(L1, n)) + SumFunctionOnSet(f, 1..(n - 1))
    <2>1. SumFunctionOnSet(f, 1..n) = f[n] + SumFunctionOnSet(f, (1..n) \ {n})
        BY <1>4, <1>5, <1>10, SumOfPart
    <2> QED
        BY <1>5, <1>10, <2>1
<1>11. n > 0 => Unit(PriceAt(L1, n)) \in Nat
    BY <1>1, <1>5
<1> QED
    BY <1>2, <1>7, <1>8, <1>9, <1>10, <1>11

\* All of the next n parts have a price from lo to hi;
Span(L1, s, n, lo, hi) ==
    /\ Good(L1) /\ s \in Nat /\ n \in Nat /\ s + n <= Offered(L1) /\ lo \in 0..Ticks /\ hi \in 0..Ticks
    /\ \A k \in 1..n : lo <= PriceAt(L1, s + k) /\ PriceAt(L1, s + k) <= hi

\* what they cost.
LEMMA CostSpan ==
    ASSUME NEW L1, NEW s, NEW n, NEW lo, NEW hi, Span(L1, s, n, lo, hi)
    PROVE  /\ CostOf(L1, s) \in Nat /\ CostOf(L1, s + n) \in Nat /\ CostOf(L1, s) <= CostOf(L1, s + n)
           /\ n * Unit(lo) \in Nat /\ n * Unit(hi) \in Nat
           /\ CostOf(L1, s) + n * Unit(lo) <= CostOf(L1, s + n)
           /\ CostOf(L1, s + n) <= CostOf(L1, s) + n * Unit(hi)
<1> DEFINE a == Unit(lo)
           b == Unit(hi)
           c == CostOf(L1, s)
           Goes(m) == c + m * a <= CostOf(L1, s + m) /\ CostOf(L1, s + m) <= c + m * b
           X == {m \in Nat : m <= n => Goes(m)}
<1>0. /\ Ticks \in Nat /\ Good(L1) /\ s \in Nat /\ n \in Nat /\ s + n <= Offered(L1) /\ lo \in 0..Ticks /\ hi \in 0..Ticks
      /\ Offered(L1) \in Nat
    BY PricingConstants, UpToIs DEF Span, Offered
<1>1. a \in Nat /\ b \in Nat
    BY <1>0, UnitGrows
<1>2. \A m \in 0..n : s + m \in Nat /\ s + m <= Offered(L1)
    BY <1>0
<1>3. \A m \in 0..n : CostOf(L1, s + m) \in Nat
    BY <1>0, <1>2, CostIs
<1>4. c \in Nat
    <2>1. s <= Offered(L1)
        BY <1>0
    <2> QED
        BY <1>0, <2>1, CostIs
<1>5. 0 \in X
    <2>1. s + 0 = s /\ 0 * a = 0 /\ 0 * b = 0
        BY <1>0, <1>1
    <2> QED
        BY <1>4, <2>1
<1>6. ASSUME NEW m \in Nat, m \in X PROVE m + 1 \in X
    <2> SUFFICES ASSUME m + 1 <= n PROVE Goes(m + 1)
        OBVIOUS
    <2> DEFINE k == s + (m + 1)
               u == Unit(PriceAt(L1, k))
               d == CostOf(L1, s + m)
               e == CostOf(L1, k)
    <2>1. k \in Nat /\ k > 0 /\ k - 1 = s + m /\ k <= Offered(L1) /\ m + 1 \in 1..n /\ k \in Nat \ {0}
        BY <1>0
    <2>2. lo <= PriceAt(L1, k) /\ PriceAt(L1, k) <= hi
        BY <2>1 DEF Span
    <2>3. PriceAt(L1, k) \in 0..Ticks
        BY <1>0, <2>1, PriceAtIs
    <2>4. a <= u /\ u <= b /\ u \in Nat
        BY <1>0, <2>2, <2>3, UnitGrows
    <2>5. e \in Nat /\ d \in Nat /\ e = d + u
        BY <1>0, <2>1, CostIs
    <2>6. c + m * a <= d /\ d <= c + m * b
        BY <1>0, <1>6
    <2>7. (m + 1) * a = m * a + a /\ (m + 1) * b = m * b + b /\ m * a \in Nat /\ m * b \in Nat
        <3> HIDE DEF a, b
        <3> QED
            BY ONLY <1>1, m \in Nat, TimesNat, OneMore
    <2> DEFINE x == m * a
               y == m * b
    <2> HIDE DEF k, u, d, e, a, b, c, x, y
    <2>8. c + (x + a) <= e /\ e <= c + (y + b)
        BY <1>1, <1>4, <2>4, <2>5, <2>6, <2>7 DEF x, y
    <2> QED
        BY <2>7, <2>8 DEF k, e, x, y
<1>7. n \in X
    <2> HIDE DEF X
    <2>1. X \in SUBSET Nat
        BY DEF X
    <2>2. \A m \in Nat : m \in X
        BY <1>5, <1>6, <2>1, SetInduction
    <2> QED
        BY <1>0, <2>2
<1>8. n * a \in Nat /\ n * b \in Nat
    BY <1>0, <1>1, TimesNat
<1>9. CostOf(L1, s + n) \in Nat
    BY <1>0, <1>3
<1>10. c + n * a <= CostOf(L1, s + n) /\ CostOf(L1, s + n) <= c + n * b
    BY <1>0, <1>7
<1>11. c <= CostOf(L1, s + n)
    <2> DEFINE x == n * a
               e == CostOf(L1, s + n)
    <2> HIDE DEF x, e, c
    <2>1. x \in Nat /\ e \in Nat /\ c \in Nat /\ c + x <= e
        BY <1>4, <1>8, <1>9, <1>10 DEF x, e
    <2> QED
        BY ONLY <2>1 DEF e
<1> QED
    BY <1>4, <1>8, <1>9, <1>10, <1>11

\* More parts cost more.
LEMMA CostGrows ==
    ASSUME NEW L1, Good(L1), NEW j \in Nat, NEW k \in Nat, j <= k, k <= Offered(L1)
    PROVE  CostOf(L1, j) \in Nat /\ CostOf(L1, k) \in Nat /\ CostOf(L1, j) <= CostOf(L1, k)
<1>0. Ticks \in Nat /\ Offered(L1) \in Nat
    BY PricingConstants, UpToIs DEF Offered
<1>1. k - j \in Nat /\ j + (k - j) = k
    BY <1>0
<1>2. ASSUME NEW i \in 1..(k - j) PROVE 0 <= PriceAt(L1, j + i) /\ PriceAt(L1, j + i) <= Ticks
    <2>1. j + i \in Nat \ {0} /\ j + i <= Offered(L1)
        BY <1>0
    <2>2. PriceAt(L1, j + i) \in 1..Ticks
        BY <2>1, PriceAtIs
    <2> QED
        BY <1>0, <2>2
<1>3. Span(L1, j, k - j, 0, Ticks)
    <2>1. j + (k - j) <= Offered(L1) /\ 0 \in 0..Ticks /\ Ticks \in 0..Ticks
        BY <1>0, <1>1
    <2> QED
        BY <1>1, <1>2, <2>1, Zenon DEF Span
<1> QED
    BY <1>1, <1>3, CostSpan

\* Parts of the same price.
LEMMA CostFlat ==
    ASSUME NEW L1, NEW s, NEW n, NEW p, Span(L1, s, n, p, p)
    PROVE  CostOf(L1, s + n) = CostOf(L1, s) + n * Unit(p)
<1> DEFINE a == CostOf(L1, s)
           b == CostOf(L1, s + n)
           c == n * Unit(p)
<1>1. a \in Nat /\ b \in Nat /\ c \in Nat /\ a + c <= b /\ b <= a + c
    BY CostSpan
<1> HIDE DEF a, b, c
<1>2. b = a + c
    BY <1>1
<1> QED
    BY <1>2 DEF a, b, c

-----------------------------------------------------------------------------
(* A step of the walk *)

LEMMA DivIs ==
    ASSUME NEW a \in Nat, NEW u \in Nat, u > 0
    PROVE  /\ a \div u \in Nat
           /\ \A n \in Nat : n <= a \div u <=> n * u <= a
<1>1. a \div u \in Int /\ (a \div u) * u <= a /\ a < (a \div u) * u + u
    OBVIOUS
<1> DEFINE q == a \div u
<1> HIDE DEF q
<1>2. q \in Int /\ q * u <= a /\ a < q * u + u
    BY <1>1 DEF q
<1>3. ASSUME q < 0 PROVE FALSE
    <2>1. -q \in Nat /\ (-q) >= 1
        BY <1>2, <1>3
    <2>2. 1 * u <= (-q) * u
        BY <2>1, TimesUp
    <2>3. (-q) * u = -(q * u) /\ q * u \in Int
        BY <1>2
    <2> QED
        BY <1>2, <2>2, <2>3
<1>4. q \in Nat
    BY <1>2, <1>3
<1>5. ASSUME NEW n \in Nat PROVE n <= q <=> n * u <= a
    <2>1. n * u \in Nat /\ q * u \in Nat /\ (q + 1) * u = q * u + u
        BY <1>4, TimesNat, OneMore
    <2>2. n <= q => n * u <= q * u
        BY <1>4, TimesUp
    <2>3. q + 1 <= n => (q + 1) * u <= n * u
        BY <1>4, TimesUp
    <2> QED
        BY <1>2, <1>4, <2>1, <2>2, <2>3
<1> QED
    BY <1>4, <1>5 DEF q

LEMMA LadderFirst ==
    ASSUME NEW t \in Ladders, t # <<>>
    PROVE  1 \in 1..Len(t) /\ t[1].price \in 1..Ticks /\ t[1].qty \in Nat /\ Unit(t[1].price) \in Nat /\ Unit(t[1].price) > 0
<1> DEFINE P == [price : 1..Ticks, qty : Nat]
<1>0. t \in Seq(P)
    BY DEF Ladders
<1> HIDE DEF P
<1>1. 1 \in 1..Len(t) /\ t[1] \in P
    BY <1>0, FirstAndRest
<1> USE DEF P
<1>2. t[1].price \in 1..Ticks /\ t[1].qty \in Nat
    BY <1>1
<1>3. t[1].price \in 0..Ticks /\ t[1].price > 0 /\ t[1].price <= t[1].price
    BY <1>2, PricingConstants
<1> QED
    BY <1>1, <1>2, <1>3, UnitGrows

LEMMA LessLadder ==
    ASSUME NEW t \in Ladders, t # <<>>, NEW n \in Nat, n <= t[1].qty
    PROVE  Less(t, n) \in Ladders
<1> DEFINE P == [price : 1..Ticks, qty : Nat]
<1>1. t \in Seq(P) /\ 1 \in 1..Len(t) /\ t[1] \in P
    <2>1. t \in Seq(P)
        BY DEF Ladders
    <2> HIDE DEF P
    <2> QED
        BY <2>1, FirstAndRest
<1>2. CASE t[1].qty = n
    BY <1>1, <1>2, FirstAndRest DEF Less, Ladders
<1>3. CASE t[1].qty # n
    <2> DEFINE l == [t[1] EXCEPT !.qty = @ - n]
    <2>1. l \in P
        <3>1. t[1].qty \in Nat /\ t[1].qty - n \in Nat
            BY <1>1
        <3> QED
            BY <1>1, <3>1
    <2>2. Less(t, n) = [t EXCEPT ![1] = l]
        BY <1>3 DEF Less
    <2> HIDE DEF l, P
    <2>3. [t EXCEPT ![1] = l] \in Seq(P)
        BY <1>1, <2>1, ExceptSeq
    <2> QED
        BY <2>2, <2>3 DEF Ladders, P
<1> QED
    BY <1>2, <1>3

LEMMA WalkTypes ==
    ASSUME NEW w \in Walks
    PROVE  /\ w.a \in Ladders /\ w.b \in Ladders /\ w.left \in Nat /\ w.money.a \in Nat /\ w.money.b \in Nat
           /\ w.size \in Nat /\ w.cost \in Nat /\ w.last \in Nat
BY DEF Walks

\* As much is taken as both levels, the size and the money allow.
LEMMA TakenIs ==
    ASSUME NEW w \in Walks, w.a # <<>>, w.b # <<>>
    PROVE  /\ NextTaken(w) \in Nat /\ NextTaken(w) <= w.a[1].qty /\ NextTaken(w) <= w.b[1].qty /\ NextTaken(w) <= w.left
           /\ NextTaken(w) * Unit(w.a[1].price) <= w.money.a /\ NextTaken(w) * Unit(w.b[1].price) <= w.money.b
           /\ NextTaken(w) <= 0 => \/ w.a[1].qty = 0 \/ w.b[1].qty = 0 \/ w.left = 0
                                   \/ w.money.a < Unit(w.a[1].price) \/ w.money.b < Unit(w.b[1].price)
<1> DEFINE u == Unit(w.a[1].price)
           v == Unit(w.b[1].price)
           m == w.money.a
           o == w.money.b
           x == w.a[1].qty
           y == w.b[1].qty
           c == m \div u
           d == o \div v
           S == {x, y, w.left, c, d}
           n == NextTaken(w)
<1>1. u \in Nat /\ u > 0 /\ v \in Nat /\ v > 0 /\ m \in Nat /\ o \in Nat /\ x \in Nat /\ y \in Nat /\ w.left \in Nat
    BY WalkTypes, LadderFirst
<1>2. n = Min(S)
    BY DEF NextTaken
<1> HIDE DEF u, v, m, o, x, y, n
<1>3. /\ c \in Nat /\ \A k \in Nat : k <= c <=> k * u <= m
      /\ d \in Nat /\ \A k \in Nat : k <= d <=> k * v <= o
    BY <1>1, DivIs
<1> HIDE DEF c, d
<1>4. n \in S /\ \A k \in S : n <= k
    <2>1. S \in SUBSET Nat /\ S # {}
        BY <1>1, <1>3
    <2> HIDE DEF S
    <2> QED
        BY <1>2, <2>1, MinIs
<1>5. n \in Nat /\ n <= x /\ n <= y /\ n <= w.left /\ n * u <= m /\ n * v <= o
    BY <1>1, <1>3, <1>4
<1>6. ASSUME n <= 0 PROVE x = 0 \/ y = 0 \/ w.left = 0 \/ m < u \/ o < v
    <2>1. 1 * u = u /\ 1 * v = v /\ 1 \in Nat
        BY <1>1
    <2>2. (1 <= c <=> u <= m) /\ (1 <= d <=> v <= o)
        BY <1>3, <2>1
    <2>3. n = x \/ n = y \/ n = w.left \/ n = c \/ n = d
        BY <1>4
    <2> QED
        BY <1>1, <1>3, <1>6, <2>2, <2>3
<1> QED
    BY <1>5, <1>6 DEF u, v, m, o, x, y, n

\* What is bought is some, and leaves a walk.
LEMMA BoughtIs ==
    ASSUME NEW w \in Walks, NEW edge, ~Ends(w, edge)
    PROVE  Bought(w) \in Walks /\ Bought(w).left < w.left
<1>1. w.a # <<>> /\ w.b # <<>> /\ ~(NextTaken(w) <= 0)
    BY DEF Ends
<1> DEFINE u == Unit(w.a[1].price)
           v == Unit(w.b[1].price)
           n == NextTaken(w)
           c == n * u
           d == n * v
           s == NextUnit(w)
           e == n * s
<1>2. u \in Nat /\ v \in Nat /\ s = u + v
    BY <1>1, WalkTypes, LadderFirst DEF NextUnit
<1>3. /\ n \in Nat /\ n > 0 /\ n <= w.a[1].qty /\ n <= w.b[1].qty /\ n <= w.left
      /\ c <= w.money.a /\ d <= w.money.b
    BY <1>1, TakenIs
<1>4. c \in Nat /\ d \in Nat /\ e \in Nat /\ s \in Nat
    <2>1. s \in Nat
        BY <1>2
    <2> HIDE DEF s, u, v, n
    <2> QED
        BY <1>2, <1>3, <2>1, TimesNat
<1>5. Less(w.a, n) \in Ladders /\ Less(w.b, n) \in Ladders
    <2> HIDE DEF n
    <2> QED
        BY <1>1, <1>3, WalkTypes, LessLadder
<1>6. Bought(w) = [a |-> Less(w.a, n), b |-> Less(w.b, n), left |-> w.left - n,
                   money |-> [a |-> w.money.a - c, b |-> w.money.b - d],
                   size |-> w.size + n, cost |-> w.cost + e, last |-> s]
    BY DEF Bought
<1> HIDE DEF n, c, d, e, s, u, v
<1>7. /\ w.left - n \in Nat /\ w.left - n < w.left /\ w.money.a - c \in Nat /\ w.money.b - d \in Nat
      /\ w.size + n \in Nat /\ w.cost + e \in Nat
    BY <1>3, <1>4, WalkTypes
<1> QED
    BY <1>4, <1>5, <1>6, <1>7 DEF Walks

\* There is the walk that the steps make.
LEMMA WalkedIs ==
    ASSUME NEW edge, NEW w \in Walks
    PROVE  /\ Walked(edge)[w] = IF Ends(w, edge) THEN w ELSE Walked(edge)[Bought(w)]
<1> DEFINE V == Walks
           base == {x \in Walks : Ends(x, edge)}
           b == [x \in Walks |-> x]
           next == [x \in Walks |-> Bought(x)]
           H == [x \in Walks \X Walks |-> x[2]]
           mu == [x \in Walks |-> x.left]
<1>1. base \in SUBSET Walks /\ b \in [Walks -> V] /\ \A x \in Walks : mu[x] \in Nat
    BY WalkTypes
<1>2. \A x \in Walks \ base : next[x] \in Walks /\ mu[next[x]] < mu[x]
    BY BoughtIs
<1>3. \A x \in Walks \ base : \A v \in V : H[<<x, v>>] \in V
    OBVIOUS
<1>4. PICK f \in [Walks -> V] : \A x \in Walks : f[x] = OneStep(f, x, base, b, next, H)
    <2> HIDE DEF V, base, b, next, H, mu
    <2>1. Descends(Walks, V, base, b, next, H, mu)
        BY ONLY <1>1, <1>2, <1>3 DEF Descends
    <2> QED
        BY ONLY <2>1, Recursion
<1> DEFINE Step(g, x) == IF Ends(x, edge) THEN x ELSE g[Bought(x)]
           Is(g) == g = [x \in Walks |-> Step(g, x)]
<1>5. ASSUME NEW x \in Walks PROVE f[x] = Step(f, x)
    <2>1. f[x] = IF x \in base THEN b[x] ELSE H[<<x, f[next[x]]>>]
        BY <1>4 DEF OneStep
    <2>2. CASE Ends(x, edge)
        BY <2>1, <2>2
    <2>3. CASE ~Ends(x, edge)
        <3>1. next[x] = Bought(x) /\ Bought(x) \in Walks /\ x \notin base
            BY <2>3, BoughtIs
        <3>2. f[Bought(x)] \in V
            BY <1>4, <3>1
        <3>3. H[<<x, f[Bought(x)]>>] = f[Bought(x)]
            BY <3>2
        <3> QED
            BY <2>1, <2>3, <3>1, <3>3
    <2> QED
        BY <2>2, <2>3
<1>6. Is(f)
    <2> HIDE DEF Step
    <2> QED
        BY <1>4, <1>5
<1>7. Walked(edge) = CHOOSE g : Is(g)
    BY Zenon DEF Walked
<1>8. Is(Walked(edge))
    <2> HIDE DEF Is
    <2> QED
        BY <1>6, <1>7
<1> QED
    BY <1>8

-----------------------------------------------------------------------------
(* What a walk finds *)

\* So much can be bought of both legs: there is as much, the money lasts, and it brings an edge.
Fits(lim, q) ==
    /\ q \in Nat /\ q <= lim.size * Parts /\ q <= Offered(A) /\ q <= Offered(B)
    /\ CostOf(A, q) <= lim.a /\ CostOf(B, q) <= lim.b
    /\ q > 0 => Dollar - Unit(PriceAt(A, q)) - Unit(PriceAt(B, q)) > lim.edge

Limit == [size : Nat, edge : Nat, a : Nat, b : Nat]

LEMMA DollarNat == Dollar \in Nat /\ Dollar > 0
<1>1. Ticks \in Nat /\ Ticks > 0 /\ Per \in Nat /\ Per > 0
    BY PricingConstants
<1>2. Ticks * Ticks \in Nat /\ Ticks * Ticks > 0
    BY <1>1
<1> DEFINE x == Ticks * Ticks
<1> HIDE DEF x
<1>3. x * Per \in Nat /\ x * Per > 0
    BY <1>1, <1>2 DEF x
<1> QED
    BY <1>3 DEF Dollar, x

\* What a part costs.
LEMMA PartCosts ==
    ASSUME NEW L1, Good(L1), NEW j \in Nat \ {0}, NEW k \in Nat \ {0}, j <= k, k <= Offered(L1)
    PROVE  Unit(PriceAt(L1, j)) \in Nat /\ Unit(PriceAt(L1, k)) \in Nat /\ Unit(PriceAt(L1, j)) <= Unit(PriceAt(L1, k))
<1>1. /\ PriceAt(L1, j) \in 1..Ticks /\ PriceAt(L1, k) \in 1..Ticks /\ PriceAt(L1, j) <= PriceAt(L1, k)
    BY PriceGrows
<1>2. PriceAt(L1, j) \in 0..Ticks /\ PriceAt(L1, k) \in 0..Ticks
    BY <1>1, PricingConstants
<1> QED
    BY <1>1, <1>2, UnitGrows

\* If so much can be bought, so can less.
LEMMA FitsDown ==
    ASSUME Good(A), Good(B), NEW lim \in Limit, NEW q, Fits(lim, q), NEW j \in Nat, j <= q
    PROVE  Fits(lim, j)
<1>1. /\ q \in Nat /\ q <= lim.size * Parts /\ q <= Offered(A) /\ q <= Offered(B)
      /\ CostOf(A, q) <= lim.a /\ CostOf(B, q) <= lim.b
      /\ q > 0 => Dollar - Unit(PriceAt(A, q)) - Unit(PriceAt(B, q)) > lim.edge
    BY DEF Fits
<1>2. /\ CostOf(A, j) \in Nat /\ CostOf(A, q) \in Nat /\ CostOf(A, j) <= CostOf(A, q)
      /\ CostOf(B, j) \in Nat /\ CostOf(B, q) \in Nat /\ CostOf(B, j) <= CostOf(B, q)
    BY <1>1, CostGrows
<1>3. ASSUME j > 0
      PROVE  /\ Unit(PriceAt(A, j)) \in Nat /\ Unit(PriceAt(A, q)) \in Nat /\ Unit(PriceAt(A, j)) <= Unit(PriceAt(A, q))
             /\ Unit(PriceAt(B, j)) \in Nat /\ Unit(PriceAt(B, q)) \in Nat /\ Unit(PriceAt(B, j)) <= Unit(PriceAt(B, q))
    <2>1. j \in Nat \ {0} /\ q \in Nat \ {0}
        BY <1>1, <1>3
    <2> QED
        BY <1>1, <2>1, PartCosts
<1>4. lim.a \in Nat /\ lim.b \in Nat /\ lim.edge \in Nat /\ lim.size * Parts \in Nat
    BY PricingConstants, TimesNat DEF Limit
<1>5. /\ Offered(A) \in Nat /\ Offered(B) \in Nat
    BY PricingConstants, UpToIs DEF Offered
<1>6. /\ j <= lim.size * Parts /\ j <= Offered(A) /\ j <= Offered(B)
      /\ CostOf(A, j) <= lim.a /\ CostOf(B, j) <= lim.b
    <2> DEFINE m == lim.size * Parts
    <2> HIDE DEF m
    <2> QED
        BY <1>1, <1>2, <1>4, <1>5 DEF m
<1>7. j > 0 => Dollar - Unit(PriceAt(A, j)) - Unit(PriceAt(B, j)) > lim.edge
    BY <1>1, <1>3, <1>4, DollarNat
<1> QED
    BY <1>6, <1>7 DEF Fits

\* A walk on its way: what is left to buy, and of the money, after what it has bought.
OnTheWay(lim, w) ==
    /\ w \in Walks /\ Left(A, w.size, w.a) /\ Left(B, w.size, w.b) /\ Fits(lim, w.size)
    /\ w.left = lim.size * Parts - w.size
    /\ w.money.a = lim.a - CostOf(A, w.size) /\ w.money.b = lim.b - CostOf(B, w.size)
    /\ w.cost = CostOf(A, w.size) + CostOf(B, w.size)
    /\ w.size > 0 => w.last = Unit(PriceAt(A, w.size)) + Unit(PriceAt(B, w.size))

\* A step, of one leg.
LEMMA LegOn ==
    ASSUME NEW L1, Good(L1), NEW s \in Nat, NEW R, Left(L1, s, R), R # <<>>, NEW n \in Nat, n > 0, n <= R[1].qty
    PROVE  /\ s + n <= Offered(L1) /\ CostOf(L1, s) \in Nat /\ Left(L1, s + n, Less(R, n))
           /\ CostOf(L1, s + n) = CostOf(L1, s) + n * Unit(R[1].price)
           /\ PriceAt(L1, s + n) = R[1].price /\ Unit(R[1].price) \in Nat
<1>0. R[1].qty \in Nat
    BY FirstIs DEF Left
<1>1. \A k \in 1..n : s + k \in Nat /\ s < s + k /\ s + k <= s + R[1].qty
    BY <1>0
<1>2. \A k \in 1..n : s + k <= Offered(L1) /\ PriceAt(L1, s + k) = R[1].price /\ R[1].price \in 1..Ticks
    BY <1>1, LeftPrice
<1>3. n \in 1..n
    OBVIOUS
<1>4. R[1].price \in 0..Ticks /\ R[1].price <= R[1].price
    BY <1>2, <1>3, PricingConstants
<1>5. s + n <= Offered(L1)
    BY <1>2, <1>3
<1>6. Span(L1, s, n, R[1].price, R[1].price)
    BY <1>2, <1>4, <1>5 DEF Span
<1>7. CostOf(L1, s) \in Nat /\ CostOf(L1, s + n) = CostOf(L1, s) + n * Unit(R[1].price)
    BY <1>6, CostSpan, CostFlat
<1>8. Left(L1, s + n, Less(R, n))
    BY LeftNext
<1> QED
    BY <1>2, <1>3, <1>4, <1>5, <1>7, <1>8, UnitGrows

LEMMA WayTypes ==
    ASSUME NEW lim \in Limit
    PROVE  /\ lim.a \in Nat /\ lim.b \in Nat /\ lim.edge \in Nat /\ lim.size \in Nat /\ lim.size * Parts \in Nat
           /\ Parts \in Nat /\ Parts > 0
BY PricingConstants, TimesNat DEF Limit

LEMMA WayOn ==
    ASSUME Good(A), Good(B), NEW lim \in Limit, NEW w, OnTheWay(lim, w), ~Ends(w, lim.edge)
    PROVE  OnTheWay(lim, Bought(w))
<1> DEFINE n == NextTaken(w)
           s == w.size
           u == Unit(w.a[1].price)
           v == Unit(w.b[1].price)
           c == CostOf(A, s)
           d == CostOf(B, s)
           x == Bought(w)
           ca == n * u
           cb == n * v
<1>1. /\ w \in Walks /\ w.a # <<>> /\ w.b # <<>> /\ ~(NextTaken(w) <= 0) /\ ~(Dollar - NextUnit(w) <= lim.edge)
      /\ NextUnit(w) = u + v
    BY DEF Ends, OnTheWay, NextUnit
<1>2. /\ n \in Nat /\ n > 0 /\ n <= w.a[1].qty /\ n <= w.b[1].qty /\ n <= w.left
      /\ ca <= w.money.a /\ cb <= w.money.b
    BY <1>1, TakenIs
<1>3. s \in Nat /\ Left(A, s, w.a) /\ Left(B, s, w.b)
    BY <1>1, WalkTypes DEF OnTheWay
<1> HIDE DEF n, s, x
<1>4. /\ s + n <= Offered(A) /\ c \in Nat /\ Left(A, s + n, Less(w.a, n))
      /\ CostOf(A, s + n) = c + ca /\ Unit(PriceAt(A, s + n)) = u /\ u \in Nat
    <2>1. /\ s + n <= Offered(A) /\ CostOf(A, s) \in Nat /\ Left(A, s + n, Less(w.a, n))
          /\ CostOf(A, s + n) = CostOf(A, s) + n * Unit(w.a[1].price)
          /\ PriceAt(A, s + n) = w.a[1].price /\ Unit(w.a[1].price) \in Nat
        BY <1>1, <1>2, <1>3, LegOn
    <2> QED
        BY <2>1
<1>5. /\ s + n <= Offered(B) /\ d \in Nat /\ Left(B, s + n, Less(w.b, n))
      /\ CostOf(B, s + n) = d + cb /\ Unit(PriceAt(B, s + n)) = v /\ v \in Nat
    <2>1. /\ s + n <= Offered(B) /\ CostOf(B, s) \in Nat /\ Left(B, s + n, Less(w.b, n))
          /\ CostOf(B, s + n) = CostOf(B, s) + n * Unit(w.b[1].price)
          /\ PriceAt(B, s + n) = w.b[1].price /\ Unit(w.b[1].price) \in Nat
        BY <1>1, <1>2, <1>3, LegOn
    <2> QED
        BY <2>1
<1>6. /\ x \in Walks /\ x.a = Less(w.a, n) /\ x.b = Less(w.b, n) /\ x.left = w.left - n
      /\ x.money.a = w.money.a - ca /\ x.money.b = w.money.b - cb
      /\ x.size = s + n /\ x.cost = w.cost + n * (u + v) /\ x.last = u + v
    <2>1. x \in Walks
        BY <1>1, BoughtIs DEF x
    <2>2. x = [a |-> Less(w.a, n), b |-> Less(w.b, n), left |-> w.left - n,
               money |-> [a |-> w.money.a - ca, b |-> w.money.b - cb],
               size |-> s + n, cost |-> w.cost + n * NextUnit(w), last |-> NextUnit(w)]
        BY DEF Bought, x, n, s
    <2> HIDE DEF ca, cb
    <2> QED
        BY <1>1, <2>1, <2>2
<1>7. n * (u + v) = ca + cb /\ ca \in Nat /\ cb \in Nat
    <2> HIDE DEF u, v
    <2> QED
        BY <1>2, <1>4, <1>5, TimesNat
<1>8. /\ w.left = lim.size * Parts - s /\ w.money.a = lim.a - c /\ w.money.b = lim.b - d /\ w.cost = c + d
    BY DEF OnTheWay, s
<1>9. lim.a \in Nat /\ lim.b \in Nat /\ lim.edge \in Nat /\ lim.size * Parts \in Nat
    BY WayTypes
<1> DEFINE m == lim.size * Parts
           e == CostOf(A, s + n)
           f == CostOf(B, s + n)
<1> HIDE DEF m, e, f, c, d, u, v, ca, cb
<1>10. /\ s + n \in Nat /\ s + n > 0 /\ s + n <= m /\ e <= lim.a /\ f <= lim.b
       /\ w.left - n = m - (s + n) /\ w.money.a - ca = lim.a - e /\ w.money.b - cb = lim.b - f
       /\ w.cost + n * (u + v) = e + f
    BY <1>2, <1>3, <1>4, <1>5, <1>7, <1>8, <1>9 DEF m, e, f
<1>11. Dollar - u - v > lim.edge
    BY <1>1, <1>4, <1>5, <1>9, DollarNat
<1>12. Fits(lim, s + n)
    BY <1>4, <1>5, <1>10, <1>11 DEF Fits, m, e, f
<1>13. OnTheWay(lim, x)
    BY <1>4, <1>5, <1>6, <1>10, <1>12 DEF OnTheWay, m, e, f
<1> QED
    BY <1>13 DEF x

\* Where a walk ends, no more can be bought.
LEMMA WayEnds ==
    ASSUME Good(A), Good(B), NEW lim \in Limit, NEW w, OnTheWay(lim, w), Ends(w, lim.edge)
    PROVE  ~Fits(lim, w.size + 1)
<1> DEFINE s == w.size
           k == s + 1
           u == Unit(w.a[1].price)
           v == Unit(w.b[1].price)
<1>0. /\ w \in Walks /\ s \in Nat /\ Left(A, s, w.a) /\ Left(B, s, w.b) /\ Fits(lim, s)
      /\ w.left = lim.size * Parts - s
      /\ w.money.a = lim.a - CostOf(A, s) /\ w.money.b = lim.b - CostOf(B, s)
    BY WalkTypes DEF OnTheWay
<1> HIDE DEF s
<1>1. SUFFICES ASSUME Fits(lim, k) PROVE FALSE
    BY DEF s
<1>2. /\ k \in Nat /\ k > 0 /\ k - 1 = s /\ s <= k
      /\ k <= lim.size * Parts /\ k <= Offered(A) /\ k <= Offered(B)
      /\ CostOf(A, k) <= lim.a /\ CostOf(B, k) <= lim.b
      /\ Dollar - Unit(PriceAt(A, k)) - Unit(PriceAt(B, k)) > lim.edge
    BY <1>0, <1>1 DEF Fits
<1>3. lim.a \in Nat /\ lim.b \in Nat /\ lim.edge \in Nat /\ lim.size * Parts \in Nat
    BY WayTypes
<1>4. Offered(A) \in Nat /\ Offered(B) \in Nat
    BY PricingConstants, UpToIs DEF Offered
<1>5. w.a # <<>> /\ w.b # <<>>
    <2>1. w.a = <<>> => Offered(A) <= s
        BY <1>0, NoneLeft
    <2>2. w.b = <<>> => Offered(B) <= s
        BY <1>0, NoneLeft
    <2> QED
        BY <1>0, <1>2, <1>4, <2>1, <2>2
<1>6. /\ w.a[1].qty \in Nat \ {0} /\ w.b[1].qty \in Nat \ {0} /\ 1 <= w.a[1].qty /\ 1 <= w.b[1].qty
    BY <1>0, <1>5, FirstIs DEF Left
<1> HIDE DEF k
<1>7. CostOf(A, s) \in Nat /\ CostOf(A, k) = CostOf(A, s) + u /\ Unit(PriceAt(A, k)) = u /\ u \in Nat
    <2>1. /\ CostOf(A, s) \in Nat /\ CostOf(A, s + 1) = CostOf(A, s) + 1 * u
          /\ PriceAt(A, s + 1) = w.a[1].price /\ u \in Nat
        BY <1>0, <1>5, <1>6, LegOn
    <2> QED
        BY <2>1 DEF k
<1>8. CostOf(B, s) \in Nat /\ CostOf(B, k) = CostOf(B, s) + v /\ Unit(PriceAt(B, k)) = v /\ v \in Nat
    <2>1. /\ CostOf(B, s) \in Nat /\ CostOf(B, s + 1) = CostOf(B, s) + 1 * v
          /\ PriceAt(B, s + 1) = w.b[1].price /\ v \in Nat
        BY <1>0, <1>5, <1>6, LegOn
    <2> QED
        BY <2>1 DEF k
<1>9. ~(Dollar - NextUnit(w) <= lim.edge)
    <2>1. NextUnit(w) = u + v
        BY DEF NextUnit
    <2> HIDE DEF u, v
    <2> QED
        BY <1>2, <1>3, <1>7, <1>8, <2>1, DollarNat
<1>10. NextTaken(w) <= 0
    BY <1>5, <1>9 DEF Ends
<1>11. w.left = 0 \/ w.money.a < u \/ w.money.b < v
    BY <1>0, <1>5, <1>6, <1>10, TakenIs
<1> DEFINE m == lim.size * Parts
           c == CostOf(A, s)
           d == CostOf(B, s)
           e == CostOf(A, k)
           f == CostOf(B, k)
<1> HIDE DEF m, c, d, e, f, u, v
<1>12. w.left = m - s /\ w.money.a = lim.a - c /\ w.money.b = lim.b - d
    BY <1>0 DEF m, c, d
<1>13. k <= m /\ e <= lim.a /\ f <= lim.b /\ e = c + u /\ f = d + v /\ c \in Nat /\ d \in Nat /\ m \in Nat
    BY <1>2, <1>3, <1>7, <1>8 DEF m, c, d, e, f
<1> QED
    BY <1>0, <1>2, <1>3, <1>7, <1>8, <1>11, <1>12, <1>13

Started(lim) ==
    [a |-> A, b |-> B, left |-> lim.size * Parts, money |-> [a |-> lim.a, b |-> lim.b], size |-> 0, cost |-> 0, last |-> 0]

LEMMA GoodLadder ==
    ASSUME NEW L1, Good(L1)
    PROVE  L1 \in Ladders
<1> DEFINE P == [price : 1..Ticks, qty : Nat]
<1>1. Len(L1) \in Nat /\ L1 = [i \in 1..Len(L1) |-> L1[i]] /\ \A i \in 1..Len(L1) : L1[i] \in Level
    BY DEF Good
<1>2. Level \subseteq P
    BY DEF Level
<1> HIDE DEF P
<1>3. L1 \in [1..Len(L1) -> P]
    BY <1>1, <1>2
<1>4. L1 \in Seq(P)
    BY <1>1, <1>3, SeqDef
<1> QED
    BY <1>4 DEF Ladders, P

LEMMA WayBegins ==
    ASSUME Good(A), Good(B), NEW lim \in Limit
    PROVE  Started(lim) \in Walks /\ OnTheWay(lim, Started(lim))
<1> DEFINE w == Started(lim)
           m == lim.size * Parts
<1>1. lim.a \in Nat /\ lim.b \in Nat /\ m \in Nat
    BY WayTypes
<1> HIDE DEF m
<1>2. w \in Walks
    <2>1. A \in Ladders /\ B \in Ladders
        BY GoodLadder
    <2> QED
        BY <1>1, <2>1 DEF Walks, Started, m
<1>3. /\ w.a = A /\ w.b = B /\ w.left = m /\ w.money.a = lim.a /\ w.money.b = lim.b
      /\ w.size = 0 /\ w.cost = 0
    BY DEF Started, m
<1> HIDE DEF w
<1>4. Offered(A) \in Nat /\ Offered(B) \in Nat
    BY PricingConstants, UpToIs DEF Offered
<1>5. CostOf(A, 0) = 0 /\ CostOf(B, 0) = 0
    <2>1. 0 <= Offered(A) /\ 0 <= Offered(B) /\ 0 \in Nat
        BY <1>4
    <2> QED
        BY <2>1, CostIs
<1>6. Left(A, 0, A) /\ Left(B, 0, B)
    BY AllLeft
<1>7. Fits(lim, 0)
    BY <1>1, <1>4, <1>5 DEF Fits, m
<1>8. OnTheWay(lim, w)
    BY <1>1, <1>2, <1>3, <1>5, <1>6, <1>7 DEF OnTheWay, m
<1> QED
    BY <1>2, <1>8 DEF w

Final(lim) == Walked(lim.edge)[Started(lim)]

\* A walk goes to its end, the most that can be bought.
LEMMA WalkFinds ==
    ASSUME Good(A), Good(B), NEW lim \in Limit
    PROVE  OnTheWay(lim, Final(lim)) /\ \A q \in Nat : Fits(lim, q) <=> q <= Final(lim).size
<1> DEFINE Goes(w) == OnTheWay(lim, Walked(lim.edge)[w]) /\ Ends(Walked(lim.edge)[w], lim.edge)
           X == {m \in Nat : \A w \in Walks : OnTheWay(lim, w) /\ w.left <= m => Goes(w)}
<1>1. ASSUME NEW w \in Walks, OnTheWay(lim, w), Ends(w, lim.edge) PROVE Goes(w)
    BY <1>1, WalkedIs
<1>2. ASSUME NEW w \in Walks, OnTheWay(lim, w), ~Ends(w, lim.edge)
      PROVE  /\ Bought(w) \in Walks /\ OnTheWay(lim, Bought(w)) /\ Bought(w).left < w.left
             /\ Walked(lim.edge)[w] = Walked(lim.edge)[Bought(w)]
    BY <1>2, WalkedIs, BoughtIs, WayOn
<1>3. 0 \in X
    <2> SUFFICES ASSUME NEW w \in Walks, OnTheWay(lim, w), w.left <= 0 PROVE Goes(w)
        OBVIOUS
    <2>1. Ends(w, lim.edge)
        <3> SUFFICES ASSUME ~Ends(w, lim.edge) PROVE FALSE
            OBVIOUS
        <3>1. Bought(w) \in Walks /\ Bought(w).left < w.left
            BY <1>2
        <3>2. Bought(w).left \in Nat /\ w.left \in Nat
            BY <3>1, WalkTypes
        <3> QED
            BY <3>1, <3>2
    <2> QED
        BY <1>1, <2>1
<1>4. ASSUME NEW m \in Nat, m \in X PROVE m + 1 \in X
    <2> SUFFICES ASSUME NEW w \in Walks, OnTheWay(lim, w), w.left <= m + 1 PROVE Goes(w)
        OBVIOUS
    <2>1. CASE Ends(w, lim.edge)
        BY <1>1, <2>1
    <2>2. CASE ~Ends(w, lim.edge)
        <3>1. /\ Bought(w) \in Walks /\ OnTheWay(lim, Bought(w)) /\ Bought(w).left < w.left
              /\ Walked(lim.edge)[w] = Walked(lim.edge)[Bought(w)]
            BY <1>2, <2>2
        <3>2. Bought(w).left \in Nat /\ w.left \in Nat
            BY <3>1, WalkTypes
        <3>3. Bought(w).left <= m
            BY <3>1, <3>2
        <3>4. Goes(Bought(w))
            BY <1>4, <3>1, <3>3
        <3> QED
            BY <3>1, <3>4
    <2> QED
        BY <2>1, <2>2
<1>5. \A m \in Nat : m \in X
    <2> HIDE DEF X
    <2>1. X \in SUBSET Nat
        BY DEF X
    <2> QED
        BY <1>3, <1>4, <2>1, SetInduction
<1>6. Goes(Started(lim))
    <2>1. Started(lim) \in Walks /\ OnTheWay(lim, Started(lim))
        BY WayBegins
    <2>2. Started(lim).left \in Nat /\ Started(lim).left <= Started(lim).left
        BY <2>1, WalkTypes
    <2>3. Started(lim).left \in X
        BY <1>5, <2>2
    <2> HIDE DEF Goes
    <2> QED
        BY <2>1, <2>2, <2>3
<1> DEFINE z == Final(lim).size
<1>7. OnTheWay(lim, Final(lim)) /\ ~Fits(lim, z + 1)
    BY <1>6, WayEnds DEF Final
<1>8. z \in Nat /\ Fits(lim, z)
    BY <1>7, WalkTypes DEF OnTheWay
<1> HIDE DEF z
<1>9. ASSUME NEW q \in Nat PROVE Fits(lim, q) <=> q <= z
    <2>1. q <= z => Fits(lim, q)
        BY <1>8, FitsDown
    <2>2. ASSUME Fits(lim, q), ~(q <= z) PROVE FALSE
        <3>1. z + 1 \in Nat /\ z + 1 <= q
            BY <1>8, <2>2
        <3>2. Fits(lim, z + 1)
            BY <2>2, <3>1, FitsDown
        <3> QED
            BY <1>7, <3>2
    <2> QED
        BY <2>1, <2>2
<1> QED
    BY <1>7, <1>9 DEF z

-----------------------------------------------------------------------------
(* Whole levels *)

LEMMA Rounded ==
    ASSUME NEW z \in Nat, NEW n \in Nat, n > 0
    PROVE  /\ z \div n \in Nat /\ z % n \in 0..(n - 1) /\ z = (z \div n) * n + (z % n)
           /\ (z \div n) * n \in Nat /\ (z \div n) * n <= z
           /\ \A j \in Nat : j <= z \div n <=> j * n <= z
<1>1. z \div n \in Nat /\ \A j \in Nat : j <= z \div n <=> j * n <= z
    BY DivIs
<1>2. z % n \in 0..(n - 1) /\ z = (z \div n) * n + (z % n)
    OBVIOUS
<1> DEFINE q == z \div n
<1> HIDE DEF q
<1>3. q * n \in Nat
    BY <1>1, TimesNat DEF q
<1>4. q * n <= z
    BY <1>1 DEF q
<1> QED
    BY <1>1, <1>2, <1>3, <1>4 DEF q

\* A ladder of whole levels offers whole contracts at any price.
LEMMA WholeUpTo ==
    ASSUME NEW L1, Good(L1), Whole(L1)
    PROVE  \A p \in 0..Ticks : \E c \in Nat : UpTo(L1, p) = c * Parts
<1> DEFINE X == {p \in Nat : p <= Ticks => \E c \in Nat : UpTo(L1, p) = c * Parts}
<1>0. Ticks \in Nat /\ Parts \in Nat /\ Parts > 0
    BY PricingConstants
<1>1. \A i \in 1..Len(L1) : \E c \in Nat : L1[i].qty = c * Parts
    <2> SUFFICES ASSUME NEW i \in 1..Len(L1) PROVE \E c \in Nat : L1[i].qty = c * Parts
        OBVIOUS
    <2>1. L1[i].qty \in Nat /\ L1[i] \in ToSet(L1)
        BY Levels DEF ToSet
    <2>2. L1[i].qty % Parts = 0
        BY <2>1 DEF Whole
    <2> DEFINE x == L1[i].qty
    <2>3. x \in Nat /\ x % Parts = 0
        BY <2>1, <2>2
    <2> HIDE DEF x
    <2>4. x \div Parts \in Nat /\ x = (x \div Parts) * Parts + (x % Parts) /\ (x \div Parts) * Parts \in Nat
        BY <1>0, <2>3, Rounded
    <2>5. x = (x \div Parts) * Parts
        BY <2>3, <2>4
    <2> QED
        BY <2>4, <2>5 DEF x
<1>2. 0 \in X
    <2>1. UpTo(L1, 0) = 0 * Parts /\ 0 \in Nat
        BY <1>0, UpToIs
    <2> QED
        BY <2>1
<1>3. ASSUME NEW p \in Nat, p \in X PROVE p + 1 \in X
    <2> SUFFICES ASSUME p + 1 <= Ticks PROVE \E c \in Nat : UpTo(L1, p + 1) = c * Parts
        OBVIOUS
    <2>1. p + 1 \in 1..Ticks /\ (p + 1) - 1 = p
        BY <1>0
    <2>2. PICK c \in Nat : UpTo(L1, p) = c * Parts
        BY <1>0, <1>3
    <2>3. CASE \E i \in 1..Len(L1) : L1[i].price = p + 1
        <3>1. PICK i \in 1..Len(L1) : L1[i].price = p + 1
            BY <2>3
        <3>2. UpTo(L1, p + 1) = L1[i].qty + UpTo(L1, p)
            BY <2>1, <3>1, UpToNext
        <3>3. PICK d \in Nat : L1[i].qty = d * Parts
            BY <1>1
        <3>4. c + d \in Nat /\ (c + d) * Parts = d * Parts + c * Parts
            BY <1>0
        <3> QED
            BY <2>2, <3>2, <3>3, <3>4
    <2>4. CASE \A i \in 1..Len(L1) : L1[i].price # p + 1
        <3>1. UpTo(L1, p + 1) = UpTo(L1, p)
            BY <2>1, <2>4, UpToNext
        <3> QED
            BY <2>2, <3>1
    <2> QED
        BY <2>3, <2>4
<1>4. \A p \in Nat : p \in X
    <2> HIDE DEF X
    <2>1. X \in SUBSET Nat
        BY DEF X
    <2> QED
        BY <1>2, <1>3, <2>1, SetInduction
<1> QED
    BY <1>0, <1>4

\* The parts of a contract are of one level then.
LEMMA WholePrice ==
    ASSUME NEW L1, Good(L1), Whole(L1), NEW m \in Nat, NEW j \in 1..Parts, NEW k \in 1..Parts, j <= k, m * Parts + k <= Offered(L1)
    PROVE  PriceAt(L1, m * Parts + j) = PriceAt(L1, m * Parts + k)
<1> DEFINE b == m * Parts
           x == PriceAt(L1, b + j)
           y == PriceAt(L1, b + k)
<1>0. Ticks \in Nat /\ Parts \in Nat /\ Parts > 0 /\ b \in Nat /\ j \in Nat /\ k \in Nat
    BY PricingConstants, TimesNat
<1>1. b + j \in Nat \ {0} /\ b + k \in Nat \ {0} /\ b + j <= b + k /\ b + k <= Offered(L1)
    <2> HIDE DEF b
    <2>1. b + k <= Offered(L1)
        BY DEF b
    <2> QED
        BY <1>0, <2>1
<1>2. b + j <= Offered(L1) /\ x \in 1..Ticks /\ y \in 1..Ticks /\ x <= y
    <2> HIDE DEF b
    <2> QED
        BY <1>1, PriceGrows
<1>3. x \in 0..Ticks /\ UpTo(L1, x) >= b + j
    <2> HIDE DEF b
    <2>1. x \in 0..Ticks /\ x <= x
        BY <1>0, <1>2
    <2> QED
        BY <1>1, <1>2, <2>1, PriceAtIs
<1>4. PICK c \in Nat : UpTo(L1, x) = c * Parts
    BY <1>3, WholeUpTo
<1>5. c >= m + 1
    <2> SUFFICES ASSUME c <= m PROVE FALSE
        OBVIOUS
    <2>1. c * Parts <= b /\ c * Parts \in Nat
        BY <1>0, TimesUp, TimesNat
    <2> DEFINE d == c * Parts
    <2> HIDE DEF b, d
    <2>2. d >= b + j /\ d <= b /\ d \in Nat /\ j >= 1
        BY <1>3, <1>4, <2>1 DEF d
    <2> QED
        BY <1>0, <2>2
<1>6. UpTo(L1, x) >= b + k
    <2>1. (m + 1) * Parts <= c * Parts /\ (m + 1) * Parts = b + Parts /\ c * Parts \in Nat
        BY <1>0, <1>5, TimesUp, TimesNat, OneMore
    <2> DEFINE d == c * Parts
    <2> HIDE DEF b, d
    <2>2. b + Parts <= d /\ d \in Nat /\ k <= Parts
        BY <2>1 DEF d
    <2>3. d >= b + k
        BY <1>0, <2>2
    <2> QED
        BY <1>4, <2>3 DEF d
<1>7. y <= x
    <2> HIDE DEF b
    <2> QED
        BY <1>1, <1>3, <1>6, PriceAtIs
<1> HIDE DEF x, y
<1>8. x = y
    BY <1>0, <1>2, <1>7
<1> QED
    BY <1>8 DEF x, y

-----------------------------------------------------------------------------
(* How a pair is sized *)

\* What the parts past the last whole contract cost: no more each than the last of them; as
\* much, if the levels are of whole contracts.
LEMMA TailCost ==
    ASSUME NEW L1, Good(L1), NEW m \in Nat, NEW r \in 1..Parts, m * Parts + r <= Offered(L1)
    PROVE  /\ CostOf(L1, m * Parts) \in Nat /\ CostOf(L1, m * Parts + r) \in Nat
           /\ Unit(PriceAt(L1, m * Parts + r)) \in Nat
           /\ CostOf(L1, m * Parts + r) <= CostOf(L1, m * Parts) + r * Unit(PriceAt(L1, m * Parts + r))
           /\ Whole(L1) => CostOf(L1, m * Parts + r) = CostOf(L1, m * Parts) + r * Unit(PriceAt(L1, m * Parts + r))
<1> DEFINE s == m * Parts
           p == PriceAt(L1, s + r)
<1>0. Ticks \in Nat /\ Parts \in Nat /\ Parts > 0 /\ s \in Nat /\ r \in Nat /\ r > 0 /\ s + r <= Offered(L1)
    BY PricingConstants, TimesNat
<1>1. Whole(L1) => \A j \in 1..r : PriceAt(L1, s + j) = p
    <2> SUFFICES ASSUME Whole(L1), NEW j \in 1..r PROVE PriceAt(L1, s + j) = p
        OBVIOUS
    <2>1. j \in 1..Parts /\ j <= r
        BY <1>0
    <2> QED
        BY <1>0, <2>1, WholePrice
<1> HIDE DEF s, p
<1>2. ASSUME NEW j \in 1..r PROVE PriceAt(L1, s + j) \in 1..Ticks /\ PriceAt(L1, s + j) <= p
    <2>1. s + j \in Nat \ {0} /\ s + r \in Nat \ {0} /\ s + j <= s + r
        BY <1>0
    <2> QED
        BY <1>0, <2>1, PriceGrows DEF p
<1>3. r \in 1..r
    BY <1>0
<1>4. p \in 1..Ticks /\ p \in 0..Ticks /\ 0 \in 0..Ticks /\ p <= p
    BY <1>0, <1>2, <1>3 DEF p
<1>5. Unit(p) \in Nat
    BY <1>4, UnitGrows
<1>6. ASSUME NEW j \in 1..r PROVE 0 <= PriceAt(L1, s + j)
    <2> DEFINE x == PriceAt(L1, s + j)
    <2>1. x \in 1..Ticks
        BY <1>2
    <2> HIDE DEF x
    <2>2. 0 <= x
        BY <1>0, <2>1
    <2> QED
        BY <2>2 DEF x
<1>7. Span(L1, s, r, 0, p)
    BY <1>0, <1>2, <1>4, <1>6 DEF Span
<1>8. CostOf(L1, s) \in Nat /\ CostOf(L1, s + r) \in Nat /\ CostOf(L1, s + r) <= CostOf(L1, s) + r * Unit(p)
    BY <1>7, CostSpan
<1>9. ASSUME Whole(L1) PROVE CostOf(L1, s + r) = CostOf(L1, s) + r * Unit(p)
    <2>1. Span(L1, s, r, p, p)
        <3>1. \A j \in 1..r : p <= PriceAt(L1, s + j) /\ PriceAt(L1, s + j) <= p
            BY <1>1, <1>4, <1>9
        <3> QED
            BY <1>0, <1>4, <3>1 DEF Span
    <2> QED
        BY <2>1, CostFlat
<1> QED
    BY <1>5, <1>8, <1>9 DEF s, p

\* The greatest of a set of naturals.
LEMMA MaxIs ==
    ASSUME NEW S \in SUBSET Nat, NEW m \in S, \A x \in S : x <= m
    PROVE  Max(S) = m
<1>1. \E x \in S : \A y \in S : x >= y
    OBVIOUS
<1>2. Max(S) \in S /\ \A y \in S : Max(S) >= y
    BY <1>1 DEF Max
<1> DEFINE x == Max(S)
<1> HIDE DEF x
<1>3. x \in Nat /\ m \in Nat /\ x >= m /\ x <= m
    BY <1>2 DEF x
<1> QED
    BY <1>3 DEF x

SizeOf(lim) == Final(lim).size \div Parts
Costing(n) == CostOf(A, n * Parts) + CostOf(B, n * Parts)

LEMMA WalkIs ==
    ASSUME NEW lim
    PROVE  /\ Walk(A, B, lim).size = SizeOf(lim)
           /\ Walk(A, B, lim).cost = IF SizeOf(lim) = 0 THEN 0 ELSE Dropped(Final(lim))
           /\ Walk(A, B, lim).profit = SizeOf(lim) * Parts * Dollar - Walk(A, B, lim).cost
BY Zenon DEF Walk, Final, Started, SizeOf

\* The most whole contracts that can be bought.
LEMMA SizeIs ==
    ASSUME Good(A), Good(B), NEW lim \in Limit
    PROVE  /\ SizeOf(lim) \in Nat /\ SizeOf(lim) <= lim.size
           /\ \A n \in Nat : n <= SizeOf(lim) <=> Fits(lim, n * Parts)
<1> DEFINE z == Final(lim).size
           m == SizeOf(lim)
<1>0. Parts \in Nat /\ Parts > 0 /\ lim.size \in Nat /\ lim.size * Parts \in Nat
    BY WayTypes
<1>1. OnTheWay(lim, Final(lim)) /\ \A q \in Nat : Fits(lim, q) <=> q <= z
    BY WalkFinds
<1>2. z \in Nat
    BY <1>1, WalkTypes DEF OnTheWay
<1>3. m = z \div Parts
    BY DEF SizeOf
<1> HIDE DEF z, m
<1>4. m \in Nat /\ \A n \in Nat : n <= m <=> n * Parts <= z
    BY <1>0, <1>2, <1>3, Rounded
<1>5. \A n \in Nat : n * Parts \in Nat
    BY <1>0, TimesNat
<1>6. \A n \in Nat : n <= m <=> Fits(lim, n * Parts)
    BY <1>1, <1>4, <1>5
<1>7. m <= lim.size
    <2> SUFFICES ASSUME lim.size + 1 <= m PROVE FALSE
        BY <1>0, <1>4
    <2>1. lim.size + 1 \in Nat /\ (lim.size + 1) * Parts = lim.size * Parts + Parts
        <3>1. lim.size + 1 \in Nat
            BY <1>0
        <3> QED
            BY <1>0, <3>1, OneMore
    <2>2. Fits(lim, (lim.size + 1) * Parts)
        BY <1>6, <2>1
    <2>3. (lim.size + 1) * Parts <= lim.size * Parts
        BY <2>2 DEF Fits
    <2> DEFINE x == lim.size * Parts
    <2> HIDE DEF x
    <2>4. x + Parts <= x /\ x \in Nat
        BY <1>0, <2>1, <2>3 DEF x
    <2> QED
        BY <1>0, <2>4
<1> QED
    BY <1>4, <1>6, <1>7 DEF m

LEMMA SizesAre ==
    ASSUME Good(A), Good(B), NEW lim \in Limit
    PROVE  /\ \A n : n \in Sizes(lim) <=> n \in Nat \ {0} /\ n <= SizeOf(lim)
           /\ SizeOf(lim) = Max({0} \cup Sizes(lim))
<1> DEFINE m == SizeOf(lim)
           S == {0} \cup Sizes(lim)
<1>0. Parts \in Nat /\ Parts > 0 /\ lim.size \in Nat /\ lim.size * Parts \in Nat
    BY WayTypes
<1>1. m \in Nat /\ m <= lim.size /\ \A n \in Nat : n <= m <=> Fits(lim, n * Parts)
    BY SizeIs
<1> HIDE DEF m
<1>2. ASSUME NEW n \in 1..lim.size
      PROVE  n \in Sizes(lim) <=> Fits(lim, n * Parts)
    <2> DEFINE q == n * Parts
    <2>1. q \in Nat /\ q > 0
        BY <1>0
    <2>2. q <= lim.size * Parts
        BY <1>0, TimesUp
    <2>3. n \in Sizes(lim) <=>
            /\ q <= Offered(A) /\ q <= Offered(B) /\ CostOf(A, q) <= lim.a /\ CostOf(B, q) <= lim.b
            /\ Dollar - Unit(PriceAt(A, q)) - Unit(PriceAt(B, q)) > lim.edge
        BY DEF Sizes
    <2> HIDE DEF q
    <2>4. n \in Sizes(lim) <=> Fits(lim, q)
        BY <2>1, <2>2, <2>3 DEF Fits
    <2> QED
        BY <2>4 DEF q
<1>3. Sizes(lim) \subseteq 1..lim.size
    BY DEF Sizes
<1>4. ASSUME NEW n PROVE n \in Sizes(lim) <=> n \in Nat \ {0} /\ n <= m
    <2>1. CASE n \in 1..lim.size
        <3>1. n \in Nat /\ n > 0
            BY <1>0, <2>1
        <3> QED
            BY <1>1, <1>2, <2>1, <3>1
    <2>2. CASE n \notin 1..lim.size
        <3>1. n \notin Sizes(lim)
            BY <1>3, <2>2
        <3>2. ~(n \in Nat \ {0} /\ n <= m)
            BY <1>0, <1>1, <2>2
        <3> QED
            BY <3>1, <3>2
    <2> QED
        BY <2>1, <2>2
<1>5. m \in S /\ S \in SUBSET Nat /\ \A x \in S : x <= m
    BY <1>1, <1>4
<1> HIDE DEF S
<1>6. Max(S) = m
    BY <1>5, MaxIs
<1> QED
    BY <1>4, <1>6 DEF m, S

\* A size costs what it should: no more than its parts do.
LEMMA SizedCost ==
    ASSUME Good(A), Good(B), NEW lim \in Limit
    PROVE  /\ Walk(A, B, lim).cost \in Int /\ Costing(SizeOf(lim)) \in Nat
           /\ Walk(A, B, lim).cost <= Costing(SizeOf(lim))
           /\ Whole(A) /\ Whole(B) => Walk(A, B, lim).cost = Costing(SizeOf(lim))
<1> DEFINE w == Final(lim)
           z == w.size
           m == SizeOf(lim)
           s == m * Parts
           r == z % Parts
           c == Walk(A, B, lim).cost
<1>0. Parts \in Nat /\ Parts > 0
    BY PricingConstants
<1>1. OnTheWay(lim, w)
    BY WalkFinds
<1>2. /\ z \in Nat /\ w.last \in Nat /\ w.cost \in Nat /\ Fits(lim, z) /\ w.cost = CostOf(A, z) + CostOf(B, z)
      /\ z > 0 => w.last = Unit(PriceAt(A, z)) + Unit(PriceAt(B, z))
    BY <1>1, WalkTypes DEF OnTheWay
<1>3. m \in Nat /\ s \in Nat /\ r \in 0..(Parts - 1) /\ z = s + r
    BY <1>0, <1>2, Rounded DEF SizeOf
<1>4. c = IF m = 0 THEN 0 ELSE w.cost - r * w.last
    BY WalkIs DEF Dropped
<1>5. z <= Offered(A) /\ z <= Offered(B) /\ Offered(A) \in Nat /\ Offered(B) \in Nat
    BY <1>2, PricingConstants, UpToIs DEF Fits, Offered
<1>6. Costing(m) = CostOf(A, s) + CostOf(B, s)
    BY DEF Costing
<1> HIDE DEF w, z, m, r, c
<1>7. CostOf(A, s) \in Nat /\ CostOf(B, s) \in Nat
    <2> HIDE DEF s
    <2>1. s <= Offered(A) /\ s <= Offered(B)
        BY <1>0, <1>3, <1>5
    <2> QED
        BY <1>3, <2>1, CostIs
<1>8. CASE m = 0
    <2>1. s = 0
        BY <1>0, <1>8
    <2>2. CostOf(A, s) = 0 /\ CostOf(B, s) = 0
        <3>1. 0 <= Offered(A) /\ 0 <= Offered(B)
            BY <1>5
        <3> QED
            BY <2>1, <3>1, CostIs
    <2> QED
        BY <1>4, <1>6, <1>8, <2>2 DEF c, m
<1>9. CASE m # 0 /\ r = 0
    <2>1. z = s /\ 0 * w.last = 0
        BY <1>2, <1>3, <1>9
    <2>2. c = w.cost
        BY <1>2, <1>4, <1>9, <2>1
    <2> QED
        BY <1>2, <1>6, <1>7, <2>1, <2>2 DEF c, m
<1>10. CASE m # 0 /\ r # 0
    <2> DEFINE u == Unit(PriceAt(A, z))
               v == Unit(PriceAt(B, z))
               x == r * u
               y == r * v
    <2>1. r \in 1..Parts /\ z > 0
        BY <1>0, <1>3, <1>10
    <2>2. /\ CostOf(A, z) \in Nat /\ u \in Nat /\ CostOf(A, z) <= CostOf(A, s) + x
          /\ Whole(A) => CostOf(A, z) = CostOf(A, s) + x
        BY <1>3, <1>5, <2>1, TailCost
    <2>3. /\ CostOf(B, z) \in Nat /\ v \in Nat /\ CostOf(B, z) <= CostOf(B, s) + y
          /\ Whole(B) => CostOf(B, z) = CostOf(B, s) + y
        BY <1>3, <1>5, <2>1, TailCost
    <2>4. c = w.cost - r * (u + v)
        BY <1>2, <1>4, <1>10, <2>1
    <2> HIDE DEF u, v
    <2>5. r * (u + v) = x + y /\ x \in Nat /\ y \in Nat
        BY <2>1, <2>2, <2>3, TimesNat
    <2> DEFINE a == CostOf(A, z)
               b == CostOf(B, z)
               d == CostOf(A, s)
               e == CostOf(B, s)
    <2> HIDE DEF x, y, a, b, d, e
    <2>6. c = (a + b) - (x + y) /\ a \in Nat /\ b \in Nat /\ d \in Nat /\ e \in Nat /\ a <= d + x /\ b <= e + y
        BY <1>2, <1>7, <2>2, <2>3, <2>4, <2>5 DEF a, b, d, e
    <2>7. c \in Int /\ c <= d + e
        BY <2>5, <2>6
    <2>8. Whole(A) /\ Whole(B) => c = d + e
        BY <2>2, <2>3, <2>5, <2>6 DEF a, b, d, e
    <2> QED
        BY <1>6, <1>7, <2>7, <2>8 DEF c, m, d, e
<1> QED
    BY <1>8, <1>9, <1>10

LEMMA CostUnder ==
    ASSUME NEW L1, Good(L1), NEW x \in Nat, NEW y \in Nat, y < x, x <= Offered(L1)
    PROVE  /\ CostOf(L1, x) \in Nat /\ CostOf(L1, y) \in Nat /\ Unit(PriceAt(L1, x)) \in Nat
           /\ CostOf(L1, x) <= CostOf(L1, y) + (x - y) * Unit(PriceAt(L1, x))
<1> DEFINE d == x - y
           p == PriceAt(L1, x)
<1>0. Ticks \in Nat /\ d \in Nat /\ d > 0 /\ y + d = x /\ x \in Nat \ {0}
    BY PricingConstants
<1>1. p \in 1..Ticks
    BY <1>0, PriceAtIs
<1> HIDE DEF d
<1>2. ASSUME NEW k \in 1..d PROVE 0 <= PriceAt(L1, y + k) /\ PriceAt(L1, y + k) <= p
    <2>1. y + k \in Nat \ {0} /\ y + k <= x
        BY <1>0
    <2> DEFINE o == PriceAt(L1, y + k)
    <2>2. o \in 1..Ticks /\ o <= p
        BY <1>0, <2>1, PriceGrows
    <2> HIDE DEF o, p
    <2>3. 0 <= o
        BY <1>0, <2>2
    <2> QED
        BY <2>2, <2>3 DEF o
<1> HIDE DEF p
<1>3. p \in 0..Ticks /\ 0 \in 0..Ticks /\ y + d <= Offered(L1)
    BY <1>0, <1>1
<1>4. Span(L1, y, d, 0, p)
    BY <1>0, <1>2, <1>3 DEF Span
<1>5. /\ CostOf(L1, y) \in Nat /\ CostOf(L1, y + d) \in Nat /\ CostOf(L1, y + d) <= CostOf(L1, y) + d * Unit(p)
    BY <1>4, CostSpan
<1> QED
    BY <1>0, <1>3, <1>5, UnitGrows DEF d, p

\* With no least edge, no smaller size brings more: each part costs less than a dollar.
LEMMA SizedBest ==
    ASSUME Good(A), Good(B), NEW lim \in Limit, NEW n \in Nat, n <= SizeOf(lim)
    PROVE  SizeOf(lim) * Parts * Dollar - Costing(SizeOf(lim)) >= n * Parts * Dollar - Costing(n)
<1> DEFINE m == SizeOf(lim)
           x == m * Parts
           y == n * Parts
           D == Dollar
<1>0. Parts \in Nat /\ Parts > 0 /\ D \in Nat /\ lim.edge \in Nat
    BY PricingConstants, DollarNat, WayTypes
<1>1. m \in Nat /\ Fits(lim, x) /\ Fits(lim, y)
    BY SizeIs
<1>2. x \in Nat /\ y \in Nat /\ y <= x
    BY <1>0, <1>1, TimesNat, TimesUp
<1>3. x <= Offered(A) /\ x <= Offered(B) /\ (x > 0 => D - Unit(PriceAt(A, x)) - Unit(PriceAt(B, x)) > lim.edge)
    BY <1>1 DEF Fits
<1> DEFINE a == CostOf(A, x)
           b == CostOf(B, x)
           e == CostOf(A, y)
           f == CostOf(B, y)
<1>4. Costing(m) = a + b /\ Costing(n) = e + f /\ m * Parts * D = x * D /\ n * Parts * D = y * D
    BY DEF Costing
<1>5. a \in Nat /\ b \in Nat /\ e \in Nat /\ f \in Nat
    <2> HIDE DEF x, y
    <2> QED
        BY <1>2, <1>3, CostGrows
<1> HIDE DEF x, y, D, a, b, e, f
<1>6. x * D \in Nat /\ y * D \in Nat
    BY <1>0, <1>2, TimesNat
<1>7. x * D - (a + b) >= y * D - (e + f)
    <2>1. CASE x = y
        <3>1. a = e /\ b = f
            BY <2>1 DEF a, b, e, f
        <3> QED
            BY <1>5, <1>6, <2>1, <3>1
    <2>2. CASE x # y
        <3> DEFINE d == x - y
                   u == Unit(PriceAt(A, x))
                   v == Unit(PriceAt(B, x))
        <3>1. d \in Nat /\ y < x /\ x > 0 /\ x = y + d
            BY <1>2, <2>2
        <3>2. u \in Nat /\ v \in Nat /\ a <= e + d * u /\ b <= f + d * v
            BY <1>2, <1>3, <3>1, CostUnder DEF a, b, e, f
        <3>3. D - u - v > lim.edge
            BY <1>3, <3>1
        <3> HIDE DEF d, u, v
        <3>4. u + v <= D /\ u + v \in Nat
            BY <1>0, <3>2, <3>3
        <3>5. d * (u + v) <= d * D
            BY <1>0, <3>1, <3>4, TimesUp
        <3>6. d * (u + v) = d * u + d * v /\ x * D = y * D + d * D
            BY <1>0, <1>2, <3>1, <3>2
        <3>7. d * u \in Nat /\ d * v \in Nat /\ d * D \in Nat
            BY <1>0, <3>1, <3>2, TimesNat
        <3> DEFINE g == d * u
                   h == d * v
                   i == d * D
                   j == x * D
                   k == y * D
        <3>8. /\ g \in Nat /\ h \in Nat /\ i \in Nat /\ j \in Nat /\ k \in Nat /\ g + h <= i /\ j = k + i
              /\ a <= e + g /\ b <= f + h
            BY <1>6, <3>2, <3>5, <3>6, <3>7
        <3> HIDE DEF g, h, i, j, k
        <3>9. j - (a + b) >= k - (e + f)
            BY <1>5, <3>8
        <3> QED
            BY <3>9 DEF j, k
    <2> QED
        BY <2>1, <2>2
<1> QED
    BY <1>4, <1>7, Zenon DEF m, D

LEMMA SizedAsItShould ==
    ASSUME Good(A), Good(B), Cases \subseteq Limit
    PROVE  SizedRight
<1> SUFFICES ASSUME NEW lim \in Cases
             PROVE  /\ Walk(A, B, lim).size = Max({0} \cup Sizes(lim))
                    /\ Walk(A, B, lim).cost <= Costing(Walk(A, B, lim).size)
                    /\ Whole(A) /\ Whole(B) =>
                        /\ Walk(A, B, lim).cost = Costing(Walk(A, B, lim).size)
                        /\ lim.edge = 0 => \A n \in Sizes(lim) : Walk(A, B, lim).profit >= n * Parts * Dollar - Costing(n)
    BY Zenon DEF SizedRight, Costing
<1>1. lim \in Limit
    OBVIOUS
<1>2. Walk(A, B, lim).size = SizeOf(lim) /\ SizeOf(lim) = Max({0} \cup Sizes(lim))
    BY <1>1, WalkIs, SizesAre
<1>3. /\ Walk(A, B, lim).cost <= Costing(SizeOf(lim))
      /\ Whole(A) /\ Whole(B) => Walk(A, B, lim).cost = Costing(SizeOf(lim))
    BY <1>1, SizedCost
<1>4. ASSUME Whole(A), Whole(B), NEW n \in Sizes(lim)
      PROVE  Walk(A, B, lim).profit >= n * Parts * Dollar - Costing(n)
    <2>1. n \in Nat /\ n <= SizeOf(lim)
        BY <1>1, SizesAre
    <2>2. SizeOf(lim) * Parts * Dollar - Costing(SizeOf(lim)) >= n * Parts * Dollar - Costing(n)
        BY <1>1, <2>1, SizedBest
    <2>3. Walk(A, B, lim).profit = SizeOf(lim) * Parts * Dollar - Costing(SizeOf(lim))
        BY <1>3, <1>4, WalkIs
    <2> QED
        BY <2>2, <2>3
<1> QED
    BY <1>2, <1>3, <1>4

-----------------------------------------------------------------------------
(* What an order fills *)

\* One more at the end.
Longer(f, h, n) == n \in Nat /\ (\A i \in 1..n : f[i] \in Nat /\ h[i] = f[i]) /\ h[n + 1] \in Nat

LEMMA SumAtEnd ==
    ASSUME NEW f, NEW h, NEW n, Longer(f, h, n)
    PROVE  /\ SumFunctionOnSet(f, 1..n) \in Nat
           /\ SumFunctionOnSet(h, 1..(n + 1)) = SumFunctionOnSet(f, 1..n) + h[n + 1]
<1>0. n \in Nat /\ h[n + 1] \in Nat
    BY DEF Longer
<1>1. IsFiniteSet(1..n) /\ IsFiniteSet(1..(n + 1))
    <2>1. 1 \in Int /\ n \in Int /\ n + 1 \in Int
        BY <1>0
    <2> QED
        BY ONLY <2>1, FS_Interval
<1>2. n + 1 \in 1..(n + 1) /\ (1..(n + 1)) \ {n + 1} = 1..n
    BY <1>0
<1>3. \A i \in 1..n : f[i] = h[i]
    BY DEF Longer
<1>4. \A i \in 1..(n + 1) : h[i] \in Nat
    <2>1. \A i \in 1..n : h[i] \in Nat
        BY DEF Longer
    <2>2. \A i \in 1..(n + 1) : i \in 1..n \/ i = n + 1
        BY <1>0
    <2> QED
        BY <1>0, <2>1, <2>2
<1>5. Adds(h, 1..(n + 1)) /\ Adds(f, 1..n) /\ 1..n \subseteq 1..n
    BY <1>0, <1>1, <1>4 DEF Adds, Longer
<1>6. SumFunctionOnSet(h, 1..(n + 1)) = h[n + 1] + SumFunctionOnSet(h, (1..(n + 1)) \ {n + 1})
    BY <1>2, <1>5, SumOfPart
<1>7. SumFunctionOnSet(f, 1..n) = SumFunctionOnSet(h, 1..n)
    BY <1>1, <1>3, SumSame
<1>8. SumFunctionOnSet(f, 1..n) \in Nat
    BY <1>5, SumOfPart
<1>9. SumFunctionOnSet(h, 1..(n + 1)) = h[n + 1] + SumFunctionOnSet(f, 1..n)
    BY ONLY <1>2, <1>6, <1>7, Zenon
<1> DEFINE a == SumFunctionOnSet(f, 1..n)
           b == SumFunctionOnSet(h, 1..(n + 1))
           c == h[n + 1]
<1>10. a \in Nat /\ c \in Nat /\ b = c + a
    BY <1>0, <1>8, <1>9
<1> HIDE DEF a, b, c
<1>11. b = a + c
    BY ONLY <1>10
<1> QED
    BY <1>10, <1>11 DEF a, b, c

Fill == [price : 1..Ticks, qty : Nat]

LEMMA FillIs ==
    ASSUME NEW x \in Fill
    PROVE  x.qty \in Nat /\ x.price \in 1..Ticks /\ Unit(x.price) \in Nat /\ x.qty * Unit(x.price) \in Nat
<1>1. x.qty \in Nat /\ x.price \in 1..Ticks
    BY DEF Fill
<1>2. x.price \in 0..Ticks /\ x.price <= x.price
    BY <1>1, PricingConstants
<1>3. Unit(x.price) \in Nat
    BY <1>2, UnitGrows
<1> QED
    BY <1>1, <1>3, TimesNat

\* What fills hold and cost, and with one more.
LEMMA FillsAre ==
    ASSUME NEW t \in Seq(Fill)
    PROVE  /\ Len(t) \in Nat /\ DOMAIN t = 1..Len(t)
           /\ Spent(t) = SumFunctionOnSet([i \in DOMAIN t |-> t[i].qty * Unit(t[i].price)], 1..Len(t))
           /\ Offered(t) = SumFunctionOnSet(Quantity(t), 1..Len(t))
<1>1. Len(t) \in Nat /\ DOMAIN t = 1..Len(t) /\ \A i \in 1..Len(t) : t[i] \in Fill
    BY LenProperties
<1>2. Spent(t) = SumFunctionOnSet([i \in DOMAIN t |-> t[i].qty * Unit(t[i].price)], 1..Len(t))
    <2> DEFINE f == [i \in DOMAIN t |-> t[i].qty * Unit(t[i].price)]
    <2>1. Spent(t) = SumFunctionOnSet(f, DOMAIN f) /\ DOMAIN f = 1..Len(t)
        BY <1>1 DEF Spent, SumFunction
    <2> HIDE DEF f
    <2>2. Spent(t) = SumFunctionOnSet(f, 1..Len(t))
        BY <2>1
    <2> QED
        BY <2>2 DEF f
<1>3. Under(t, Ticks) = 1..Len(t)
    <2>1. \A i \in 1..Len(t) : t[i].price <= Ticks
        BY <1>1, FillIs, PricingConstants
    <2> QED
        BY <1>1, <2>1 DEF Under
<1> QED
    BY <1>1, <1>2, <1>3, UpToSum DEF Offered

LEMMA FillAdded ==
    ASSUME NEW t \in Seq(Fill), NEW x \in Fill
    PROVE  /\ Append(t, x) \in Seq(Fill)
           /\ Spent(t) \in Nat /\ Spent(Append(t, x)) = Spent(t) + x.qty * Unit(x.price)
           /\ Offered(t) \in Nat /\ Offered(Append(t, x)) = Offered(t) + x.qty
<1> DEFINE u == Append(t, x)
           n == Len(t)
           f == [i \in DOMAIN t |-> t[i].qty * Unit(t[i].price)]
           h == [i \in DOMAIN u |-> u[i].qty * Unit(u[i].price)]
           y == x.qty * Unit(x.price)
<1>1. /\ u \in Seq(Fill) /\ n \in Nat /\ Len(u) = n + 1 /\ DOMAIN t = 1..n /\ DOMAIN u = 1..(n + 1)
      /\ (\A i \in 1..n : u[i] = t[i]) /\ u[n + 1] = x /\ \A i \in 1..n : t[i] \in Fill
    BY AppendProperties, LenProperties
<1> HIDE DEF u, n
<1>2. \A i \in 1..n : i \in 1..(n + 1)
    BY <1>1
<1>3. n + 1 \in 1..(n + 1)
    BY <1>1
<1>4. Longer(f, h, n) /\ h[n + 1] = y
    <2>1. y \in Nat /\ h[n + 1] = y
        BY <1>1, <1>3, FillIs
    <2>2. \A i \in 1..n : t[i].qty * Unit(t[i].price) \in Nat
        BY <1>1, FillIs
    <2>3. \A i \in 1..n : f[i] = t[i].qty * Unit(t[i].price) /\ h[i] = f[i]
        BY <1>1, <1>2
    <2> HIDE DEF f, h, y
    <2> QED
        BY <1>1, <2>1, <2>2, <2>3 DEF Longer
<1>5. Longer(Quantity(t), Quantity(u), n) /\ Quantity(u)[n + 1] = x.qty
    <2>1. x.qty \in Nat /\ Quantity(u)[n + 1] = x.qty
        BY <1>1, <1>3, FillIs DEF Quantity
    <2>2. \A i \in 1..n : t[i].qty \in Nat
        BY <1>1, FillIs
    <2>3. \A i \in 1..n : Quantity(t)[i] = t[i].qty /\ Quantity(u)[i] = t[i].qty
        BY <1>1, <1>2 DEF Quantity
    <2> QED
        BY <1>1, <2>1, <2>2, <2>3 DEF Longer
<1>6. /\ Spent(t) = SumFunctionOnSet(f, 1..n) /\ Offered(t) = SumFunctionOnSet(Quantity(t), 1..n)
    BY FillsAre DEF n
<1>7. /\ Spent(u) = SumFunctionOnSet(h, 1..(n + 1)) /\ Offered(u) = SumFunctionOnSet(Quantity(u), 1..(n + 1))
    <2>1. Spent(u) = SumFunctionOnSet(h, 1..Len(u)) /\ Offered(u) = SumFunctionOnSet(Quantity(u), 1..Len(u))
        BY <1>1, FillsAre
    <2> QED
        BY <1>1, <2>1
<1> HIDE DEF f, h, y
<1>8. SumFunctionOnSet(f, 1..n) \in Nat /\ SumFunctionOnSet(h, 1..(n + 1)) = SumFunctionOnSet(f, 1..n) + y
    BY <1>4, SumAtEnd
<1>9. /\ SumFunctionOnSet(Quantity(t), 1..n) \in Nat
      /\ SumFunctionOnSet(Quantity(u), 1..(n + 1)) = SumFunctionOnSet(Quantity(t), 1..n) + x.qty
    BY <1>5, SumAtEnd
<1>10. Spent(t) \in Nat /\ Spent(u) = Spent(t) + y
    BY <1>6, <1>7, <1>8
<1>11. Offered(t) \in Nat /\ Offered(u) = Offered(t) + x.qty
    BY <1>6, <1>7, <1>9
<1> QED
    BY <1>1, <1>10, <1>11 DEF u, y

LEMMA NoFills == <<>> \in Seq(Fill) /\ Spent(<<>>) = 0 /\ Offered(<<>>) = 0
<1>1. <<>> \in Seq(Fill) /\ Len(<<>>) = 0 /\ 1..0 = {}
    OBVIOUS
<1>2. /\ Spent(<<>>) = SumFunctionOnSet([i \in DOMAIN <<>> |-> <<>>[i].qty * Unit(<<>>[i].price)], {})
      /\ Offered(<<>>) = SumFunctionOnSet(Quantity(<<>>), {})
    BY <1>1, FillsAre
<1> QED
    BY <1>1, <1>2, SumNothing

\* An order on its way: what it spent is what its fills cost, and never more than its money.
Held(limit, budget) ==
    {o \in [fills : Seq(Fill), left : Nat, limit : {limit}, budget : {budget}, spent : Nat] :
        o.spent = Spent(o.fills) /\ o.spent <= budget}

LEMMA HeldIs ==
    ASSUME NEW limit, NEW budget, NEW o \in Held(limit, budget)
    PROVE  /\ o.fills \in Seq(Fill) /\ o.left \in Nat /\ o.limit = limit /\ o.budget = budget /\ o.spent \in Nat
           /\ o.spent = Spent(o.fills) /\ o.spent <= budget
BY DEF Held

\* What is filled at a level.
Amount(o, l) == Min({l.qty \div Parts, o.left, Room(o.budget, o.spent, l.price)})

LEMMA AmountIs ==
    ASSUME NEW limit, NEW budget \in Nat, NEW o \in Held(limit, budget), NEW l \in Fill
    PROVE  /\ Amount(o, l) \in Nat /\ Amount(o, l) <= o.left
           /\ Amount(o, l) * Parts \in Nat /\ Amount(o, l) * Parts * Unit(l.price) \in Nat
           /\ Amount(o, l) * Parts * Unit(l.price) <= budget - o.spent
           /\ \A d \in Nat : d * Parts <= l.qty /\ d <= o.left /\ d * Parts * Unit(l.price) <= budget - o.spent
                              => d <= Amount(o, l)
           /\ Amount(o, l) * Parts <= l.qty
<1> DEFINE u == Unit(l.price)
           g == budget - o.spent
           e == Parts * u
           a == l.qty \div Parts
           b == g \div e
           S == {a, o.left, b}
           n == Amount(o, l)
<1>0. /\ Parts \in Nat /\ Parts > 0 /\ u \in Nat /\ u > 0 /\ l.qty \in Nat
      /\ o.left \in Nat /\ o.spent \in Nat /\ g \in Nat /\ o.budget = budget
    <2>1. l.price \in 0..Ticks /\ l.price > 0 /\ l.price <= l.price
        BY FillIs, PricingConstants
    <2> QED
        BY <2>1, UnitGrows, FillIs, PricingConstants, HeldIs
<1>1. n = Min(S)
    BY <1>0 DEF Amount, Room
<1> HIDE DEF u, g, n
<1>2. e \in Nat /\ e > 0
    BY <1>0
<1>3. \A k \in Nat : k * Parts \in Nat /\ k * Parts * u \in Nat /\ k * Parts * u = k * e
    BY <1>0, TimesNat
<1> HIDE DEF e
<1>4. a \in Nat /\ (\A k \in Nat : k <= a <=> k * Parts <= l.qty) /\ b \in Nat /\ \A k \in Nat : k <= b <=> k * e <= g
    BY <1>0, <1>2, DivIs
<1> HIDE DEF a, b
<1>5. n \in S /\ \A k \in S : n <= k
    <2>1. S \in SUBSET Nat /\ S # {}
        BY <1>0, <1>4
    <2> HIDE DEF S
    <2> QED
        BY <1>1, <2>1, MinIs
<1>6. n \in Nat /\ n <= o.left /\ n <= a /\ n <= b
    BY <1>0, <1>4, <1>5
<1>7. n * Parts <= l.qty /\ n * Parts * u <= g /\ n * Parts \in Nat /\ n * Parts * u \in Nat
    BY <1>3, <1>4, <1>6
<1>8. ASSUME NEW d \in Nat, d * Parts <= l.qty, d <= o.left, d * Parts * u <= g PROVE d <= n
    <2>1. d <= a /\ d <= b
        BY <1>3, <1>4, <1>8
    <2> QED
        BY <1>5, <1>8, <2>1
<1> QED
    BY <1>6, <1>7, <1>8 DEF u, g, n

\* The three ways of it.
LEMMA FilledIs ==
    ASSUME NEW limit \in Nat, NEW budget \in Nat, NEW o \in Held(limit, budget), NEW l \in Fill
    PROVE  /\ Filled(o, l) \in Held(limit, budget)
           /\ o.left = 0 => Filled(o, l).left = 0 /\ Filled(o, l).fills = o.fills
           /\ o.left > 0 /\ l.price <= limit /\ Amount(o, l) > 0 =>
                /\ Filled(o, l).left = o.left - Amount(o, l)
                /\ Offered(Filled(o, l).fills) = Offered(o.fills) + Amount(o, l) * Parts
                /\ Filled(o, l).spent = o.spent + Amount(o, l) * Parts * Unit(l.price)
<1> DEFINE n == Amount(o, l)
           x == [price |-> l.price, qty |-> n * Parts]
           c == n * Parts * Unit(l.price)
           done == [o EXCEPT !.left = 0]
           more == [o EXCEPT !.fills = Append(@, x), !.left = @ - n, !.spent = @ + c]
           Out == o.left <= 0 \/ l.price > o.limit \/ (n <= 0 /\ l.qty >= Parts)
           H == Held(limit, budget)
           f == Filled(o, l)
<1>0. /\ o.fills \in Seq(Fill) /\ o.left \in Nat /\ o.limit = limit /\ o.budget = budget /\ o.spent \in Nat
      /\ o.spent = Spent(o.fills) /\ o.spent <= budget
    BY HeldIs
<1>1. f = IF Out THEN done ELSE IF n <= 0 THEN o ELSE more
    BY Zenon DEF Filled, Amount
<1>2. n \in Nat /\ n <= o.left /\ n * Parts \in Nat /\ c \in Nat /\ c <= budget - o.spent
    BY AmountIs
<1>3. x \in Fill /\ x.qty = n * Parts /\ x.price = l.price /\ x.qty * Unit(x.price) = c
    BY <1>2, FillIs DEF Fill
<1> HIDE DEF n, x, c
<1>4. /\ Append(o.fills, x) \in Seq(Fill) /\ Spent(Append(o.fills, x)) = o.spent + c
      /\ Offered(Append(o.fills, x)) = Offered(o.fills) + n * Parts
    BY <1>0, <1>3, FillAdded
<1>5. done \in H /\ done.left = 0 /\ done.fills = o.fills
    BY DEF Held
<1>6. n > 0 => /\ more \in H /\ more.left = o.left - n /\ more.fills = Append(o.fills, x) /\ more.spent = o.spent + c
    <2> SUFFICES ASSUME n > 0
                 PROVE  /\ more \in H /\ more.left = o.left - n /\ more.fills = Append(o.fills, x) /\ more.spent = o.spent + c
        OBVIOUS
    <2> DEFINE R == [fills : Seq(Fill), left : Nat, limit : {limit}, budget : {budget}, spent : Nat]
    <2>1. o.left - n \in Nat /\ o.spent + c \in Nat /\ o.spent + c <= budget
        BY <1>0, <1>2
    <2>2. o \in R
        BY DEF Held
    <2> DEFINE k == o.left - n
               d == o.spent + c
               t == Append(o.fills, x)
               m == [o EXCEPT !.fills = t, !.left = k, !.spent = d]
    <2>3. more = m /\ k \in Nat /\ d \in Nat /\ t \in Seq(Fill) /\ Spent(t) = d /\ d <= budget
        BY <1>4, <2>1
    <2> HIDE DEF k, d, t, more
    <2>4. m \in R /\ m.left = k /\ m.fills = t /\ m.spent = d
        BY <2>2, <2>3
    <2> HIDE DEF m, R
    <2>5. m \in H
        BY <2>3, <2>4 DEF Held, R
    <2> QED
        BY <2>3, <2>4, <2>5 DEF k, d, t
<1> HIDE DEF done, more, H
<1>7. f \in H
    <2>1. o \in H
        BY DEF H
    <2> QED
        BY <1>1, <1>2, <1>5, <1>6, <2>1
<1>8. o.left = 0 => f.left = 0 /\ f.fills = o.fills
    BY <1>1, <1>5
<1>9. ASSUME o.left > 0, l.price <= limit, n > 0
      PROVE  f.left = o.left - n /\ f.fills = Append(o.fills, x) /\ f.spent = o.spent + c
    <2>1. ~Out /\ ~(n <= 0)
        <3>1. l.price \in Nat /\ l.price <= limit
            BY <1>9, FillIs, PricingConstants
        <3> QED
            BY <1>0, <1>2, <1>9, <3>1
    <2>2. f = more
        BY <1>1, <2>1
    <2> QED
        BY <1>6, <1>9, <2>2
<1> QED
    BY <1>4, <1>7, <1>8, <1>9 DEF n, c, H

Ordered(n, limit, budget) == [fills |-> <<>>, left |-> n, limit |-> limit, budget |-> budget, spent |-> 0]

\* The order after each of the levels.
TakesUp(g, L1, order) == g = [i \in 0..Len(L1) |-> IF i = 0 THEN order ELSE Filled(g[i - 1], L1[i])]
After(L1, order) == CHOOSE g : TakesUp(g, L1, order)

LEMMA TakeIs ==
    ASSUME NEW L1, NEW n, NEW limit, NEW budget
    PROVE  Take(L1, n, limit, budget) = After(L1, Ordered(n, limit, budget))[Len(L1)].fills
BY Zenon DEF Take, After, TakesUp, Ordered

LEMMA OrderedIs ==
    ASSUME NEW n \in Nat, NEW limit \in Nat, NEW budget \in Nat
    PROVE  Ordered(n, limit, budget) \in Held(limit, budget)
BY NoFills DEF Ordered, Held

LEMMA AfterIs ==
    ASSUME NEW L1, Good(L1), NEW limit \in Nat, NEW budget \in Nat, NEW order \in Held(limit, budget)
    PROVE  /\ After(L1, order)[0] = order
           /\ \A i \in 0..Len(L1) : After(L1, order)[i] \in Held(limit, budget)
           /\ \A i \in 1..Len(L1) : After(L1, order)[i] = Filled(After(L1, order)[i - 1], L1[i])
<1> DEFINE D == 0..Len(L1)
           V == Held(limit, budget)
           base == {0}
           b == [i \in D |-> order]
           next == [i \in D |-> i - 1]
           H == [z \in D \X V |-> Filled(z[2], L1[z[1]])]
           mu == [i \in D |-> i]
<1>0. Len(L1) \in Nat /\ \A i \in 1..Len(L1) : L1[i] \in Fill
    <2>1. L1 \in Ladders
        BY GoodLadder
    <2>2. L1 \in Seq(Fill)
        BY <2>1 DEF Ladders, Fill
    <2> QED
        BY <2>2, LenProperties
<1>1. base \in SUBSET D /\ b \in [D -> V] /\ \A i \in D : mu[i] \in Nat
    BY <1>0
<1>2. \A i \in D \ base : next[i] \in D /\ mu[next[i]] < mu[i]
    BY <1>0
<1>3. ASSUME NEW i \in D \ base, NEW v \in V PROVE H[<<i, v>>] \in V /\ H[<<i, v>>] = Filled(v, L1[i])
    <2>1. i \in 1..Len(L1)
        BY <1>0
    <2>2. Filled(v, L1[i]) \in V
        BY <1>0, <2>1, FilledIs
    <2>3. <<i, v>> \in D \X V /\ <<i, v>>[1] = i /\ <<i, v>>[2] = v
        OBVIOUS
    <2>4. H[<<i, v>>] = Filled(v, L1[i])
        BY <2>3
    <2> QED
        BY <2>2, <2>4
<1>4. \A i \in D \ base : \A v \in V : H[<<i, v>>] \in V
    BY <1>3
<1>5. PICK f \in [D -> V] : \A i \in D : f[i] = OneStep(f, i, base, b, next, H)
    <2> HIDE DEF D, V, base, b, next, H, mu
    <2>1. Descends(D, V, base, b, next, H, mu)
        BY ONLY <1>1, <1>2, <1>4 DEF Descends
    <2> QED
        BY ONLY <2>1, Recursion
<1>6. ASSUME NEW i \in D PROVE f[i] = IF i = 0 THEN order ELSE Filled(f[i - 1], L1[i])
    <2>1. f[i] = IF i \in base THEN b[i] ELSE H[<<i, f[next[i]]>>]
        BY <1>5 DEF OneStep
    <2>2. CASE i = 0
        BY <2>1, <2>2
    <2>3. CASE i # 0
        <3>1. next[i] = i - 1 /\ i - 1 \in D /\ i \in D \ base
            BY <1>0, <2>3
        <3>2. f[i - 1] \in V
            BY <1>5, <3>1
        <3>3. H[<<i, f[i - 1]>>] = Filled(f[i - 1], L1[i])
            BY <1>3, <3>1, <3>2
        <3> QED
            BY <2>1, <2>3, <3>1, <3>3
    <2> QED
        BY <2>2, <2>3
<1>7. TakesUp(f, L1, order)
    <2>1. f = [i \in D |-> f[i]]
        BY <1>5
    <2> QED
        BY <1>6, <2>1, Zenon DEF TakesUp, D
<1> DEFINE g == After(L1, order)
<1>8. TakesUp(g, L1, order)
    BY <1>7, Zenon DEF After
<1> HIDE DEF g
<1>9. \A i \in D : g[i] = IF i = 0 THEN order ELSE Filled(g[i - 1], L1[i])
    BY <1>8 DEF TakesUp
<1>10. g[0] = order /\ \A i \in 1..Len(L1) : g[i] = Filled(g[i - 1], L1[i])
    BY <1>0, <1>9
<1> DEFINE X == {i \in Nat : i <= Len(L1) => g[i] \in V}
<1>11. 0 \in X
    BY <1>10
<1>12. ASSUME NEW i \in Nat, i \in X PROVE i + 1 \in X
    <2> SUFFICES ASSUME i + 1 <= Len(L1) PROVE g[i + 1] \in V
        OBVIOUS
    <2>1. i + 1 \in 1..Len(L1) /\ (i + 1) - 1 = i /\ g[i] \in V
        BY <1>0, <1>12
    <2>2. g[i + 1] = Filled(g[i], L1[i + 1])
        BY <1>10, <2>1
    <2> QED
        BY <1>0, <2>1, <2>2, FilledIs
<1>13. \A i \in Nat : i \in X
    <2> HIDE DEF X
    <2>1. X \in SUBSET Nat
        BY DEF X
    <2> QED
        BY <1>11, <1>12, <2>1, SetInduction
<1>14. \A i \in 0..Len(L1) : g[i] \in V
    BY <1>0, <1>13
<1> QED
    BY <1>10, <1>14 DEF g

\* An order never spends more than its money.
LEMMA NeverOverspent ==
    ASSUME NEW L1, Good(L1), NEW n \in Nat, NEW limit \in Nat, NEW budget \in Nat
    PROVE  Spent(Take(L1, n, limit, budget)) <= budget
<1> DEFINE order == Ordered(n, limit, budget)
           o == After(L1, order)[Len(L1)]
<1>1. Len(L1) \in 0..Len(L1)
    BY Levels
<1>2. o \in Held(limit, budget)
    BY <1>1, OrderedIs, AfterIs
<1>3. Take(L1, n, limit, budget) = o.fills
    BY TakeIs
<1> HIDE DEF o
<1>4. o.spent = Spent(o.fills) /\ o.spent <= budget
    BY <1>2, HeldIs
<1> QED
    BY <1>3, <1>4

\* The first levels together are what there is up to the price of the last of them.
LEMMA ThroughIs ==
    ASSUME NEW L1, Good(L1)
    PROVE  /\ Through(L1, 0) = 0 /\ Through(L1, Len(L1)) = Offered(L1)
           /\ \A i \in 1..Len(L1) : /\ Through(L1, i) = UpTo(L1, L1[i].price)
                                     /\ UpTo(L1, L1[i].price - 1) = Through(L1, i - 1)
                                     /\ Through(L1, i) = Through(L1, i - 1) + L1[i].qty
           /\ \A i \in 0..Len(L1) : Through(L1, i) \in Nat
           /\ \A i, j \in 0..Len(L1) : i <= j => Through(L1, i) <= Through(L1, j)
<1>0. /\ Len(L1) \in Nat /\ DOMAIN L1 = 1..Len(L1) /\ Ticks \in Nat
      /\ \A i \in 1..Len(L1) : L1[i].price \in 1..Ticks /\ L1[i].qty \in Nat
      /\ \A i, j \in 1..Len(L1) : i <= j <=> L1[i].price <= L1[j].price
    BY Levels, PricingConstants
<1>1. \A i : Through(L1, i) = SumFunctionOnSet(Quantity(L1), 1..i)
    BY DEF Through, Quantity
<1>2. Through(L1, 0) = 0
    <2>1. 1..0 = {}
        OBVIOUS
    <2> QED
        BY <1>1, <2>1, SumNothing
<1>3. Through(L1, Len(L1)) = Offered(L1)
    <2>1. Under(L1, Ticks) = 1..Len(L1)
        <3>1. \A i \in 1..Len(L1) : L1[i].price <= Ticks
            BY <1>0
        <3> QED
            BY <1>0, <3>1 DEF Under
    <2> QED
        BY <1>1, <2>1, UpToSum DEF Offered
<1>4. ASSUME NEW i \in 1..Len(L1) PROVE Through(L1, i) = UpTo(L1, L1[i].price)
    <2>1. \A j \in 1..Len(L1) : L1[j].price <= L1[i].price <=> j <= i
        BY <1>0
    <2>2. Under(L1, L1[i].price) = 1..i
        BY <1>0, <2>1 DEF Under
    <2> QED
        BY <1>1, <2>2, UpToSum
<1>5. ASSUME NEW i \in 0..Len(L1), NEW j \in 0..Len(L1), i <= j
      PROVE  Through(L1, i) \in Nat /\ Through(L1, i) <= Through(L1, j)
    <2> DEFINE R == 1..i
               S == 1..j
    <2>1. S \subseteq DOMAIN L1 /\ R \subseteq S
        BY <1>0, <1>5
    <2>2. Through(L1, i) = SumFunctionOnSet(Quantity(L1), R) /\ Through(L1, j) = SumFunctionOnSet(Quantity(L1), S)
        BY <1>1
    <2> HIDE DEF R, S
    <2>3. /\ SumFunctionOnSet(Quantity(L1), R) \in Nat
          /\ SumFunctionOnSet(Quantity(L1), R) <= SumFunctionOnSet(Quantity(L1), S)
        BY <2>1, SumOfLevels
    <2> QED
        BY <2>2, <2>3
<1>6. \A i \in 0..Len(L1) : Through(L1, i) \in Nat
    <2> SUFFICES ASSUME NEW i \in 0..Len(L1) PROVE Through(L1, i) \in Nat
        OBVIOUS
    <2>1. i <= i
        OBVIOUS
    <2> QED
        BY <1>5, <2>1
<1>7. ASSUME NEW i \in 1..Len(L1) PROVE Through(L1, i) = Through(L1, i - 1) + L1[i].qty
    <2>1. i \in 1..i /\ (1..i) \ {i} = 1..(i - 1) /\ 1..i \subseteq DOMAIN L1 /\ 1..i \subseteq 1..i
        BY <1>0
    <2> DEFINE S == 1..i
    <2>2. SumFunctionOnSet(Quantity(L1), S) = L1[i].qty + SumFunctionOnSet(Quantity(L1), S \ {i})
        <3> HIDE DEF S
        <3>1. i \in S /\ S \subseteq DOMAIN L1 /\ S \subseteq S
            BY <2>1 DEF S
        <3> QED
            BY <3>1, SumOfLevels
    <2>3. i - 1 \in 0..Len(L1)
        BY <1>0
    <2>4. Through(L1, i - 1) \in Nat /\ L1[i].qty \in Nat
        BY <1>0, <1>6, <2>3
    <2>5. Through(L1, i) = L1[i].qty + Through(L1, i - 1)
        BY <1>1, <2>1, <2>2, Zenon
    <2> QED
        BY <2>4, <2>5
<1>8. ASSUME NEW i \in 1..Len(L1) PROVE UpTo(L1, L1[i].price - 1) = Through(L1, i - 1)
    <2>1. UpTo(L1, L1[i].price) = L1[i].qty + UpTo(L1, L1[i].price - 1)
        BY <1>0, UpToNext
    <2>2. i - 1 \in 0..Len(L1) /\ L1[i].price - 1 \in 0..Ticks
        BY <1>0
    <2>3. Through(L1, i - 1) \in Nat /\ UpTo(L1, L1[i].price - 1) \in Nat /\ L1[i].qty \in Nat
        BY <1>0, <1>6, <2>2, UpToIs
    <2>4. Through(L1, i) = UpTo(L1, L1[i].price) /\ Through(L1, i) = Through(L1, i - 1) + L1[i].qty
        BY <1>4, <1>7
    <2> QED
        BY <2>1, <2>3, <2>4
<1> QED
    BY <1>2, <1>3, <1>4, <1>5, <1>6, <1>7, <1>8

\* The limit is a price; no level before there is enough is over it.
LEMMA LimitIs ==
    ASSUME NEW L1, Good(L1), NEW n \in Nat
    PROVE  /\ LimitFor(L1, n) \in 1..Ticks
           /\ n * Parts <= Offered(L1) =>
                \A i \in 1..Len(L1) : Through(L1, i - 1) < n * Parts => L1[i].price <= LimitFor(L1, n)
<1> DEFINE m == n * Parts
           enough == {i \in DOMAIN L1 : Through(L1, i) >= m}
<1>0. /\ Len(L1) \in Nat /\ DOMAIN L1 = 1..Len(L1) /\ Ticks \in Nat /\ Ticks > 0 /\ m \in Nat
      /\ \A i \in 1..Len(L1) : L1[i].price \in 1..Ticks
      /\ \A i, j \in 1..Len(L1) : i <= j <=> L1[i].price <= L1[j].price
    BY Levels, PricingConstants, TimesNat
<1>1. LimitFor(L1, n) = IF enough = {} THEN Ticks ELSE L1[Min(enough)].price
    BY DEF LimitFor
<1>2. enough \in SUBSET Nat /\ enough \subseteq 1..Len(L1)
    BY <1>0
<1>3. \A i : i \in enough <=> i \in 1..Len(L1) /\ Through(L1, i) >= m
    BY <1>0
<1> HIDE DEF enough, m
<1>4. enough # {} => Min(enough) \in enough /\ \A i \in enough : Min(enough) <= i
    BY <1>2, MinIs
<1>5. LimitFor(L1, n) \in 1..Ticks
    <2>1. Ticks \in 1..Ticks
        BY <1>0
    <2> QED
        BY <1>0, <1>1, <1>2, <1>4, <2>1
<1>6. ASSUME m <= Offered(L1), NEW i \in 1..Len(L1), Through(L1, i - 1) < m PROVE L1[i].price <= LimitFor(L1, n)
    <2>1. Len(L1) \in 1..Len(L1) /\ Through(L1, Len(L1)) = Offered(L1) /\ Through(L1, Len(L1)) \in Nat
        BY <1>0, ThroughIs
    <2>2. Len(L1) \in enough
        BY <1>0, <1>3, <1>6, <2>1
    <2> DEFINE k == Min(enough)
    <2>3. k \in 1..Len(L1) /\ Through(L1, k) >= m /\ LimitFor(L1, n) = L1[k].price
        BY <1>1, <1>3, <1>4, <2>2
    <2> HIDE DEF k
    <2>4. i <= k
        <3> SUFFICES ASSUME k <= i - 1 PROVE FALSE
            BY <1>0, <2>3
        <3>1. k \in 0..Len(L1) /\ i - 1 \in 0..Len(L1)
            BY <1>0, <2>3
        <3>2. Through(L1, k) <= Through(L1, i - 1) /\ Through(L1, k) \in Nat /\ Through(L1, i - 1) \in Nat
            BY <3>1, ThroughIs
        <3> QED
            BY <1>0, <1>6, <2>3, <3>2
    <2> QED
        BY <1>0, <2>3, <2>4
<1> QED
    BY <1>5, <1>6 DEF m

\* The first t contracts of the levels are filled, or all those of the order.
FilledUp(o, L1, m, t) ==
    IF t < m THEN o.left = m - t /\ Offered(o.fills) = t * Parts /\ o.spent = CostOf(L1, t * Parts)
             ELSE o.left = 0 /\ Offered(o.fills) = m * Parts

\* Its next level.
LEMMA NextFilled ==
    ASSUME NEW L1, Good(L1), Whole(L1), NEW m \in Nat, m * Parts <= Offered(L1),
           NEW budget \in Nat, CostOf(L1, m * Parts) <= budget,
           NEW o \in Held(LimitFor(L1, m), budget), NEW i \in 1..Len(L1), NEW t \in Nat, Through(L1, i - 1) = t * Parts,
           FilledUp(o, L1, m, t)
    PROVE  \E c \in Nat : Through(L1, i) = (t + c) * Parts /\ FilledUp(Filled(o, L1[i]), L1, m, t + c)
<1> DEFINE l == L1[i]
           limit == LimitFor(L1, m)
           f == Filled(o, l)
           n == Amount(o, l)
           u == Unit(l.price)
           p == l.price
<1>0. /\ Parts \in Nat /\ Parts > 0 /\ Ticks \in Nat /\ limit \in Nat /\ limit \in 1..Ticks
    <2>1. limit \in 1..Ticks
        BY LimitIs
    <2> HIDE DEF limit
    <2> QED
        BY <2>1, PricingConstants
<1>1. p \in 1..Ticks /\ l.qty \in Nat /\ l.qty > 0 /\ l \in Fill
    BY Levels DEF Level, Fill
<1>2. l.qty % Parts = 0
    BY Levels DEF Whole, ToSet
<1> DEFINE c == l.qty \div Parts
<1>3. c \in Nat /\ l.qty = c * Parts /\ c > 0
    <2>1. c \in Nat /\ l.qty = c * Parts + (l.qty % Parts) /\ c * Parts \in Nat
        BY <1>0, <1>1, Rounded
    <2> HIDE DEF c, l
    <2>2. l.qty = c * Parts
        BY <1>2, <2>1
    <2>3. c = 0 => c * Parts = 0
        BY <1>0
    <2> QED
        BY <1>1, <2>1, <2>2, <2>3
<1>4. Through(L1, i) = Through(L1, i - 1) + l.qty /\ Through(L1, i) = UpTo(L1, p) /\ UpTo(L1, p - 1) = Through(L1, i - 1)
    BY ThroughIs
<1> HIDE DEF c
<1>5. Through(L1, i) = (t + c) * Parts
    <2>1. (t + c) * Parts = t * Parts + c * Parts
        BY <1>0, <1>3
    <2> QED
        BY <1>3, <1>4, <2>1
<1>6. /\ f \in Held(limit, budget)
      /\ o.left = 0 => f.left = 0 /\ f.fills = o.fills
      /\ o.left > 0 /\ p <= limit /\ n > 0 =>
            f.left = o.left - n /\ Offered(f.fills) = Offered(o.fills) + n * Parts /\ f.spent = o.spent + n * Parts * u
    BY <1>0, <1>1, FilledIs
<1>7. CASE ~(t < m)
    <2>1. ~(t + c < m)
        BY <1>3, <1>7
    <2>2. FilledUp(f, L1, m, t + c)
        BY <1>6, <1>7, <2>1 DEF FilledUp
    <2> QED
        BY <1>3, <1>5, <2>2
<1>8. CASE t < m
    <2> DEFINE d == IF c <= m - t THEN c ELSE m - t
    <2>1. /\ o.left = m - t /\ Offered(o.fills) = t * Parts /\ o.spent = CostOf(L1, t * Parts)
        BY <1>8 DEF FilledUp
    <2>2. d \in Nat /\ d > 0 /\ d <= c /\ d <= m - t /\ t + d <= m
        BY <1>3, <1>8
    <2>3. /\ t * Parts \in Nat /\ d * Parts \in Nat /\ m * Parts \in Nat /\ (t + d) * Parts = t * Parts + d * Parts
          /\ (t + d) * Parts <= m * Parts /\ d * Parts <= c * Parts /\ t * Parts < m * Parts
        <3> HIDE DEF d
        <3>1. t * Parts \in Nat /\ d * Parts \in Nat /\ m * Parts \in Nat
            BY <1>0, <2>2, TimesNat
        <3>2. (t + d) * Parts = t * Parts + d * Parts
            BY <1>0, <2>2
        <3>3. (t + d) * Parts <= m * Parts /\ d * Parts <= c * Parts
            BY <1>0, <1>3, <2>2, TimesUp
        <3>4. (t + 1) * Parts <= m * Parts /\ (t + 1) * Parts = t * Parts + Parts
            BY <1>0, <1>8, TimesUp, OneMore
        <3> DEFINE x == t * Parts
                   y == m * Parts
        <3>5. x + Parts <= y /\ x \in Nat /\ y \in Nat
            BY <3>1, <3>4
        <3> HIDE DEF x, y
        <3>6. x < y
            BY <1>0, <3>5
        <3> QED
            BY <3>1, <3>2, <3>3, <3>6 DEF x, y
    <2> HIDE DEF d
    <2> DEFINE s == t * Parts
               e == d * Parts
    <2>4. s + e <= Offered(L1) /\ s <= Offered(L1)
        <3>1. Offered(L1) \in Nat
            BY <1>0, UpToIs DEF Offered
        <3> DEFINE y == m * Parts
        <3>2. s \in Nat /\ e \in Nat /\ y \in Nat /\ s + e <= y /\ y <= Offered(L1)
            BY <2>3
        <3> HIDE DEF s, e, y
        <3> QED
            BY <3>1, <3>2
    <2>5. p <= limit
        BY <1>0, <2>3, LimitIs
    <2>6. \A k \in 1..e : p <= PriceAt(L1, s + k) /\ PriceAt(L1, s + k) <= p
        <3>5. p <= p
            BY <1>0, <1>1
        <3> SUFFICES ASSUME NEW k \in 1..e PROVE PriceAt(L1, s + k) = p
            BY <3>5, Zenon
        <3> DEFINE g == Through(L1, i)
                   z == l.qty
        <3>1. g = s + z /\ e <= z /\ s \in Nat /\ e \in Nat
            BY <1>3, <1>4, <2>3
        <3>4. z \in Nat
            BY <1>1
        <3> HIDE DEF s, e, g, z
        <3>2. s + k \in Nat \ {0} /\ g >= s + k /\ s < s + k
            <4>1. k \in Nat /\ k >= 1 /\ k <= e
                BY <3>1
            <4> QED
                BY ONLY <3>1, <3>4, <4>1
        <3>3. UpTo(L1, p) >= s + k /\ UpTo(L1, p - 1) < s + k
            BY <1>4, <3>2 DEF g, s
        <3> QED
            BY <1>1, <3>2, <3>3, PriceIs
    <2>7. Span(L1, s, e, p, p)
        <3>1. p \in 0..Ticks
            BY <1>0, <1>1
        <3> HIDE DEF p
        <3> QED
            BY <2>3, <2>4, <2>6, <3>1 DEF Span
    <2>8. CostOf(L1, s + e) = CostOf(L1, s) + e * u /\ CostOf(L1, s) \in Nat /\ e * u \in Nat /\ CostOf(L1, s + e) \in Nat
        BY <2>7, CostSpan, CostFlat
    <2>9. CostOf(L1, s + e) <= budget
        <3> DEFINE y == m * Parts
                   a == CostOf(L1, s + e)
                   b == CostOf(L1, y)
        <3>1. y \in Nat /\ s + e \in Nat /\ s + e <= y /\ y <= Offered(L1)
            BY <2>3
        <3> HIDE DEF s, e, y
        <3>2. a \in Nat /\ b \in Nat /\ a <= b
            BY <3>1, CostGrows
        <3>3. b <= budget
            BY DEF y
        <3> HIDE DEF a, b
        <3>4. a <= budget
            BY <3>2, <3>3
        <3> QED
            BY <3>4 DEF a
    <2>10. /\ n \in Nat /\ n <= o.left /\ n * Parts <= l.qty
           /\ \A k \in Nat : k * Parts <= l.qty /\ k <= o.left /\ k * Parts * u <= budget - o.spent => k <= n
        BY <1>1, AmountIs
    <2>11. n = d
        <3>1. e * u <= budget - o.spent
            <4> DEFINE a == CostOf(L1, s + e)
                       b == CostOf(L1, s)
                       g == e * u
            <4>1. a = b + g /\ a <= budget /\ b \in Nat /\ g \in Nat /\ a \in Nat /\ o.spent = b
                BY <2>1, <2>8, <2>9
            <4> HIDE DEF a, b, g
            <4>2. g <= budget - o.spent
                BY <4>1
            <4> QED
                BY <4>2 DEF g
        <3>2. d <= n
            BY <1>3, <2>1, <2>2, <2>3, <2>10, <3>1
        <3>3. n <= c
            <4>1. ~(c + 1 <= n)
                <5> SUFFICES ASSUME c + 1 <= n PROVE FALSE
                    OBVIOUS
                <5>1. (c + 1) * Parts <= n * Parts /\ (c + 1) * Parts = c * Parts + Parts /\ n * Parts \in Nat /\ c * Parts \in Nat
                    <6> HIDE DEF n
                    <6>1. n \in Nat /\ c \in Nat /\ Parts \in Nat /\ c + 1 \in Int /\ n \in Int
                        BY <1>0, <1>3, <2>10
                    <6> QED
                        BY <6>1, TimesUp, OneMore, TimesNat
                <5> DEFINE x == n * Parts
                           y == c * Parts
                <5>2. y + Parts <= x /\ x <= y /\ x \in Nat /\ y \in Nat
                    BY <1>3, <2>10, <5>1
                <5> HIDE DEF x, y
                <5> QED
                    BY <1>0, <5>2
            <4> QED
                BY <1>3, <2>10, <4>1
        <3>4. n <= m - t
            BY <2>1, <2>10
        <3> QED
            BY <1>3, <1>8, <2>2, <2>10, <3>2, <3>3, <3>4 DEF d
    <2>12. f.left = (m - t) - d /\ Offered(f.fills) = s + e /\ f.spent = CostOf(L1, s) + e * u
        <3>1. o.left > 0 /\ n > 0
            BY <1>8, <2>1, <2>2, <2>11
        <3> QED
            BY <1>6, <2>1, <2>5, <2>11, <3>1
    <2>13. FilledUp(f, L1, m, t + c)
        <3>1. CASE t + c < m
            <4>1. d = c /\ (t + c) * Parts = s + e /\ (m - t) - d = m - (t + c)
                BY <1>3, <2>3, <3>1 DEF d
            <4> QED
                BY <2>8, <2>12, <3>1, <4>1 DEF FilledUp
        <3>2. CASE ~(t + c < m)
            <4>1. d = m - t /\ t + d = m /\ (m - t) - d = 0
                BY <1>3, <1>8, <3>2 DEF d
            <4>2. m * Parts = s + e
                BY <2>3, <4>1
            <4> QED
                BY <2>12, <3>2, <4>1, <4>2 DEF FilledUp
        <3> QED
            BY <3>1, <3>2
    <2> QED
        BY <1>3, <1>5, <2>13
<1> QED
    BY <1>7, <1>8

\* An order for a size that can be bought, at the worst price it needs, fills in full.
LEMMA FillsInFull ==
    ASSUME NEW L1, Good(L1), Whole(L1), NEW m \in Nat, m * Parts <= Offered(L1),
           NEW budget \in Nat, CostOf(L1, m * Parts) <= budget
    PROVE  Offered(Take(L1, m, LimitFor(L1, m), budget)) = m * Parts
<1> DEFINE limit == LimitFor(L1, m)
           order == Ordered(m, limit, budget)
           g == After(L1, order)
           X == {i \in Nat : i <= Len(L1) => \E t \in Nat : Through(L1, i) = t * Parts /\ FilledUp(g[i], L1, m, t)}
<1>0. /\ Parts \in Nat /\ Parts > 0 /\ Ticks \in Nat /\ limit \in 1..Ticks /\ limit \in Nat /\ Len(L1) \in Nat
      /\ Offered(L1) \in Nat
    <2>1. Parts \in Nat /\ Parts > 0 /\ Ticks \in Nat /\ limit \in 1..Ticks /\ Len(L1) \in Nat
        BY PricingConstants, LimitIs, Levels
    <2>2. Offered(L1) \in Nat
        BY PricingConstants, UpToIs DEF Offered
    <2> QED
        BY <2>1, <2>2
<1> HIDE DEF limit
<1>1. order \in Held(limit, budget)
    BY <1>0, OrderedIs
<1>2. /\ g[0] = order /\ \A i \in 0..Len(L1) : g[i] \in Held(limit, budget)
      /\ \A i \in 1..Len(L1) : g[i] = Filled(g[i - 1], L1[i])
    <2> HIDE DEF order
    <2> QED
        BY <1>0, <1>1, AfterIs
<1>3. 0 \in X
    <2>1. order.left = m /\ order.fills = <<>> /\ order.spent = 0
        BY DEF Ordered
    <2>2. Offered(order.fills) = 0 /\ 0 * Parts = 0
        BY <1>0, <2>1, NoFills
    <2>3. CostOf(L1, 0) = 0
        <3>1. 0 <= Offered(L1)
            BY <1>0
        <3> QED
            BY <3>1, CostIs
    <2> HIDE DEF order
    <2>4. FilledUp(order, L1, m, 0)
        <3>1. CASE 0 < m
            BY <2>1, <2>2, <2>3, <3>1 DEF FilledUp
        <3>2. CASE ~(0 < m)
            <4>1. m = 0
                BY <3>2
            <4> QED
                BY <2>1, <2>2, <4>1 DEF FilledUp
        <3> QED
            BY <3>1, <3>2
    <2>5. Through(L1, 0) = 0 * Parts
        BY <2>2, ThroughIs
    <2> HIDE DEF g
    <2>6. \E t \in Nat : Through(L1, 0) = t * Parts /\ FilledUp(g[0], L1, m, t)
        BY <1>2, <2>4, <2>5
    <2> QED
        BY <2>6
<1> HIDE DEF order, g
<1>4. ASSUME NEW i \in Nat, i \in X PROVE i + 1 \in X
    <2> SUFFICES ASSUME i + 1 <= Len(L1)
                 PROVE  \E t \in Nat : Through(L1, i + 1) = t * Parts /\ FilledUp(g[i + 1], L1, m, t)
        OBVIOUS
    <2>1. i + 1 \in 1..Len(L1) /\ (i + 1) - 1 = i /\ i \in 0..Len(L1)
        BY <1>0
    <2>2. PICK t \in Nat : Through(L1, i) = t * Parts /\ FilledUp(g[i], L1, m, t)
        BY <1>0, <1>4
    <2>3. g[i + 1] = Filled(g[i], L1[i + 1]) /\ g[i] \in Held(limit, budget)
        BY <1>2, <2>1
    <2>4. \E c \in Nat : Through(L1, i + 1) = (t + c) * Parts /\ FilledUp(Filled(g[i], L1[i + 1]), L1, m, t + c)
        BY <2>1, <2>2, <2>3, NextFilled DEF limit
    <2> QED
        BY <2>3, <2>4
<1>5. \A i \in Nat : i \in X
    <2> HIDE DEF X
    <2>1. X \in SUBSET Nat
        BY DEF X
    <2> QED
        BY <1>3, <1>4, <2>1, SetInduction
<1>6. PICK t \in Nat : Through(L1, Len(L1)) = t * Parts /\ FilledUp(g[Len(L1)], L1, m, t)
    BY <1>0, <1>5
<1>7. ~(t < m)
    <2> SUFFICES ASSUME t + 1 <= m PROVE FALSE
        OBVIOUS
    <2>1. (t + 1) * Parts <= m * Parts /\ (t + 1) * Parts = t * Parts + Parts /\ t * Parts \in Nat /\ m * Parts \in Nat
        BY <1>0, TimesUp, OneMore, TimesNat
    <2>2. m * Parts <= t * Parts
        BY <1>6, ThroughIs
    <2> DEFINE x == t * Parts
               y == m * Parts
    <2>3. x + Parts <= y /\ y <= x /\ x \in Nat /\ y \in Nat
        BY <2>1, <2>2
    <2> HIDE DEF x, y
    <2> QED
        BY <1>0, <2>3
<1>8. Offered(g[Len(L1)].fills) = m * Parts
    BY <1>6, <1>7 DEF FilledUp
<1>9. Take(L1, m, limit, budget) = g[Len(L1)].fills
    BY TakeIs DEF g, order
<1> QED
    BY <1>8, <1>9 DEF limit

-----------------------------------------------------------------------------
(* What two books have in common *)

LEMMA AscendingIs ==
    ASSUME NEW S \in SUBSET (Nat \X Nat), IsFiniteSet(S)
    PROVE  /\ Cardinality(S) \in Nat /\ Ascending(S) \in [1..Cardinality(S) -> S]
           /\ \A i, j \in 1..Cardinality(S) : i < j => ComesFirst(Ascending(S)[i], Ascending(S)[j])
           /\ \A x \in S : \E i \in 1..Cardinality(S) : Ascending(S)[i] = x
<1> DEFINE C == Cardinality(S)
           Is(q) == \A i, j \in DOMAIN q : i < j => ComesFirst(q[i], q[j])
           q == Ascending(S)
<1>1. \E f \in [1..C -> S] : \A i, j \in 1..C : i < j => ComesFirst(f[i], f[j])
    BY Ordering
<1>2. \E f \in [1..C -> S] : Is(f)
    BY <1>1
<1>3. q = CHOOSE f \in [1..C -> S] : Is(f)
    BY Zenon DEF Ascending, ComesFirst
<1>4. q \in [1..C -> S] /\ Is(q)
    <2> HIDE DEF Is, q
    <2> QED
        BY <1>2, <1>3
<1> HIDE DEF q
<1>5. \A i, j \in 1..C : i < j => ComesFirst(q[i], q[j])
    BY <1>4
<1>6. C \in Nat
    BY FS_CardinalityType
<1> HIDE DEF C
<1>7. \A i, j \in 1..C : i < j => q[i] # q[j]
    <2> SUFFICES ASSUME NEW i \in 1..C, NEW j \in 1..C, i < j, q[i] = q[j] PROVE FALSE
        OBVIOUS
    <2>1. ComesFirst(q[i], q[i]) /\ q[i] \in Nat \X Nat
        BY <1>4, <1>5
    <2>2. q[i][1] \in Nat /\ q[i][2] \in Nat
        BY <2>1
    <2> QED
        BY <2>1, <2>2 DEF ComesFirst
<1>8. Lists(q, S)
    BY <1>4, <1>7 DEF Lists, C
<1>9. \A x \in S : \E i \in 1..C : q[i] = x
    BY <1>8, OrderedAll DEF C
<1> QED
    BY <1>4, <1>5, <1>6, <1>9 DEF C, q

AnyPrice(T) == UNION {{l.price : l \in ToSet(T[i])} : i \in DOMAIN T}
Before(T, p) == Max({0} \cup {Common(T, o) : o \in {r \in AnyPrice(T) : r < p}})
More(T, p) == Common(T, p) - Before(T, p)
Steps(T) == {<<p, More(T, p)>> : p \in {r \in AnyPrice(T) : More(T, r) > 0}}

LEMMA LastingIs ==
    ASSUME NEW T
    PROVE  Lasting(T) = [i \in DOMAIN Ascending(Steps(T)) |-> [price |-> Ascending(Steps(T))[i][1], qty |-> Ascending(Steps(T))[i][2]]]
BY Zenon DEF Lasting, AnyPrice, Before, More, Steps

\* What both had up to a price: more at one of their prices only.
LEMMA CommonIs ==
    ASSUME NEW L1, Good(L1), NEW L2, Good(L2), NEW T, T = <<L1, L2>>
    PROVE  /\ AnyPrice(T) \subseteq 1..Ticks
           /\ \A p : Common(T, p) = Min({UpTo(L1, p), UpTo(L2, p)})
           /\ \A p \in 0..Ticks : Common(T, p) \in Nat
           /\ \A p, r \in 0..Ticks : p <= r => Common(T, p) <= Common(T, r)
           /\ Common(T, 0) = 0
           /\ \A p \in 1..Ticks : p \notin AnyPrice(T) => Common(T, p) = Common(T, p - 1)
<1>0. Ticks \in Nat
    BY PricingConstants
<1>1. DOMAIN T = {1, 2} /\ T[1] = L1 /\ T[2] = L2
    OBVIOUS
<1>2. \A p : p \in AnyPrice(T) <=> (\E i \in 1..Len(L1) : p = L1[i].price) \/ (\E i \in 1..Len(L2) : p = L2[i].price)
    <2>1. DOMAIN L1 = 1..Len(L1) /\ DOMAIN L2 = 1..Len(L2)
        BY Levels
    <2>2. AnyPrice(T) = {l.price : l \in ToSet(L1)} \cup {l.price : l \in ToSet(L2)}
        BY <1>1 DEF AnyPrice
    <2> QED
        BY <2>1, <2>2 DEF ToSet
<1>3. AnyPrice(T) \subseteq 1..Ticks
    <2>1. /\ \A i \in 1..Len(L1) : L1[i].price \in 1..Ticks
          /\ \A i \in 1..Len(L2) : L2[i].price \in 1..Ticks
        BY Levels
    <2> QED
        BY <1>2, <2>1
<1>4. \A p : Common(T, p) = Min({UpTo(L1, p), UpTo(L2, p)})
    <2> SUFFICES ASSUME NEW p PROVE Common(T, p) = Min({UpTo(L1, p), UpTo(L2, p)})
        OBVIOUS
    <2>1. {UpTo(T[i], p) : i \in DOMAIN T} = {UpTo(L1, p), UpTo(L2, p)}
        BY <1>1
    <2> QED
        BY <2>1, Zenon DEF Common
<1>5. \A p \in 0..Ticks : UpTo(L1, p) \in Nat /\ UpTo(L2, p) \in Nat
    BY UpToIs
<1>6. ASSUME NEW p \in 0..Ticks
      PROVE  /\ Common(T, p) \in {UpTo(L1, p), UpTo(L2, p)}
             /\ Common(T, p) <= UpTo(L1, p) /\ Common(T, p) <= UpTo(L2, p) /\ Common(T, p) \in Nat
    <2> DEFINE S == {UpTo(L1, p), UpTo(L2, p)}
    <2>1. S \in SUBSET Nat /\ S # {} /\ UpTo(L1, p) \in S /\ UpTo(L2, p) \in S
        BY <1>5
    <2>2. Common(T, p) = Min(S)
        BY <1>4
    <2>3. Min(S) \in S /\ \A x \in S : Min(S) <= x
        <3> HIDE DEF S
        <3> QED
            BY <2>1, MinIs
    <2> QED
        BY <2>1, <2>2, <2>3
<1>7. ASSUME NEW p \in 0..Ticks, NEW r \in 0..Ticks, p <= r PROVE Common(T, p) <= Common(T, r)
    <2>1. UpTo(L1, p) <= UpTo(L1, r) /\ UpTo(L2, p) <= UpTo(L2, r)
        BY <1>7, UpToIs
    <2> QED
        BY <1>5, <1>6, <2>1
<1>8. Common(T, 0) = 0
    <2>1. UpTo(L1, 0) = 0 /\ UpTo(L2, 0) = 0 /\ 0 \in 0..Ticks
        BY <1>0, UpToIs
    <2> QED
        BY <1>6, <2>1
<1>9. ASSUME NEW p \in 1..Ticks, p \notin AnyPrice(T) PROVE Common(T, p) = Common(T, p - 1)
    <2>1. (\A i \in 1..Len(L1) : L1[i].price # p) /\ (\A i \in 1..Len(L2) : L2[i].price # p)
        BY <1>2, <1>9
    <2>2. UpTo(L1, p) = UpTo(L1, p - 1) /\ UpTo(L2, p) = UpTo(L2, p - 1)
        BY <2>1, UpToNext
    <2> QED
        BY <1>4, <2>2
<1> QED
    BY <1>3, <1>4, <1>6, <1>7, <1>8, <1>9

LEMMA LastStep ==
    ASSUME NEW L1, Good(L1), NEW L2, Good(L2), NEW T, T = <<L1, L2>>
    PROVE  \A p \in 0..Ticks : Common(T, p) = 0 \/ \E o \in AnyPrice(T) : o <= p /\ Common(T, o) = Common(T, p)
<1> DEFINE Found(p) == Common(T, p) = 0 \/ \E o \in AnyPrice(T) : o <= p /\ Common(T, o) = Common(T, p)
           X == {p \in Nat : p <= Ticks => Found(p)}
<1>0. Ticks \in Nat /\ AnyPrice(T) \subseteq 1..Ticks
    BY PricingConstants, CommonIs
<1>1. 0 \in X
    BY CommonIs
<1>2. ASSUME NEW p \in Nat, p \in X PROVE p + 1 \in X
    <2> SUFFICES ASSUME p + 1 <= Ticks PROVE Found(p + 1)
        OBVIOUS
    <2>1. p + 1 \in 1..Ticks /\ (p + 1) - 1 = p /\ Found(p)
        BY <1>0, <1>2
    <2>2. CASE p + 1 \in AnyPrice(T)
        <3>1. p + 1 <= p + 1
            OBVIOUS
        <3> QED
            BY <2>2, <3>1
    <2>3. CASE p + 1 \notin AnyPrice(T)
        <3>1. Common(T, p + 1) = Common(T, p)
            BY <2>1, <2>3, CommonIs
        <3>2. \A o \in AnyPrice(T) : o <= p => o <= p + 1
            BY <1>0
        <3> QED
            BY <2>1, <3>1, <3>2
    <2> QED
        BY <2>2, <2>3
<1>3. \A p \in Nat : p \in X
    <2> HIDE DEF X
    <2>1. X \in SUBSET Nat
        BY DEF X
    <2> QED
        BY <1>1, <1>2, <2>1, SetInduction
<1> QED
    BY <1>0, <1>3

LEMMA MoreIs ==
    ASSUME NEW L1, Good(L1), NEW L2, Good(L2), NEW T, T = <<L1, L2>>, NEW p \in 1..Ticks
    PROVE  More(T, p) \in Nat /\ Common(T, p) = Common(T, p - 1) + More(T, p)
<1> DEFINE P == {r \in AnyPrice(T) : r < p}
           S == {0} \cup {Common(T, o) : o \in P}
           m == Common(T, p - 1)
<1>0. Ticks \in Nat /\ AnyPrice(T) \subseteq 1..Ticks /\ p - 1 \in 0..Ticks /\ p \in 0..Ticks /\ p - 1 <= p
    BY PricingConstants, CommonIs
<1>1. /\ \A r \in 0..Ticks : Common(T, r) \in Nat
      /\ \A o, r \in 0..Ticks : o <= r => Common(T, o) <= Common(T, r)
    BY CommonIs
<1>2. \A o \in P : o \in 0..Ticks /\ o <= p - 1 /\ Common(T, o) \in Nat /\ Common(T, o) <= m
    <2> SUFFICES ASSUME NEW o \in P PROVE o \in 0..Ticks /\ o <= p - 1 /\ Common(T, o) \in Nat /\ Common(T, o) <= m
        OBVIOUS
    <2>1. o \in 0..Ticks /\ o <= p - 1
        BY <1>0
    <2> QED
        BY <1>0, <1>1, <2>1
<1>3. m \in Nat
    BY <1>0, <1>1
<1>4. m \in S
    <2>1. m = 0 \/ \E o \in AnyPrice(T) : o <= p - 1 /\ Common(T, o) = m
        BY <1>0, LastStep
    <2>2. \A o \in AnyPrice(T) : o <= p - 1 => o \in P
        BY <1>0
    <2> QED
        BY <2>1, <2>2
<1> HIDE DEF m, P
<1>5. S \in SUBSET Nat /\ \A x \in S : x <= m
    BY <1>2, <1>3
<1>6. Max(S) = m
    <2> HIDE DEF S
    <2> QED
        BY <1>4, <1>5, MaxIs
<1>7. More(T, p) = Common(T, p) - m
    BY <1>6, Zenon DEF More, Before, S, P
<1>8. Common(T, p) \in Nat /\ m <= Common(T, p)
    BY <1>0, <1>1 DEF m
<1> DEFINE c == Common(T, p)
           x == More(T, p)
<1> HIDE DEF c, x
<1>9. x = c - m /\ c \in Nat /\ m \in Nat /\ m <= c
    BY <1>3, <1>7, <1>8 DEF c, x
<1>10. x \in Nat /\ c = m + x
    BY <1>9
<1> QED
    BY <1>10 DEF c, x, m

LEMMA LastingLevels ==
    ASSUME NEW L1, Good(L1), NEW L2, Good(L2), NEW T, T = <<L1, L2>>
    PROVE  /\ Good(Lasting(T))
           /\ \A i \in 1..Len(Lasting(T)) : Lasting(T)[i].qty = More(T, Lasting(T)[i].price)
           /\ \A p \in 1..Ticks : (\A i \in 1..Len(Lasting(T)) : Lasting(T)[i].price # p) => More(T, p) = 0 \/ p \notin AnyPrice(T)
<1> DEFINE S == Steps(T)
           C == Cardinality(S)
           q == Ascending(S)
           R == Lasting(T)
           P == {r \in AnyPrice(T) : More(T, r) > 0}
<1>0. Ticks \in Nat /\ AnyPrice(T) \subseteq 1..Ticks
    BY PricingConstants, CommonIs
<1>1. \A p \in 1..Ticks : More(T, p) \in Nat
    BY MoreIs
<1>2. P \subseteq 1..Ticks /\ \A p \in P : More(T, p) \in Nat \ {0}
    BY <1>0, <1>1
<1>3. \A x : x \in S <=> \E p \in P : x = <<p, More(T, p)>>
    BY DEF Steps
<1> HIDE DEF S, P
<1>4. S \in SUBSET (Nat \X Nat)
    BY <1>0, <1>2, <1>3
<1>5. IsFiniteSet(S)
    <2>1. IsFiniteSet(P)
        <3>1. 1 \in Int /\ Ticks \in Int
            BY <1>0
        <3>2. IsFiniteSet(1..Ticks)
            BY ONLY <3>1, FS_Interval
        <3> QED
            BY <1>2, <3>2, FS_Subset
    <2> DEFINE h == [p \in P |-> <<p, More(T, p)>>]
    <2>2. h \in Surjection(P, S)
        BY <1>3 DEF Surjection
    <2> HIDE DEF h
    <2> QED
        BY <2>1, <2>2, FS_Surjection
<1>6. /\ C \in Nat /\ q \in [1..C -> S]
      /\ \A i, j \in 1..C : i < j => ComesFirst(q[i], q[j])
      /\ \A x \in S : \E i \in 1..C : q[i] = x
    BY <1>4, <1>5, AscendingIs
<1>7. R = [i \in DOMAIN q |-> [price |-> q[i][1], qty |-> q[i][2]]]
    BY LastingIs, Zenon DEF S
<1> HIDE DEF q, C, R
<1>8. DOMAIN q = 1..C
    BY <1>6
<1>9. ASSUME NEW i \in 1..C
      PROVE  /\ q[i] = <<q[i][1], More(T, q[i][1])>> /\ q[i][1] \in P
             /\ R[i] \in Level /\ R[i].price = q[i][1] /\ R[i].qty = More(T, q[i][1])
    <2>1. q[i] \in S
        BY <1>6
    <2>2. PICK p \in P : q[i] = <<p, More(T, p)>>
        BY <1>3, <2>1
    <2>3. q[i][1] = p /\ q[i][2] = More(T, p)
        BY <2>2
    <2>4. R[i] = [price |-> p, qty |-> More(T, p)]
        BY <1>7, <1>8, <2>3
    <2>5. p \in 1..Ticks /\ More(T, p) \in Nat \ {0}
        BY <1>2
    <2>6. R[i] \in Level /\ R[i].price = p /\ R[i].qty = More(T, p)
        BY <2>4, <2>5 DEF Level
    <2> QED
        BY <2>2, <2>3, <2>6
<1>10. R \in [1..C -> Level]
    BY <1>7, <1>8, <1>9
<1>11. R \in Seq(Level) /\ Len(R) = C
    <2>1. R \in Seq(Level)
        BY <1>6, <1>10, SeqDef
    <2>2. DOMAIN R = 1..C /\ DOMAIN R = 1..Len(R) /\ Len(R) \in Nat
        BY <1>10, <2>1, LenProperties
    <2> QED
        BY <1>6, <2>1, <2>2
<1>12. ASSUME NEW i \in 1..C, NEW j \in 1..C, i < j PROVE R[i].price < R[j].price
    <2>1. ComesFirst(q[i], q[j])
        BY <1>6, <1>12
    <2> DEFINE p == q[i][1]
               r == q[j][1]
    <2>2. q[i] = <<p, More(T, p)>> /\ q[j] = <<r, More(T, r)>> /\ p \in P /\ r \in P /\ R[i].price = p /\ R[j].price = r
        BY <1>9
    <2> HIDE DEF p, r
    <2>3. p < r \/ (p = r /\ More(T, p) < More(T, r))
        BY <2>1, <2>2 DEF ComesFirst
    <2>4. More(T, p) \in Nat /\ p \in Nat
        BY <1>0, <1>2, <2>2
    <2>5. p < r
        BY <2>3, <2>4
    <2> QED
        BY <2>2, <2>5
<1>13. Good(R)
    BY <1>11, <1>12 DEF Good
<1>14. \A i \in 1..Len(R) : R[i].qty = More(T, R[i].price)
    BY <1>9, <1>11
<1>15. ASSUME NEW p \in 1..Ticks, \A i \in 1..Len(R) : R[i].price # p PROVE More(T, p) = 0 \/ p \notin AnyPrice(T)
    <2> SUFFICES ASSUME More(T, p) # 0, p \in AnyPrice(T) PROVE FALSE
        OBVIOUS
    <2>1. p \in P
        BY <1>1 DEF P
    <2>2. <<p, More(T, p)>> \in S
        BY <1>3, <2>1
    <2>3. PICK i \in 1..C : q[i] = <<p, More(T, p)>>
        BY <1>6, <2>2
    <2>4. R[i].price = p
        BY <1>9, <2>3
    <2> QED
        BY <1>11, <1>15, <2>4
<1> QED
    BY <1>13, <1>14, <1>15 DEF R

\* What lasts is what both had.
LEMMA LastingOffers ==
    ASSUME NEW L1, Good(L1), NEW L2, Good(L2)
    PROVE  \A p \in 0..Ticks : UpTo(Lasting(<<L1, L2>>), p) = Min({UpTo(L1, p), UpTo(L2, p)})
<1> DEFINE T == <<L1, L2>>
           R == Lasting(T)
           X == {p \in Nat : p <= Ticks => UpTo(R, p) = Common(T, p)}
<1>0. Ticks \in Nat /\ T = <<L1, L2>>
    BY PricingConstants
<1> HIDE DEF T
<1>1. /\ Good(R) /\ \A i \in 1..Len(R) : R[i].qty = More(T, R[i].price)
      /\ \A p \in 1..Ticks : (\A i \in 1..Len(R) : R[i].price # p) => More(T, p) = 0 \/ p \notin AnyPrice(T)
    BY <1>0, LastingLevels
<1> HIDE DEF R
<1>2. 0 \in X
    <2>1. UpTo(R, 0) = 0 /\ Common(T, 0) = 0
        BY <1>0, <1>1, UpToIs, CommonIs
    <2> QED
        BY <2>1
<1>3. ASSUME NEW p \in Nat, p \in X PROVE p + 1 \in X
    <2> SUFFICES ASSUME p + 1 <= Ticks PROVE UpTo(R, p + 1) = Common(T, p + 1)
        OBVIOUS
    <2> DEFINE r == p + 1
    <2>1. r \in 1..Ticks /\ r - 1 = p /\ UpTo(R, p) = Common(T, p) /\ p \in 0..Ticks
        BY <1>0, <1>3
    <2> HIDE DEF r
    <2>2. More(T, r) \in Nat /\ Common(T, r) = Common(T, p) + More(T, r) /\ Common(T, p) \in Nat
        BY <1>0, <2>1, MoreIs, CommonIs
    <2>3. CASE \E i \in 1..Len(R) : R[i].price = r
        <3>1. PICK i \in 1..Len(R) : R[i].price = r
            BY <2>3
        <3>2. UpTo(R, r) = R[i].qty + UpTo(R, r - 1)
            BY <1>1, <2>1, <3>1, UpToNext
        <3>3. UpTo(R, r) = More(T, r) + Common(T, p)
            BY <1>1, <2>1, <3>1, <3>2
        <3> QED
            BY <2>2, <3>3 DEF r
    <2>4. CASE \A i \in 1..Len(R) : R[i].price # r
        <3>1. UpTo(R, r) = Common(T, p)
            <4>1. UpTo(R, r) = UpTo(R, r - 1)
                BY <1>1, <2>1, <2>4, UpToNext
            <4> QED
                BY <2>1, <4>1
        <3>2. Common(T, r) = Common(T, p)
            <4>1. More(T, r) = 0 => Common(T, r) = Common(T, p)
                BY <2>2
            <4>2. r \notin AnyPrice(T) => Common(T, r) = Common(T, r - 1)
                BY <1>0, <2>1, CommonIs
            <4> QED
                BY <1>1, <2>1, <2>4, <4>1, <4>2
        <3> QED
            BY <3>1, <3>2 DEF r
    <2> QED
        BY <2>3, <2>4
<1>4. \A p \in Nat : p \in X
    <2> HIDE DEF X
    <2>1. X \in SUBSET Nat
        BY DEF X
    <2> QED
        BY <1>2, <1>3, <2>1, SetInduction
<1>5. \A p \in 0..Ticks : UpTo(R, p) = Common(T, p)
    BY <1>0, <1>4
<1>6. \A p : Common(T, p) = Min({UpTo(L1, p), UpTo(L2, p)})
    BY <1>0, CommonIs
<1>7. \A p \in 0..Ticks : UpTo(R, p) = Min({UpTo(L1, p), UpTo(L2, p)})
    BY <1>5, <1>6
<1> QED
    BY <1>7 DEF R, T

-----------------------------------------------------------------------------
(* The legs of two books *)

LEMMA CheapestIs ==
    ASSUME NEW t, t \in Seq([price : 1..Ticks, qty : Nat]),
           \A i, j \in 1..Len(t) : t[i].price = t[j].price => i = j
    PROVE  Good(Cheapest(t))
<1> DEFINE V == [price : 1..Ticks, qty : Nat]
           I == {k \in DOMAIN t : t[k].qty > 0}
           S == {<<t[i].price, i>> : i \in I}
           C == Cardinality(S)
           q == Ascending(S)
           R == Cheapest(t)
<1>0. Ticks \in Nat
    BY PricingConstants
<1>1. Len(t) \in Nat /\ DOMAIN t = 1..Len(t) /\ \A i \in 1..Len(t) : t[i] \in V
    <2> HIDE DEF V
    <2>1. t \in Seq(V)
        BY DEF V
    <2> QED
        BY <2>1, LenProperties
<1>2. I \subseteq 1..Len(t) /\ \A i \in I : t[i].price \in 1..Ticks /\ t[i].qty \in Nat \ {0} /\ t[i] \in Level
    BY <1>1 DEF Level
<1>3. \A x : x \in S <=> \E i \in I : x = <<t[i].price, i>>
    OBVIOUS
<1>4. R = [i \in DOMAIN q |-> t[q[i][2]]]
    BY Zenon DEF Cheapest
<1> HIDE DEF I, S
<1>5. S \in SUBSET (Nat \X Nat)
    <2>1. ASSUME NEW x \in S
          PROVE  x \in Nat \X Nat
        <3>1. PICK i \in I : x = <<t[i].price, i>>
            BY <1>3
        <3>2. i \in 1..Len(t) /\ t[i].price \in 1..Ticks
            BY <1>2
        <3>3. i \in Nat /\ t[i].price \in Nat
            BY <1>0, <1>1, <3>2
        <3> QED
            BY <3>1, <3>3
    <2> QED
        BY <2>1
<1>6. IsFiniteSet(S)
    <2>1. IsFiniteSet(I)
        <3>1. 1 \in Int /\ Len(t) \in Int
            BY <1>1
        <3>2. IsFiniteSet(1..Len(t))
            BY ONLY <3>1, FS_Interval
        <3> QED
            BY <1>2, <3>2, FS_Subset
    <2> DEFINE h == [i \in I |-> <<t[i].price, i>>]
    <2>2. h \in Surjection(I, S)
        BY <1>3 DEF Surjection
    <2> HIDE DEF h
    <2> QED
        BY <2>1, <2>2, FS_Surjection
<1>7. /\ C \in Nat /\ q \in [1..C -> S] /\ \A i, j \in 1..C : i < j => ComesFirst(q[i], q[j])
    BY <1>5, <1>6, AscendingIs
<1> HIDE DEF q, C, R
<1>8. DOMAIN q = 1..C
    BY <1>7
<1>9. ASSUME NEW i \in 1..C
      PROVE  q[i][2] \in I /\ q[i] = <<t[q[i][2]].price, q[i][2]>> /\ R[i] = t[q[i][2]] /\ R[i] \in Level
    <2>1. q[i] \in S
        BY <1>7
    <2>2. PICK k \in I : q[i] = <<t[k].price, k>>
        BY <1>3, <2>1
    <2>3. q[i][2] = k
        BY <2>2
    <2> QED
        BY <1>2, <1>4, <1>8, <2>2, <2>3
<1>10. R \in Seq(Level) /\ Len(R) = C
    <2>1. R \in [1..C -> Level]
        BY <1>4, <1>8, <1>9
    <2>2. R \in Seq(Level)
        BY <1>7, <2>1, SeqDef
    <2>3. DOMAIN R = 1..C /\ DOMAIN R = 1..Len(R) /\ Len(R) \in Nat
        BY <2>1, <2>2, LenProperties
    <2> QED
        BY <1>7, <2>2, <2>3
<1>11. ASSUME NEW i \in 1..C, NEW j \in 1..C, i < j PROVE R[i].price < R[j].price
    <2>1. ComesFirst(q[i], q[j])
        BY <1>7, <1>11
    <2> DEFINE a == q[i][2]
               b == q[j][2]
    <2>2. a \in I /\ b \in I /\ q[i] = <<t[a].price, a>> /\ q[j] = <<t[b].price, b>> /\ R[i] = t[a] /\ R[j] = t[b]
        BY <1>9
    <2> HIDE DEF a, b
    <2>3. t[a].price < t[b].price \/ (t[a].price = t[b].price /\ a < b)
        BY <2>1, <2>2 DEF ComesFirst
    <2>4. a \in 1..Len(t) /\ b \in 1..Len(t)
        BY <1>2, <2>2
    <2>5. t[a].price = t[b].price => a = b
        BY <2>4
    <2> QED
        BY <1>1, <2>2, <2>3, <2>4, <2>5
<1>12. Good(R)
    BY <1>10, <1>11 DEF Good
<1> QED
    BY <1>12 DEF R

\* What a side's bids offer of the other.
LEMMA ComplementIs ==
    ASSUME NEW bids \in Book
    PROVE  Good(Complement(bids))
<1> DEFINE Bid == [price : Prices, qty : Qtys]
           V == [price : 1..Ticks, qty : Nat]
           t == [i \in DOMAIN bids |-> [bids[i] EXCEPT !.price = Ticks - @]]
<1>0. /\ Ticks \in Nat /\ MaxLevels \in Nat
      /\ \A p \in Prices : p \in 1..Ticks /\ Ticks - p \in 1..Ticks
      /\ \A q \in Qtys : q \in Nat
    BY PricingConstants
<1>1. PICK m \in 0..MaxLevels : bids \in [1..m -> Bid]
    BY DEF Book, BoundedSeq, SeqOf
<1>2. m \in Nat /\ DOMAIN bids = 1..m
    BY <1>0, <1>1
<1>3. \A i, j \in 1..m : i < j => bids[i].price > bids[j].price
    BY <1>2 DEF Book
<1>4. ASSUME NEW i \in 1..m
      PROVE  /\ bids[i].price \in Prices /\ bids[i].price \in 1..Ticks
             /\ t[i] \in V /\ t[i].price = Ticks - bids[i].price
    <2> DEFINE x == bids[i]
    <2>1. x \in Bid
        BY <1>1
    <2>2. x.price \in Prices /\ x.qty \in Qtys
        BY <2>1
    <2>3. t[i] = [x EXCEPT !.price = Ticks - x.price]
        BY <1>2
    <2> HIDE DEF x, t
    <2>4. x.price \in 1..Ticks /\ Ticks - x.price \in 1..Ticks /\ x.qty \in Nat
        BY <1>0, <2>2
    <2>5. t[i].price = Ticks - x.price /\ t[i] \in V
        BY <2>1, <2>3, <2>4
    <2> QED
        BY <2>2, <2>4, <2>5 DEF x
<1>5. t \in [1..m -> V]
    BY <1>2, <1>4
<1> HIDE DEF t
<1>6. t \in Seq(V) /\ Len(t) = m
    <2> HIDE DEF V
    <2>1. t \in Seq(V)
        BY <1>2, <1>5, SeqDef
    <2>2. DOMAIN t = 1..m /\ DOMAIN t = 1..Len(t) /\ Len(t) \in Nat
        BY <1>5, <2>1, LenProperties
    <2> QED
        BY <1>2, <2>1, <2>2
<1>7. ASSUME NEW i \in 1..m, NEW j \in 1..m, t[i].price = t[j].price PROVE i = j
    <2>1. bids[i].price = bids[j].price /\ bids[i].price \in Nat
        <3> DEFINE a == bids[i].price
                   b == bids[j].price
        <3>1. a \in 1..Ticks /\ b \in 1..Ticks /\ Ticks - a = Ticks - b
            BY <1>4, <1>7
        <3> HIDE DEF a, b
        <3>2. a = b /\ a \in Nat
            BY <1>0, <3>1
        <3> QED
            BY <3>2 DEF a, b
    <2> QED
        BY <1>2, <1>3, <2>1
<1>8. Good(Cheapest(t))
    BY <1>6, <1>7, CheapestIs
<1> QED
    BY <1>8, Zenon DEF Complement, t

\* The markets of a pair settle as the one bet they were taken for: it pays a dollar.
LEMMA PairPays ==
    \A k \in 0..Ticks :
        /\ \A d \in Directions("same") : PayoutPerPair(d, k, k) = Ticks
        /\ \A d \in Directions("inverse") : PayoutPerPair(d, k, Ticks - k) = Ticks
<1> SUFFICES ASSUME NEW k \in 0..Ticks
             PROVE  /\ \A d \in Directions("same") : PayoutPerPair(d, k, k) = Ticks
                    /\ \A d \in Directions("inverse") : PayoutPerPair(d, k, Ticks - k) = Ticks
    OBVIOUS
<1>1. Ticks \in Nat /\ k \in Nat
    BY PricingConstants
<1>2. \A d \in Directions("same") : PayoutPerPair(d, k, k) = Ticks
    BY <1>1 DEF Directions, PayoutPerPair
<1>3. \A d \in Directions("inverse") : PayoutPerPair(d, k, Ticks - k) = Ticks
    BY <1>1 DEF Directions, PayoutPerPair
<1> QED
    BY <1>2, <1>3

LEMMA FilledAsItShould ==
    ASSUME Good(A), Good(B), Cases \subseteq Limit
    PROVE  FilledAsSized
<1>1. ASSUME NEW lim \in Cases
      PROVE  /\ Spent(Take(A, Walk(A, B, lim).size, LimitFor(A, Walk(A, B, lim).size), lim.a)) <= lim.a
             /\ Spent(Take(A, lim.size, Ticks, lim.a)) <= lim.a
             /\ Whole(A) => Offered(Take(A, Walk(A, B, lim).size, LimitFor(A, Walk(A, B, lim).size), lim.a))
                              = Walk(A, B, lim).size * Parts
    <2>0. lim \in Limit
        OBVIOUS
    <2> DEFINE m == SizeOf(lim)
    <2>1. Walk(A, B, lim).size = m
        BY WalkIs
    <2>2. m \in Nat /\ m <= m /\ \A n \in Nat : n <= m <=> Fits(lim, n * Parts)
        BY <2>0, SizeIs
    <2> HIDE DEF m
    <2>3. m * Parts <= Offered(A) /\ CostOf(A, m * Parts) <= lim.a
        BY <2>2 DEF Fits
    <2>4. lim.a \in Nat /\ lim.size \in Nat /\ Ticks \in Nat
        BY <2>0, WayTypes, PricingConstants
    <2>5. LimitFor(A, m) \in Nat
        BY <2>2, <2>4, LimitIs
    <2>6. Spent(Take(A, m, LimitFor(A, m), lim.a)) <= lim.a /\ Spent(Take(A, lim.size, Ticks, lim.a)) <= lim.a
        BY <2>2, <2>4, <2>5, NeverOverspent
    <2>7. Whole(A) => Offered(Take(A, m, LimitFor(A, m), lim.a)) = m * Parts
        BY <2>2, <2>3, <2>4, FillsInFull
    <2> QED
        BY <2>1, <2>6, <2>7, Zenon
<1>2. \A p \in 0..Ticks : UpTo(Lasting(<<A, B>>), p) = Min({UpTo(A, p), UpTo(B, p)})
    BY LastingOffers
<1> QED
    BY <1>1, <1>2, PairPays, Zenon DEF FilledAsSized

\* The books of a pricing are books, and its money a number of contracts' worth.
BooksKept == part = "pricing" => books \in [k : Book, p : Book, a : Money, b : Money \cup {0}]

LEMMA NoBook == <<>> \in Book
<1> DEFINE Bid == [price : Prices, qty : Qtys]
<1>1. MaxLevels \in Nat
    BY PricingConstants
<1>2. 0 \in 0..MaxLevels
    BY <1>1
<1>3. <<>> \in [1..0 -> Bid]
    OBVIOUS
<1>4. <<>> \in BoundedSeq(Bid, MaxLevels)
    <2> HIDE DEF Bid
    <2> QED
        BY <1>2, <1>3 DEF BoundedSeq, SeqOf
<1> QED
    BY <1>4 DEF Book

LEMMA BooksStep == BooksKept /\ [MCNext]_vars => BooksKept'
<1> SUFFICES ASSUME BooksKept, [MCNext]_vars, part' = "pricing"
             PROVE  books' \in [k : Book, p : Book, a : Money, b : Money \cup {0}]
    BY DEF BooksKept
<1>1. part = "pricing" /\ (UNCHANGED books \/ books' \in [k : {books.k}, p : Book \ {<<>>}, a : {books.a}, b : Money])
    BY DEF MCNext, vars
<1>2. books \in [k : Book, p : Book, a : Money, b : Money \cup {0}]
    BY <1>1 DEF BooksKept
<1> QED
    BY <1>1, <1>2

LEMMA PricedAsItShould == BooksKept => PricedRight
<1> SUFFICES ASSUME BooksKept, part = "pricing"
             PROVE  SizedRight /\ FilledAsSized
    BY DEF PricedRight
<1>1. books.k \in Book /\ books.p \in Book /\ books.a \in Money /\ books.b \in Money \cup {0}
    BY DEF BooksKept
<1>2. A = Complement(books.k) /\ B = Complement(books.p)
    BY DEF A, B, KalshiLadders, PMLadders
<1>3. Good(A) /\ Good(B)
    BY <1>1, <1>2, ComplementIs
<1>4. \A x \in Money : x \in Nat
    <2> SUFFICES ASSUME NEW n \in Budgets PROVE n * Parts * Dollar \in Nat
        BY DEF Money
    <2>1. n \in Nat /\ Parts \in Nat /\ Dollar \in Nat
        BY PricingConstants, DollarNat
    <2>2. n * Parts \in Nat
        BY <2>1, TimesNat
    <2> QED
        BY <2>1, <2>2, TimesNat
<1>5. Cases \subseteq Limit
    <2>1. books.a \in Nat /\ books.b \in Nat
        BY <1>1, <1>4
    <2>2. (\A n \in Asked : n \in Nat) /\ \A n \in Edges : n \in Nat
        BY PricingConstants
    <2> QED
        BY <2>1, <2>2 DEF Cases, Limit
<1> QED
    BY <1>3, <1>5, SizedAsItShould, FilledAsItShould

\* Two books of any sizes are worth, and an order on them fills, what they should: the size is
\* the most whole contracts there are of both legs, money for and an edge in; it costs no more
\* than its parts, and with whole levels no other brings more; an order for it never spends more
\* than the money, and with whole levels fills in full; what two versions of a book had in
\* common could have been bought from either; and a pair pays a dollar (arb.walk, paper.py, bankroll.py).
THEOREM PricesRight == MCSpec => []PricedRight
<1>1. MCInit => BooksKept
    <2> SUFFICES ASSUME MCInit, part = "pricing"
                 PROVE  books \in [k : Book, p : Book, a : Money, b : Money \cup {0}]
        BY DEF BooksKept
    <2>1. books \in [k : Book, p : {<<>>}, a : Money, b : {0}]
        BY DEF MCInit
    <2> QED
        BY <2>1, NoBook
<1>2. MCSpec => []BooksKept
    BY <1>1, BooksStep, PTL DEF MCSpec
<1> QED
    BY <1>2, PricedAsItShould, PTL
=============================================================================
