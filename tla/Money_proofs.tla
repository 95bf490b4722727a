--------------------------- MODULE Money_proofs ---------------------------
(***************************************************************************)
(* The cash and the accounts, for any amounts: the trader never counts on  *)
(* more cash than is on a shard, as long as a transfer answered with an    *)
(* HTTP error was indeed refused (ShardCash); what the live trader says it *)
(* made is what its trades say, and these are settled at what the venues   *)
(* paid (Settlement); what is kept of the owner's own trades is what they  *)
(* moved (Ledgers); what the paper trader says it has is what its rows     *)
(* say, and no venue is overdrawn but for what another trade took in the   *)
(* meantime (PaperAccount); and a round of transfers serves what the       *)
(* shards lack and leaves nothing for the next (ShardPlan).                *)
(***************************************************************************)
EXTENDS MCMoney, Sums

-----------------------------------------------------------------------------
(***************************************************************************)
(* ShardCash: the cash of the shards                                       *)
(***************************************************************************)

(* The inductive invariant *)

\* What of the transfer under way the trader will yet add to the shard s: what it
\* puts back on the old shard if it was refused, or adds to the new one.
Due(s) == IF sent.state \in {"sent", "refused"} /\ sent.src = s THEN sent.amt
          ELSE IF sent.state = "moved" /\ sent.dst = s THEN sent.amt
          ELSE 0

\* What of the trade under way it will yet subtract.
Unheard(s) == IF Busy /\ trade.shard = s THEN trade.unheard ELSE 0

\* A transfer is out only in a round, a read that will be kept only outside one,
\* and no trade is under way with that read, or in a trader that is stopped.
Apart ==
    /\ sent.state # "none" => loop = "moving"
    /\ kept => loop \in {"asked", "answered"} /\ ~Busy
    /\ Busy => ~lost

\* The answer of a read that will be kept is no more than is there now.
ReadCovered == kept /\ loop = "answered" => \A s \in Shards : data[s] <= real[s]

\* Neither is what a trader that isn't stopped thinks is there, with what it will yet
\* hear of.
Covered == ~lost => \A s \in Shards : cash[s] + Due(s) <= real[s] + Unheard(s)

CInv == TypeOK /\ Apart /\ ReadCovered /\ Covered

-----------------------------------------------------------------------------
(* Adding to and taking from a shard *)

LEMMA PlusMinusInt ==
    ASSUME NEW c \in [Shards -> Int], NEW s \in Shards, NEW n \in Int
    PROVE  /\ Plus(c, s, n) \in [Shards -> Int]
           /\ Minus(c, s, n) \in [Shards -> Int]
BY DEF Plus, Minus

LEMMA PlusMinus ==
    ASSUME NEW c \in [Shards -> Int], NEW s \in Shards, NEW n \in Int
    PROVE  \A x \in Shards : /\ Plus(c, s, n)[x] = IF x = s THEN c[x] + n ELSE c[x]
                             /\ Minus(c, s, n)[x] = IF x = s THEN c[x] - n ELSE c[x]
BY DEF Plus, Minus

LEMMA PlusNat ==
    ASSUME NEW c \in [Shards -> Nat], NEW s \in Shards, NEW n \in Int, c[s] + n \in Nat
    PROVE  Plus(c, s, n) \in [Shards -> Nat]
BY DEF Plus

LEMMA MinusNat ==
    ASSUME NEW c \in [Shards -> Nat], NEW s \in Shards, NEW n \in Int, c[s] - n \in Nat
    PROVE  Minus(c, s, n) \in [Shards -> Nat]
BY DEF Minus

LEMMA Nobody == AnyShard \in Shards /\ Empty \in [Shards -> Nat]
BY ShardAssumption DEF AnyShard, Empty

-----------------------------------------------------------------------------
(* Types *)

TradeType == [on : BOOLEAN, shard : Shards, left : Nat, unheard : Int]
TransferType == [state : {"none", "sent", "refused", "moved", "pending"}, src : Shards, dst : Shards,
              amt : Nat \ {0}]

LEMMA NothingOut == NoTrade \in TradeType /\ NotSent \in TransferType
BY Nobody DEF NoTrade, NotSent, TradeType, TransferType

LEMMA TradeStep ==
    ASSUME NEW t \in TradeType, NEW l \in Nat, NEW u \in Int
    PROVE  [t EXCEPT !.left = l, !.unheard = u] \in TradeType
BY DEF TradeType

LEMMA InitType == Init => TypeOK
<1> SUFFICES ASSUME Init PROVE TypeOK
    OBVIOUS
<1>1. real \in [Shards -> Nat]
    BY BoundAssumption DEF Init
<1>2. Empty \in [Shards -> Int]
    BY Nobody
<1> QED
    BY <1>1, <1>2, Nobody, NothingOut DEF Init, TypeOK, TradeType, TransferType

LEMMA NextType == TypeOK /\ [Next]_vars => TypeOK'
<1> SUFFICES ASSUME TypeOK, [Next]_vars PROVE TypeOK'
    OBVIOUS
<1> USE BoundAssumption
<1>0. /\ real \in [Shards -> Nat] /\ landing \in [Shards -> Nat] /\ cash \in [Shards -> Int]
      /\ data \in [Shards -> Nat] /\ spare \in [Shards -> Nat]
      /\ trade \in TradeType /\ sent \in TransferType
      /\ trade.shard \in Shards /\ trade.left \in Nat /\ trade.unheard \in Int
      /\ sent.src \in Shards /\ sent.dst \in Shards /\ sent.amt \in Nat \ {0}
    BY DEF TypeOK, TradeType, TransferType
<1>1. ASSUME NEW s \in Shards, NEW n \in 1..MaxCash, Pick(s, n) PROVE TypeOK'
    <2>1. trade' \in TradeType
        BY <1>1 DEF Pick, TradeType
    <2>2. UNCHANGED <<real, landing, known, cash, stale, loop, data, spare, sent, done, backoff, lost>>
          /\ kept' = FALSE
        BY <1>1 DEF Pick, account
    <2> QED
        BY <2>1, <2>2, ZenonT(40) DEF TypeOK, TradeType
<1>2. ASSUME NEW n \in 1..MaxCash, Buy(n) PROVE TypeOK'
    <2>1. real[trade.shard] - n \in Nat /\ trade.left - n \in Nat
        <3>1. n \in Nat /\ n <= trade.left /\ n <= real[trade.shard]
            BY <1>2 DEF Buy
        <3>2. real[trade.shard] \in Nat
            BY <1>0
        <3> QED
            BY <1>0, <3>1, <3>2
    <2>2. real' \in [Shards -> Nat]
        BY <1>0, <1>2, <2>1, MinusNat DEF Buy
    <2>3. trade' \in TradeType
        <3>1. trade.left - n \in Nat /\ trade.unheard + n \in Int
            BY <1>0, <2>1
        <3>2. trade' = [trade EXCEPT !.left = trade.left - n, !.unheard = trade.unheard + n]
            BY <1>2 DEF Buy
        <3> QED BY <1>0, <3>1, <3>2, TradeStep
    <2>4. UNCHANGED <<landing, known, cash, stale, loop, data, kept, spare, sent, done, backoff, lost>>
        BY <1>2 DEF Buy, account, round
    <2> QED
        BY <2>2, <2>3, <2>4 DEF TypeOK, TradeType
<1>3. ASSUME NEW n \in 1..MaxCash, Sell(n) PROVE TypeOK'
    <2>1. real' \in [Shards -> Nat]
        BY <1>0, <1>3, PlusNat DEF Sell
    <2>2. trade' \in TradeType
        <3>1. trade.unheard - n \in Int
            BY <1>0
        <3>2. trade' = [trade EXCEPT !.left = 0, !.unheard = trade.unheard - n]
            BY <1>3 DEF Sell
        <3> QED BY <1>0, <3>1, <3>2, TradeStep
    <2>3. UNCHANGED <<landing, known, cash, stale, loop, data, kept, spare, sent, done, backoff, lost>>
        BY <1>3 DEF Sell, account, round
    <2> QED
        BY <2>1, <2>2, <2>3 DEF TypeOK, TradeType
<1>4. CASE Heard
    <2>1. cash' \in [Shards -> Int]
        BY <1>0, <1>4, PlusMinusInt DEF Heard
    <2>2. trade' \in TradeType
        BY <1>0, <1>4 DEF Heard, TradeType
    <2>3. UNCHANGED <<real, landing, known, stale, loop, data, kept, spare, sent, done, backoff, lost>>
        BY <1>4 DEF Heard, round
    <2> QED
        BY <2>1, <2>2, <2>3 DEF TypeOK, TradeType
<1>5. CASE TradeEnds
    <2>1. trade' \in TradeType /\ stale' = TRUE /\ lost' \in BOOLEAN
        BY <1>5, NothingOut DEF TradeEnds
    <2>2. UNCHANGED <<real, landing, known, cash, loop, data, kept, spare, sent, done, backoff>>
        BY <1>5 DEF TradeEnds, round
    <2> QED
        BY <2>1, <2>2 DEF TypeOK, TradeType
<1>6. ASSUME NEW s \in Shards, Payout(s) PROVE TypeOK'
    <2>1. real' \in [Shards -> Nat]
        <3>1. real[s] + 1 \in Nat
            BY <1>0
        <3> QED BY <1>0, <1>6, <3>1, PlusNat DEF Payout
    <2>2. UNCHANGED <<landing, known, cash, stale, trade, loop, data, kept, spare, sent, done, backoff, lost>>
        BY <1>6 DEF Payout, account, round
    <2> QED
        BY <2>1, <2>2 DEF TypeOK
<1>7. CASE Ask \/ Answer
    BY <1>7 DEF Ask, Answer, account, round, TypeOK
<1>8. CASE AccountRead \/ AccountReadFails
    <2>1. cash' \in [Shards -> Int] /\ known' \in BOOLEAN /\ lost' \in BOOLEAN
        <3>1. known \in BOOLEAN /\ lost \in BOOLEAN /\ data \in [Shards -> Int]
            BY <1>0 DEF TypeOK
        <3>2. \/ cash' = data /\ known' = TRUE /\ lost' = FALSE
              \/ cash' = cash /\ known' = known /\ lost' = lost
            BY <1>8 DEF AccountRead, AccountReadFails, account
        <3> QED BY <1>0, <3>1, <3>2
    <2>2. data' \in [Shards -> Nat] /\ kept' = FALSE /\ loop' = "step"
        BY <1>8, Nobody DEF AccountRead, AccountReadFails
    <2>3. UNCHANGED <<real, landing, stale, trade, spare, sent, done, backoff>>
        BY <1>8 DEF AccountRead, AccountReadFails, account, round
    <2> QED
        BY <2>1, <2>2, <2>3 DEF TypeOK
<1>9. CASE Look
    <2>1. spare' \in [Shards -> Nat]
        BY <1>0, <1>9 DEF Look, Spare
    <2>2. UNCHANGED <<real, landing, known, cash, stale, trade, data, kept, sent, backoff, lost>>
          /\ loop' = "moving" /\ done' = FALSE
        BY <1>9 DEF Look, account
    <2> QED
        BY <2>1, <2>2 DEF TypeOK
<1>10. CASE NoLook \/ BackoffEnds
    BY <1>10 DEF NoLook, BackoffEnds, account, round, TypeOK
<1>11. CASE RoundEnds
    <2>1. UNCHANGED <<real, landing, known, cash, trade, data, kept, sent, backoff, lost>>
          /\ spare' \in [Shards -> Nat] /\ loop' = "top" /\ done' = FALSE
        BY <1>11, Nobody DEF RoundEnds
    <2>2. stale' \in BOOLEAN
        BY <1>11 DEF RoundEnds
    <2> QED
        BY <2>1, <2>2 DEF TypeOK
<1>12. ASSUME NEW src \in Shards, NEW dst \in Shards, NEW amt \in 1..MaxCash, Transfer(src, dst, amt)
       PROVE  TypeOK'
    <2>1. amt \in Nat \ {0} /\ spare[src] - amt \in Nat
        BY <1>0, <1>12 DEF Transfer
    <2>2. cash' \in [Shards -> Int]
        <3>1. amt \in Int
            BY <2>1
        <3>2. Minus(cash, src, amt) \in [Shards -> Int]
            BY <1>0, <3>1, PlusMinusInt
        <3> QED BY <1>12, <3>2 DEF Transfer, SetAside
    <2>3. spare' \in [Shards -> Nat]
        BY <1>0, <1>12, <2>1, MinusNat DEF Transfer
    <2>4. sent' \in TransferType
        BY <1>12, <2>1 DEF Transfer, TransferType
    <2>5. UNCHANGED <<real, landing, known, stale, trade, loop, data, kept, done, backoff, lost>>
        BY <1>12 DEF Transfer
    <2> QED
        BY <2>2, <2>3, <2>4, <2>5 DEF TypeOK, TransferType
<1>13. CASE Moved
    <2>1. real[sent.src] - sent.amt \in Nat
        BY <1>0, <1>13 DEF Moved
    <2>2. Minus(real, sent.src, sent.amt) \in [Shards -> Nat]
        BY <1>0, <2>1, MinusNat
    <2>3. Plus(Minus(real, sent.src, sent.amt), sent.dst, sent.amt) \in [Shards -> Nat]
        <3>1. Minus(real, sent.src, sent.amt)[sent.dst] + sent.amt \in Nat
            BY <1>0, <2>2
        <3> QED BY <1>0, <2>2, <3>1, PlusNat
    <2>4. Plus(landing, sent.dst, sent.amt) \in [Shards -> Nat]
        <3>1. landing[sent.dst] + sent.amt \in Nat
            BY <1>0
        <3> QED BY <1>0, <3>1, PlusNat
    <2>5. real' \in [Shards -> Nat] /\ landing' \in [Shards -> Nat]
        BY <1>0, <1>13, <2>2, <2>3, <2>4 DEF Moved
    <2>6. sent' \in TransferType
        BY <1>0, <1>13 DEF Moved, TransferType
    <2>7. UNCHANGED <<known, cash, stale, trade, loop, data, kept, spare, done, backoff, lost>>
        BY <1>13 DEF Moved, account
    <2> QED
        BY <2>5, <2>6, <2>7 DEF TypeOK, TransferType
<1>14. CASE Refused
    <2>1. sent' \in TransferType
        BY <1>0, <1>14 DEF Refused, TransferType
    <2>2. UNCHANGED <<real, landing, known, cash, stale, trade, loop, data, kept, spare, done, backoff, lost>>
        BY <1>14 DEF Refused, account
    <2> QED
        BY <2>1, <2>2 DEF TypeOK, TransferType
<1>15. ASSUME NEW s \in Shards, Landed(s) PROVE TypeOK'
    <2>1. real' \in [Shards -> Nat]
        <3>1. landing[s] \in Nat /\ real[s] \in Nat
            BY <1>0
        <3>2. real' = Plus(real, s, landing[s])
            BY <1>15 DEF Landed
        <3>3. landing[s] \in Int /\ real[s] + landing[s] \in Nat
            BY <3>1
        <3>4. Plus(real, s, landing[s]) \in [Shards -> Nat]
            BY <1>0, <3>3, PlusNat
        <3> QED
            BY <3>2, <3>4
    <2>2. landing' \in [Shards -> Nat]
        BY <1>0, <1>15 DEF Landed
    <2>3. UNCHANGED <<known, cash, stale, trade, loop, data, kept, spare, sent, done, backoff, lost>>
        BY <1>15 DEF Landed, account, round
    <2> QED
        BY <2>1, <2>2, <2>3 DEF TypeOK
<1>16. CASE TransferDone
    <2>1. cash' \in [Shards -> Int]
        <3>1. Plus(cash, sent.dst, sent.amt) \in [Shards -> Int]
            <4>1. sent.amt \in Int
                BY <1>0
            <4> QED BY <1>0, <4>1, PlusMinusInt
        <3> QED BY <1>0, <1>16, <3>1 DEF TransferDone
    <2>2. sent' \in TransferType /\ done' = TRUE
        BY <1>16, NothingOut DEF TransferDone
    <2>3. UNCHANGED <<real, landing, known, stale, trade, loop, data, kept, spare, backoff, lost>>
        BY <1>16 DEF TransferDone
    <2> QED
        BY <2>1, <2>2, <2>3 DEF TypeOK, TransferType
<1>17. CASE TransferFails \/ TransferUnclear
    <2>1. cash' \in [Shards -> Int]
        <3>1. Plus(cash, sent.src, sent.amt) \in [Shards -> Int]
            <4>1. sent.amt \in Int
                BY <1>0
            <4> QED BY <1>0, <4>1, PlusMinusInt
        <3> QED BY <1>0, <1>17, <3>1 DEF TransferFails, TransferUnclear
    <2>2. Failed
        BY <1>17 DEF TransferFails, TransferUnclear
    <2>3. sent' \in TransferType /\ spare' \in [Shards -> Nat]
        BY <2>2, Nobody, NothingOut DEF Failed
    <2>4. /\ loop' = "top" /\ stale' = TRUE /\ backoff' = TRUE /\ done' = FALSE
          /\ UNCHANGED <<real, landing, known, trade, data, kept, lost>>
        BY <2>2 DEF Failed
    <2> QED
        BY <2>1, <2>3, <2>4 DEF TypeOK, TransferType
<1>18. CASE UNCHANGED vars
    BY <1>18 DEF vars, account, round, TypeOK
<1> QED
    BY <1>1, <1>2, <1>3, <1>4, <1>5, <1>6, <1>7, <1>8, <1>9, <1>10, <1>11, <1>12, <1>13, <1>14,
       <1>15, <1>16, <1>17, <1>18 DEF Next

\* Every variable keeps its type: amounts that left a shard were there.
THEOREM CashTypeCorrect == Spec => []TypeOK
<1>1. Init => TypeOK
    BY InitType
<1>2. TypeOK /\ [Next]_vars => TypeOK'
    BY NextType
<1> QED
    BY <1>1, <1>2, PTL DEF Spec

-----------------------------------------------------------------------------
(* Cash on hand *)

LEMMA Amounts ==
    ASSUME TypeOK
    PROVE  /\ \A x \in Shards : /\ cash[x] \in Int /\ real[x] \in Int /\ real[x] >= 0 /\ data[x] \in Int
                                /\ landing[x] \in Int
                                /\ Due(x) \in Int /\ Due(x) >= 0 /\ Unheard(x) \in Int
           /\ real \in [Shards -> Int] /\ cash \in [Shards -> Int]
           /\ trade.shard \in Shards /\ trade.unheard \in Int
           /\ sent.src \in Shards /\ sent.dst \in Shards /\ sent.amt \in Int /\ sent.amt > 0
<1>1. /\ real \in [Shards -> Nat] /\ data \in [Shards -> Nat] /\ cash \in [Shards -> Int]
      /\ landing \in [Shards -> Nat]
      /\ trade.shard \in Shards /\ trade.unheard \in Int
      /\ sent.src \in Shards /\ sent.dst \in Shards /\ sent.amt \in Nat \ {0}
    BY DEF TypeOK
<1>2. ASSUME NEW x \in Shards
      PROVE  Due(x) \in Int /\ Due(x) >= 0 /\ Unheard(x) \in Int
    BY <1>1 DEF Due, Unheard
<1> QED
    BY <1>1, <1>2

LEMMA InitCovered == Init => Apart /\ ReadCovered /\ Covered
<1> SUFFICES ASSUME Init PROVE Apart /\ ReadCovered /\ Covered
    OBVIOUS
<1>1. sent.state = "none" /\ kept = FALSE /\ trade.on = FALSE
    BY DEF Init, NotSent, NoTrade
<1>2. ASSUME NEW x \in Shards PROVE cash[x] + Due(x) <= real[x] + Unheard(x)
    <2>1. cash[x] = 0 /\ real[x] \in Nat
        BY BoundAssumption DEF Init, Empty
    <2>2. Due(x) = 0 /\ Unheard(x) = 0
        BY <1>1 DEF Due, Unheard, Busy
    <2> QED BY <2>1, <2>2
<1> QED
    BY <1>1, <1>2 DEF Apart, ReadCovered, Covered, Busy

LEMMA NextApart == CInv /\ [Next]_vars => Apart'
<1> SUFFICES ASSUME CInv, [Next]_vars PROVE Apart'
    OBVIOUS
<1> USE DEF CInv, Apart, Busy
<1>1. ASSUME NEW s \in Shards, NEW n \in 1..MaxCash, Pick(s, n) PROVE Apart'
    BY <1>1 DEF Pick
<1>2. ASSUME NEW n \in 1..MaxCash, Buy(n) \/ Sell(n) PROVE Apart'
    BY <1>2 DEF Buy, Sell, round
<1>3. CASE Heard \/ TradeEnds
    <2>1. Heard => trade'.on = trade.on /\ UNCHANGED <<loop, kept, lost, sent>>
        BY DEF Heard, round, TypeOK
    <2>2. TradeEnds => trade'.on = FALSE /\ UNCHANGED <<loop, kept, sent>>
        BY DEF TradeEnds, round, NoTrade
    <2> QED BY <1>3, <2>1, <2>2
<1>4. ASSUME NEW s \in Shards, Payout(s) \/ Landed(s) PROVE Apart'
    BY <1>4 DEF Payout, Landed, round
<1>5. CASE Ask \/ Answer \/ AccountRead \/ AccountReadFails
    BY <1>5 DEF Ask, Answer, AccountRead, AccountReadFails, round
<1>6. CASE Look \/ NoLook \/ BackoffEnds \/ RoundEnds
    BY <1>6 DEF Look, NoLook, BackoffEnds, RoundEnds, round
<1>7. ASSUME NEW src \in Shards, NEW dst \in Shards, NEW amt \in 1..MaxCash, Transfer(src, dst, amt)
      PROVE  Apart'
    BY <1>7 DEF Transfer
<1>8. CASE Moved \/ Refused
    <2>1. sent.state = "sent" /\ UNCHANGED <<loop, kept, trade, lost>>
        BY <1>8 DEF Moved, Refused
    <2> QED BY <2>1
<1>9. CASE TransferDone \/ TransferFails \/ TransferUnclear
    <2>1. sent.state # "none"
        BY <1>9 DEF TransferDone, TransferFails, TransferUnclear, PutsBack
    <2>2. sent'.state = "none" /\ UNCHANGED <<kept, trade, lost>>
        BY <1>9 DEF TransferDone, TransferFails, TransferUnclear, Failed, NotSent
    <2> QED BY <2>1, <2>2
<1>10. CASE UNCHANGED vars
    BY <1>10 DEF vars, account, round
<1> QED
    BY <1>1, <1>2, <1>3, <1>4, <1>5, <1>6, <1>7, <1>8, <1>9, <1>10 DEF Next

LEMMA NextReadCovered == CInv /\ [Next]_vars => ReadCovered'
<1> SUFFICES ASSUME CInv, [Next]_vars, kept', loop' = "answered", NEW x \in Shards
             PROVE  data'[x] <= real'[x]
    BY DEF ReadCovered
<1>0. TypeOK /\ Apart /\ ReadCovered
    BY DEF CInv
<1>1. data[x] \in Int /\ real[x] \in Int /\ landing[x] \in Int
    BY <1>0, Amounts
<1>2. CASE UNCHANGED <<real, data, kept, loop>>
    BY <1>0, <1>2 DEF ReadCovered
<1>3. ASSUME NEW s \in Shards, NEW n \in 1..MaxCash, Pick(s, n) PROVE FALSE
    BY <1>3 DEF Pick
<1>4. ASSUME NEW n \in 1..MaxCash, Buy(n) \/ Sell(n) PROVE FALSE
    <2>1. Busy /\ kept
        BY <1>4 DEF Buy, Sell
    <2> QED BY <1>0, <2>1 DEF Apart
<1>5. ASSUME NEW s \in Shards, Payout(s) \/ Landed(s) PROVE data'[x] <= real'[x]
    <2>1. data' = data /\ data[x] <= real[x]
        BY <1>0, <1>5 DEF Payout, Landed, round, ReadCovered
    <2>2. real \in [Shards -> Int] /\ landing[s] \in Int /\ (Payout(s) \/ landing[s] > 0)
        BY <1>0, <1>5, Amounts DEF Landed
    <2>3. real' = Plus(real, s, 1) \/ (real' = Plus(real, s, landing[s]) /\ landing[s] > 0)
        BY <1>5 DEF Payout, Landed
    <2>4. real'[x] >= real[x]
        BY <1>1, <2>2, <2>3, PlusMinus
    <2>5. real'[x] \in Int
        BY <1>1, <2>2, <2>3, PlusMinus
    <2> QED BY <1>1, <2>1, <2>4, <2>5
<1>6. CASE Answer
    BY <1>1, <1>6 DEF Answer
<1>7. CASE Ask \/ AccountRead \/ AccountReadFails \/ Look \/ NoLook \/ RoundEnds
    BY <1>7 DEF Ask, AccountRead, AccountReadFails, Look, NoLook, RoundEnds
<1>8. CASE Moved \/ Refused \/ TransferDone \/ TransferFails \/ TransferUnclear
    <2>1. sent.state # "none" /\ kept
        BY <1>8 DEF Moved, Refused, TransferDone, TransferFails, TransferUnclear, Failed, PutsBack
    <2>2. loop = "moving"
        BY <1>0, <2>1 DEF Apart
    <2> QED BY <1>0, <2>1, <2>2 DEF Apart
<1>9. CASE Heard \/ TradeEnds \/ BackoffEnds \/ UNCHANGED vars
    BY <1>2, <1>9 DEF Heard, TradeEnds, BackoffEnds, vars, round
<1>10. ASSUME NEW src \in Shards, NEW dst \in Shards, NEW amt \in 1..MaxCash, Transfer(src, dst, amt)
       PROVE  FALSE
    BY <1>10 DEF Transfer
<1> QED
    BY <1>3, <1>4, <1>5, <1>6, <1>7, <1>8, <1>9, <1>10 DEF Next

\* Due and Unheard are what they were if the transfer and the trade are.
LEMMA SameDue ==
    ASSUME NEW x \in Shards
    PROVE  /\ UNCHANGED sent => Due(x)' = Due(x)
           /\ UNCHANGED trade => Unheard(x)' = Unheard(x)
BY DEF Due, Unheard, Busy

LEMMA NextCovered == ~HiddenMoves /\ CInv /\ TypeOK' /\ [Next]_vars => Covered'
<1> SUFFICES ASSUME ~HiddenMoves, CInv, TypeOK', [Next]_vars, ~lost', NEW x \in Shards
             PROVE  cash'[x] + Due(x)' <= real'[x] + Unheard(x)'
    BY DEF Covered
<1>0. /\ TypeOK /\ Apart /\ ReadCovered
      /\ ~lost => cash[x] + Due(x) <= real[x] + Unheard(x)
    BY DEF CInv, Covered
<1>1. /\ cash[x] \in Int /\ real[x] \in Int /\ real[x] >= 0 /\ data[x] \in Int /\ landing[x] \in Int
      /\ Due(x) \in Int /\ Due(x) >= 0 /\ Unheard(x) \in Int
      /\ real \in [Shards -> Int] /\ cash \in [Shards -> Int]
      /\ trade.shard \in Shards /\ trade.unheard \in Int
      /\ sent.src \in Shards /\ sent.dst \in Shards /\ sent.amt \in Int /\ sent.amt > 0
    BY <1>0, Amounts
<1>2. CASE UNCHANGED <<real, cash, sent, trade, lost>>
    BY <1>0, <1>2, SameDue
<1>3. ASSUME NEW s \in Shards, NEW n \in 1..MaxCash, Pick(s, n)
      PROVE  cash'[x] + Due(x)' <= real'[x] + Unheard(x)'
    <2>1. Unheard(x) = 0 /\ Unheard(x)' = 0
        BY <1>3 DEF Pick, Unheard, Busy
    <2>2. UNCHANGED <<real, cash, sent>> /\ ~lost
        BY <1>3 DEF Pick, account
    <2> QED BY <1>0, <2>1, <2>2, SameDue
<1>4. ASSUME NEW n \in 1..MaxCash, Buy(n)
      PROVE  cash'[x] + Due(x)' <= real'[x] + Unheard(x)'
    <2>1. UNCHANGED <<cash, sent>> /\ ~lost
        BY <1>4 DEF Buy, account, round
    <2>2. n \in Int
        BY BoundAssumption
    <2>3. real'[x] = IF x = trade.shard THEN real[x] - n ELSE real[x]
        <3>1. real' = Minus(real, trade.shard, n)
            BY <1>4 DEF Buy
        <3> QED
            BY <1>1, <2>2, <3>1, PlusMinus
    <2>4. trade'.shard = trade.shard /\ trade'.on = trade.on /\ trade'.unheard = trade.unheard + n
        BY <1>0, <1>4 DEF Buy, TypeOK
    <2>5. Unheard(x)' = IF x = trade.shard THEN Unheard(x) + n ELSE Unheard(x)
        BY <1>1, <1>4, <2>4 DEF Buy, Unheard, Busy
    <2>6. Due(x)' = Due(x)
        BY <2>1, SameDue
    <2> QED BY <1>0, <1>1, <2>1, <2>2, <2>3, <2>5, <2>6
<1>5. ASSUME NEW n \in 1..MaxCash, Sell(n)
      PROVE  cash'[x] + Due(x)' <= real'[x] + Unheard(x)'
    <2>1. UNCHANGED <<cash, sent>> /\ ~lost
        BY <1>5 DEF Sell, account, round
    <2>2. n \in Int
        BY BoundAssumption
    <2>3. real'[x] = IF x = trade.shard THEN real[x] + n ELSE real[x]
        <3>1. real' = Plus(real, trade.shard, n)
            BY <1>5 DEF Sell
        <3> QED
            BY <1>1, <2>2, <3>1, PlusMinus
    <2>4. trade'.shard = trade.shard /\ trade'.on = trade.on /\ trade'.unheard = trade.unheard - n
        BY <1>0, <1>5 DEF Sell, TypeOK
    <2>5. Unheard(x)' = IF x = trade.shard THEN Unheard(x) - n ELSE Unheard(x)
        BY <1>1, <1>5, <2>4 DEF Sell, Unheard, Busy
    <2>6. Due(x)' = Due(x)
        BY <2>1, SameDue
    <2> QED BY <1>0, <1>1, <2>1, <2>2, <2>3, <2>5, <2>6
<1>6. CASE Heard
    <2>1. UNCHANGED <<real, sent>> /\ ~lost
        BY <1>6 DEF Heard, round
    <2>2. cash'[x] = IF x = trade.shard THEN cash[x] - trade.unheard ELSE cash[x]
        BY <1>1, <1>6, PlusMinus DEF Heard
    <2>3. trade'.shard = trade.shard /\ trade'.on = trade.on /\ trade'.unheard = 0
        BY <1>0, <1>6 DEF Heard, TypeOK
    <2>4. Unheard(x)' = 0 /\ (Unheard(x) = IF x = trade.shard THEN trade.unheard ELSE 0)
        BY <1>6, <2>3 DEF Heard, Unheard, Busy
    <2>5. Due(x)' = Due(x)
        BY <2>1, SameDue
    <2> QED BY <1>0, <1>1, <2>1, <2>2, <2>4, <2>5
<1>7. CASE TradeEnds
    <2>1. UNCHANGED <<real, cash, sent>> /\ trade.unheard = 0 /\ Busy
        BY <1>7 DEF TradeEnds, round
    <2>2. Unheard(x) = 0 /\ Unheard(x)' = 0
        BY <1>7, <2>1 DEF TradeEnds, Unheard, Busy, NoTrade
    <2>3. ~lost
        BY <1>0, <2>1 DEF Apart
    <2> QED BY <1>0, <2>1, <2>2, <2>3, SameDue
<1>8. ASSUME NEW s \in Shards, Payout(s) \/ Landed(s)
      PROVE  cash'[x] + Due(x)' <= real'[x] + Unheard(x)'
    <2>1. UNCHANGED <<cash, sent, trade>> /\ ~lost
        BY <1>8 DEF Payout, Landed, account, round
    <2>2. landing[s] \in Int
        BY <1>0, Amounts
    <2>3. real' = Plus(real, s, 1) \/ (real' = Plus(real, s, landing[s]) /\ landing[s] > 0)
        BY <1>8 DEF Payout, Landed
    <2>4. real'[x] \in Int /\ real'[x] >= real[x]
        <3>1. ASSUME NEW n \in Nat, real' = Plus(real, s, n) PROVE real'[x] \in Int /\ real'[x] >= real[x]
            <4>1. real'[x] = IF x = s THEN real[x] + n ELSE real[x]
                BY <1>1, <3>1, PlusMinus
            <4> QED
                BY <1>1, <4>1
        <3> QED
            BY <2>2, <2>3, <3>1
    <2> QED BY <1>0, <1>1, <2>1, <2>4, SameDue
<1>9. CASE AccountRead
    <2>1. UNCHANGED <<real, sent, trade>>
        BY <1>9 DEF AccountRead, round
    <2>2. CASE kept
        <3>1. sent.state = "none" /\ ~Busy /\ data[x] <= real[x]
            BY <1>0, <1>9, <2>2 DEF AccountRead, Apart, ReadCovered
        <3>2. cash' = data
            BY <1>9, <2>2 DEF AccountRead, Keeps
        <3>3. Due(x) = 0 /\ Unheard(x) = 0
            BY <3>1 DEF Due, Unheard
        <3> QED BY <1>1, <2>1, <3>1, <3>2, <3>3, SameDue
    <2>3. CASE ~kept
        BY <1>2, <1>9, <2>1, <2>3 DEF AccountRead, Keeps
    <2> QED BY <2>2, <2>3
<1>10. CASE Ask \/ Answer \/ AccountReadFails \/ Look \/ NoLook \/ RoundEnds \/ BackoffEnds \/ UNCHANGED vars
    BY <1>2, <1>10
       DEF Ask, Answer, AccountReadFails, Look, NoLook, RoundEnds, BackoffEnds, vars, account, round
<1>11. ASSUME NEW src \in Shards, NEW dst \in Shards, NEW amt \in 1..MaxCash, Transfer(src, dst, amt)
       PROVE  cash'[x] + Due(x)' <= real'[x] + Unheard(x)'
    <2>1. UNCHANGED <<real, trade>> /\ amt \in Int /\ ~lost
        BY <1>11, BoundAssumption DEF Transfer
    <2>2. cash'[x] = IF x = src THEN cash[x] - amt ELSE cash[x]
        BY <1>1, <1>11, <2>1, PlusMinus DEF Transfer, SetAside
    <2>3. Due(x) = 0 /\ (Due(x)' = IF x = src THEN amt ELSE 0)
        BY <1>11 DEF Transfer, Due
    <2> QED BY <1>0, <1>1, <2>1, <2>2, <2>3, SameDue
<1>12. CASE Moved
    <2>1. UNCHANGED <<cash, trade>> /\ sent.state = "sent" /\ ~lost
        BY <1>12 DEF Moved, account
    <2>2. sent'.src = sent.src /\ sent'.dst = sent.dst /\ sent'.amt = sent.amt
        BY <1>0, <1>12 DEF Moved, TypeOK
    <2>3. Due(x) = IF x = sent.src THEN sent.amt ELSE 0
        BY <2>1 DEF Due
    <2>4. Minus(real, sent.src, sent.amt) \in [Shards -> Int]
        BY <1>1, PlusMinusInt
    <2>5. Minus(real, sent.src, sent.amt)[x] = IF x = sent.src THEN real[x] - sent.amt ELSE real[x]
        BY <1>1, PlusMinus
    <2>6. CASE sent'.state = "moved" /\ real' = Plus(Minus(real, sent.src, sent.amt), sent.dst, sent.amt)
        <3>1. real'[x] = Minus(real, sent.src, sent.amt)[x] + (IF x = sent.dst THEN sent.amt ELSE 0)
            BY <1>1, <2>4, <2>6, PlusMinus
        <3>2. Due(x)' = IF x = sent.dst THEN sent.amt ELSE 0
            BY <2>2, <2>6 DEF Due
        <3> QED BY <1>0, <1>1, <2>1, <2>3, <2>5, <3>1, <3>2, SameDue
    <2>7. CASE sent'.state = "pending" /\ real' = Minus(real, sent.src, sent.amt)
        <3>1. Due(x)' = 0
            BY <2>7 DEF Due
        <3> QED BY <1>0, <1>1, <2>1, <2>3, <2>5, <2>7, <3>1, SameDue
    <2>8. sent \in [state : {"none", "sent", "refused", "moved", "pending"}, src : Shards, dst : Shards,
                    amt : Nat \ {0}]
        BY <1>0 DEF TypeOK
    <2> QED BY <1>12, <2>6, <2>7, <2>8 DEF Moved
<1>13. CASE Refused
    <2>1. UNCHANGED <<real, cash, trade>> /\ sent.state = "sent" /\ ~lost
        BY <1>13 DEF Refused, account
    <2>2. sent'.state = "refused" /\ sent'.src = sent.src /\ sent'.amt = sent.amt
        BY <1>0, <1>13 DEF Refused, TypeOK
    <2>3. Due(x)' = Due(x)
        BY <2>1, <2>2 DEF Due
    <2> QED BY <1>0, <2>1, <2>3, SameDue
<1>14. CASE TransferDone
    <2>1. UNCHANGED <<real, trade>> /\ sent'.state = "none" /\ ~lost
        BY <1>14 DEF TransferDone, NotSent
    <2>2. Due(x)' = 0
        BY <2>1 DEF Due
    <2>3. CASE sent.state = "moved"
        <3>1. cash'[x] = IF x = sent.dst THEN cash[x] + sent.amt ELSE cash[x]
            BY <1>1, <1>14, <2>3, PlusMinus DEF TransferDone
        <3>2. Due(x) = IF x = sent.dst THEN sent.amt ELSE 0
            BY <2>3 DEF Due
        <3> QED BY <1>0, <1>1, <2>1, <2>2, <3>1, <3>2, SameDue
    <2>4. CASE sent.state # "moved"
        <3>1. cash' = cash
            BY <1>14, <2>4 DEF TransferDone
        <3> QED BY <1>0, <1>1, <2>1, <2>2, <3>1, SameDue
    <2> QED BY <2>3, <2>4
<1>15. CASE TransferFails
    <2>1. ~lost /\ UNCHANGED <<real, trade>> /\ sent'.state = "none" /\ sent.state \in {"sent", "refused"}
        BY <1>15 DEF TransferFails, Failed, NotSent, PutsBack
    <2>2. Due(x)' = 0 /\ (Due(x) = IF x = sent.src THEN sent.amt ELSE 0)
        BY <2>1 DEF Due
    <2>3. cash'[x] = IF x = sent.src THEN cash[x] + sent.amt ELSE cash[x]
        BY <1>1, <1>15, PlusMinus DEF TransferFails
    <2> QED BY <1>0, <1>1, <2>1, <2>2, <2>3, SameDue
<1>16. CASE TransferUnclear
    <2>1. UNCHANGED <<real, trade, cash>> /\ sent'.state = "none" /\ ~lost
        BY <1>16 DEF TransferUnclear, Failed, NotSent
    <2>2. Due(x)' = 0
        BY <2>1 DEF Due
    <2> QED BY <1>0, <1>1, <2>1, <2>2, SameDue
<1> QED
    BY <1>3, <1>4, <1>5, <1>6, <1>7, <1>8, <1>9, <1>10, <1>11, <1>12, <1>13, <1>14, <1>15, <1>16 DEF Next

\* "Never spend what's on its way out": between trades the trader counts on no more
\* on any shard than is there, whatever transfers, late answers and overlapping reads
\* of the account came before, if a transfer answered with an HTTP error was not made.
THEOREM CashOnHand ==
    ASSUME ~HiddenMoves
    PROVE  Spec => []NeverOverspent
<1>1. Init => CInv
    BY InitType, InitCovered DEF CInv
<1>2. CInv /\ [Next]_vars => CInv'
    BY NextType, NextApart, NextReadCovered, NextCovered DEF CInv
<1>3. CInv => NeverOverspent
    <2> SUFFICES ASSUME CInv, ~Busy, ~lost, NEW x \in Shards PROVE cash[x] <= real[x]
        BY DEF NeverOverspent
    <2>1. cash[x] + Due(x) <= real[x] + Unheard(x) /\ Unheard(x) = 0
        BY DEF CInv, Covered, Unheard
    <2>2. cash[x] \in Int /\ real[x] \in Int /\ Due(x) \in Int /\ Due(x) >= 0
        BY Amounts DEF CInv
    <2> QED BY <2>1, <2>2
<1> QED
    BY <1>1, <1>2, <1>3, PTL DEF Spec

-----------------------------------------------------------------------------
(***************************************************************************)
(* Settlement: the account of the live trades                              *)
(***************************************************************************)

\* While the process runs, its memory knows how the row stands, nothing on record is of a
\* later day, what was written is never undone, and only a process that runs and has no row
\* yet has a trade under way.
SettleHeld ==
    /\ gday <= day
    /\ row.opened <= day /\ row.closed <= day /\ disk.opened <= day /\ disk.closed <= day
    /\ made <= day /\ (made # 0 => up /\ row.status = "none")
    /\ up => /\ row.opened <= gday /\ row.closed <= gday /\ booked <= gday
             /\ held = "open" => row.status = "open"
             /\ held = "unpaid" \/ disk.status = "settled" => row.status = "settled"

SInv == Live!TypeOK /\ SettleHeld /\ Live!PnlAgrees /\ Live!RecordedAsPaid

LEMMA SettleConstants ==
    /\ Values \subseteq 0..2 /\ \A c \in Costs : c \in Nat /\ c \in Int
    /\ MaxDay \in Nat /\ MaxDay >= 1 /\ 9 \notin Values
BY SettleAssumption DEF Live!ValuesFit, Live!Yes

\* What a row may be, and what it says.
RowType == [status : {"none", "open", "settled"}, out : Costs \cup {0}, opened : 0..MaxDay,
            closed : 0..MaxDay, pay : [{"K", "P"} -> 0..2]]

LEMMA RowsAre == Live!Rows = RowType
BY DEF Live!Rows, RowType, Live!Venues, Live!Yes

LEMMA RowIs ==
    ASSUME NEW t \in RowType
    PROVE  /\ t.status \in {"none", "open", "settled"} /\ t.out \in Nat
           /\ t.opened \in 0..MaxDay /\ t.closed \in 0..MaxDay
           /\ t.pay["K"] \in 0..2 /\ t.pay["P"] \in 0..2
           /\ Live!Pnl(t) \in Int /\ Live!EarlyLoss(t) \in Nat
           /\ \A d \in Nat : Live!Today(t, d) \in Int
           /\ \A b, d \in Nat : Live!Tally(t, b, d) \in Int
<1>1. /\ t.status \in {"none", "open", "settled"} /\ t.out \in Nat
      /\ t.opened \in 0..MaxDay /\ t.closed \in 0..MaxDay
      /\ t.pay["K"] \in 0..2 /\ t.pay["P"] \in 0..2
    BY SettleConstants DEF RowType
<1>2. Live!Pnl(t) \in Int
    BY <1>1 DEF Live!Pnl
<1>3. Live!EarlyLoss(t) \in Nat
    BY <1>1 DEF Live!EarlyLoss
<1>4. \A d \in Nat : Live!Today(t, d) \in Int
    BY <1>2, <1>3 DEF Live!Today
<1>5. \A b, d \in Nat : Live!Tally(t, b, d) \in Int
    BY <1>3, <1>4 DEF Live!Tally
<1> QED
    BY <1>1, <1>2, <1>3, <1>4, <1>5

LEMMA SettleInit == Live!Init => SInv
<1> SUFFICES ASSUME Live!Init PROVE SInv
    OBVIOUS
<1>1. Live!NoTrade \in RowType
    BY SettleConstants DEF Live!NoTrade, RowType, Live!Venues
<1>2. Live!NoneKnown \in Live!PerVenue
    BY DEF Live!NoneKnown, Live!PerVenue
<1>3. results \in [Live!Venues -> [yes : Live!Yes \cup {Live!Unknown}, paid : BOOLEAN]]
    BY DEF Live!Init
<1>4. Live!TypeOK
    <2>1. up \in BOOLEAN /\ late \in BOOLEAN
        BY Zenon DEF Live!Init
    <2>2. /\ day \in 1..MaxDay /\ gday \in 1..MaxDay /\ realized \in Int /\ pnl \in Int
          /\ held \in {"open", "unpaid", "none"} /\ fresh = {} /\ reader \in {"idle", "K", "P", "done"}
          /\ made \in 0..MaxDay /\ booked \in 0..MaxDay
        BY SettleConstants DEF Live!Init
    <2>3. row \in RowType /\ disk \in RowType
        BY <1>1 DEF Live!Init
    <2>4. entry \in Live!PerVenue /\ payouts \in Live!PerVenue /\ committed \in Live!PerVenue
        BY <1>2 DEF Live!Init
    <2> QED
        BY <1>3, <2>1, <2>2, <2>3, <2>4, RowsAre, Zenon DEF Live!TypeOK
<1>5. Live!NoTrade.status = "none" /\ Live!NoTrade.opened = 0 /\ Live!NoTrade.closed = 0
    BY DEF Live!NoTrade
<1>6. SettleHeld /\ Live!PnlAgrees /\ Live!RecordedAsPaid
    BY <1>5 DEF SettleHeld, Live!Init, Live!PnlAgrees, Live!Pnl, Live!Today, Live!Tally,
                Live!RecordedAsPaid, Live!IsRight
<1> QED
    BY <1>4, <1>6 DEF SInv

LEMMA SettleTypes ==
    ASSUME Live!TypeOK
    PROVE  /\ day \in 1..MaxDay /\ gday \in 1..MaxDay /\ day \in Nat /\ gday \in Nat
           /\ made \in 0..MaxDay /\ booked \in 0..MaxDay /\ made \in Nat /\ booked \in Nat
           /\ row \in RowType /\ disk \in RowType
           /\ realized \in Int /\ pnl \in Int
           /\ \A v \in {"K", "P"} : /\ entry[v] \in 0..2 \cup {9} /\ payouts[v] \in 0..2 \cup {9}
                                    /\ committed[v] \in 0..2 \cup {9} /\ results[v].yes \in 0..2 \cup {9}
           /\ payouts \in Live!PerVenue /\ committed \in Live!PerVenue
BY RowsAre, SettleConstants DEF Live!TypeOK, Live!PerVenue, Live!Venues, Live!Yes, Live!Unknown

\* Today's count, kept by record_pnl, stays what the row says.
LEMMA Counted ==
    ASSUME SInv, up, NEW t \in RowType, NEW b \in Nat, NEW a \in Int, Live!RecordPnl(a),
           Live!Tally(t, b, day) = Live!Tally(row, booked, day) + a
    PROVE  gday' = day /\ pnl' = Live!Tally(t, b, day) /\ pnl' \in Int
<1>1. /\ day \in Nat /\ gday \in Nat /\ gday <= day /\ row \in RowType /\ pnl \in Int
      /\ booked \in Nat /\ booked <= gday
      /\ row.opened <= gday /\ row.closed <= gday /\ (gday = day => pnl = Live!Tally(row, booked, day))
    BY SettleTypes DEF SInv, SettleHeld, Live!PnlAgrees
<1>2. row.opened \in Nat /\ row.closed \in Nat /\ Live!Tally(row, booked, day) \in Int
    BY <1>1, RowIs
<1>3. gday # day => Live!Tally(row, booked, day) = 0
    <2>1. gday # day => booked # day /\ row.opened # day /\ row.closed # day
        BY <1>1, <1>2
    <2> QED
        BY <2>1 DEF Live!Tally, Live!Today
<1>4. gday' = day /\ pnl' = (IF gday = day THEN pnl ELSE 0) + a
    BY DEF Live!RecordPnl
<1>5. (IF gday = day THEN pnl ELSE 0) = Live!Tally(row, booked, day)
    BY <1>1, <1>3
<1> QED
    BY <1>2, <1>4, <1>5

LEMMA RightIs ==
    ASSUME NEW t \in RowType, NEW p \in Live!PerVenue, NEW vs
    PROVE  /\ Live!Right(t, p, vs) \in RowType
           /\ Live!Right(t, p, vs).status = t.status /\ Live!Right(t, p, vs).out = t.out
           /\ Live!Right(t, p, vs).opened = t.opened /\ Live!Right(t, p, vs).closed = t.closed
           /\ \A v \in {"K", "P"} : Live!Right(t, p, vs).pay[v] =
                  IF v \in vs /\ p[v] # 9 THEN Live!Pays(v, p[v]) ELSE t.pay[v]
<1> DEFINE q == [v \in {"K", "P"} |-> IF v \in vs /\ p[v] # 9 THEN Live!Pays(v, p[v]) ELSE t.pay[v]]
<1>1. Live!Right(t, p, vs) = [t EXCEPT !.pay = q]
    BY DEF Live!Right, Live!Venues, Live!Unknown
<1>2. q \in [{"K", "P"} -> 0..2]
    BY DEF RowType, Live!PerVenue, Live!Venues, Live!Yes, Live!Unknown, Live!Pays
<1>3. \A v \in {"K", "P"} : q[v] = IF v \in vs /\ p[v] # 9 THEN Live!Pays(v, p[v]) ELSE t.pay[v]
    OBVIOUS
<1> HIDE DEF q
<1>4. Live!Right(t, p, vs) \in RowType
    BY <1>1, <1>2 DEF RowType
<1>5. /\ Live!Right(t, p, vs).status = t.status /\ Live!Right(t, p, vs).out = t.out
      /\ Live!Right(t, p, vs).opened = t.opened /\ Live!Right(t, p, vs).closed = t.closed
      /\ Live!Right(t, p, vs).pay = q
    BY <1>1 DEF RowType
<1> QED
    BY <1>3, <1>4, <1>5

\* A trade is decided.
LEMMA SettleDecides == ASSUME SInv, Live!Decides PROVE SInv'
<1>1. /\ up /\ row.status = "none" /\ made' = day
      /\ UNCHANGED <<booked, day, entry, results, row, disk, held, realized, pnl, gday, payouts, committed,
                     fresh, reader, up, late>>
    BY DEF Live!Decides
<1>2. day \in 1..MaxDay /\ day \in Nat /\ row \in RowType
    BY SettleTypes DEF SInv
<1>3. Live!TypeOK'
    <2>1. up' \in BOOLEAN /\ late' \in BOOLEAN
        BY <1>1, Zenon DEF SInv, Live!TypeOK
    <2>2. made' \in 0..MaxDay
        BY <1>1, <1>2
    <2> QED
        BY <1>1, <2>1, <2>2, Zenon DEF SInv, Live!TypeOK
<1>4. SettleHeld'
    BY <1>1, <1>2 DEF SInv, SettleHeld
<1>5. Live!PnlAgrees'
    BY <1>1 DEF SInv, Live!PnlAgrees
<1>6. Live!RecordedAsPaid'
    BY <1>1 DEF SInv, Live!RecordedAsPaid, Live!IsRight
<1> QED
    BY <1>3, <1>4, <1>5, <1>6 DEF SInv

\* The trade is finished, on the day it was decided or a later one: either way today's count
\* is down by its early loss.
LEMMA SettleOpens == ASSUME SInv, Live!Opens PROVE SInv'
<1>1. PICK out \in Costs :
        /\ row' = [Live!NoTrade EXCEPT !.status = "open", !.out = out, !.opened = made]
        /\ Live!RecordPnl(-Live!EarlyLoss([Live!NoTrade EXCEPT !.status = "open", !.out = out, !.opened = made]))
    BY DEF Live!Opens
<1> DEFINE t == row'
<1>2. /\ up /\ made # 0 /\ made' = 0 /\ booked' = day /\ held' = "open"
      /\ UNCHANGED <<day, entry, results, disk, realized, payouts, committed, fresh, reader, up, late>>
    BY DEF Live!Opens
<1>3. /\ day \in 1..MaxDay /\ day \in Nat /\ row \in RowType /\ made \in 0..MaxDay /\ made \in Nat
      /\ made <= day /\ row.status = "none"
    BY <1>2, SettleTypes DEF SInv, SettleHeld
<1>4. /\ t \in RowType /\ t.status = "open" /\ t.opened = made /\ t.closed = 0
    <2>1. t = [status |-> "open", out |-> out, opened |-> made, closed |-> 0,
               pay |-> [v \in {"K", "P"} |-> 0]]
        BY <1>1 DEF Live!NoTrade, Live!Venues
    <2>2. [v \in {"K", "P"} |-> 0] \in [{"K", "P"} -> 0..2] /\ 0 \in 0..MaxDay
        BY <1>3, SettleConstants
    <2> HIDE DEF t
    <2> QED
        BY <1>3, <2>1, <2>2 DEF RowType
<1>5. Live!RecordPnl(-Live!EarlyLoss(t))
    BY <1>1
<1> HIDE DEF t
<1>6. /\ Live!EarlyLoss(t) \in Nat /\ Live!Tally(row, booked, day) = 0
      /\ Live!Tally(t, day, day) = -Live!EarlyLoss(t)
    <2>1. Live!EarlyLoss(t) \in Nat /\ Live!EarlyLoss(row) = 0
        BY <1>3, <1>4, RowIs DEF Live!EarlyLoss
    <2>2. Live!Today(row, day) = 0 /\ Live!Today(t, day) = IF made = day THEN -Live!EarlyLoss(t) ELSE 0
        BY <1>3, <1>4, <2>1 DEF Live!Today
    <2> QED
        BY <1>4, <2>1, <2>2 DEF Live!Tally
<1>7. gday' = day /\ pnl' = Live!Tally(t, day, day) /\ pnl' \in Int
    BY <1>2, <1>3, <1>4, <1>5, <1>6, Counted
<1>8. Live!TypeOK'
    <2>1. up' \in BOOLEAN /\ late' \in BOOLEAN
        BY <1>2, Zenon DEF SInv, Live!TypeOK
    <2>2. /\ made' \in 0..MaxDay /\ booked' \in 0..MaxDay /\ gday' \in 1..MaxDay /\ pnl' \in Int
          /\ held' \in {"open", "unpaid", "none"}
        BY <1>2, <1>3, <1>7, SettleConstants
    <2>3. row' \in Live!Rows
        BY <1>4, RowsAre DEF t
    <2> QED
        BY <1>2, <2>1, <2>2, <2>3, Zenon DEF SInv, Live!TypeOK
<1>9. SettleHeld'
    BY <1>2, <1>3, <1>4, <1>7 DEF SInv, SettleHeld, t
<1>10. Live!PnlAgrees' /\ Live!RecordedAsPaid'
    <2>1. realized' = 0
        BY <1>2, <1>3 DEF SInv, Live!PnlAgrees, Live!Pnl
    <2> QED
        BY <1>2, <1>4, <1>7, <2>1 DEF Live!PnlAgrees, Live!Pnl, Live!RecordedAsPaid, Live!IsRight, t
<1> QED
    BY <1>8, <1>9, <1>10 DEF SInv

LEMMA OutcomeIs ==
    ASSUME Live!TypeOK, NEW v \in {"K", "P"}, Live!Known(v)
    PROVE  /\ Live!Outcome(v).yes \in 0..2 /\ Live!Pays(v, Live!Outcome(v).yes) \in 0..2
           /\ committed[v] # 9 => Live!Outcome(v).yes = committed[v]
BY SettleTypes DEF Live!Known, Live!Outcome, Live!Unknown, Live!Pays

\* RecordedAsPaid, leg by leg.
Legs(r, p, f) == \A v \in {"K", "P"} : r.status = "settled" /\ p[v] # 9 /\ v \notin f
                                          => r.pay[v] = Live!Pays(v, p[v])

LEMMA LegByLeg ==
    ASSUME NEW r \in RowType, NEW p, NEW f
    PROVE  Live!IsRight([r EXCEPT !.pay = [v \in Live!Venues |->
                IF v \in f THEN Live!Pays(v, p[v]) ELSE r.pay[v]]], p) <=> Legs(r, p, f)
<1> DEFINE q == [v \in Live!Venues |-> IF v \in f THEN Live!Pays(v, p[v]) ELSE r.pay[v]]
           t == [r EXCEPT !.pay = q]
<1>1. t.status = r.status /\ t.pay = q
    BY DEF RowType
<1>2. \A v \in {"K", "P"} : q[v] = IF v \in f THEN Live!Pays(v, p[v]) ELSE r.pay[v]
    BY DEF Live!Venues
<1> HIDE DEF q, t
<1>3. Live!IsRight(t, p) <=> Legs(r, p, f)
    BY <1>1, <1>2 DEF Legs, Live!IsRight, Live!Venues, Live!Unknown
<1> QED
    BY <1>3 DEF t, q

LEMMA RecordedIs ==
    /\ row \in RowType => (Live!RecordedAsPaid <=> (up /\ ~late => Legs(row, payouts, fresh)))
    /\ row' \in RowType => (Live!RecordedAsPaid' <=> (up' /\ ~late' => Legs(row', payouts', fresh')))
BY LegByLeg DEF Live!RecordedAsPaid

SettledAt(r, d, p) == [r EXCEPT !.status = "settled", !.closed = d, !.pay = p]

LEMMA RowSettled ==
    ASSUME NEW r \in RowType, NEW d \in 0..MaxDay, NEW p \in [{"K", "P"} -> 0..2], NEW t,
           t = SettledAt(r, d, p)
    PROVE  /\ t \in RowType /\ t.status = "settled" /\ t.closed = d /\ t.pay = p
           /\ t.opened = r.opened /\ t.out = r.out
<1>1. SettledAt(r, d, p) \in RowType
    BY DEF RowType, SettledAt
<1>2. /\ SettledAt(r, d, p).status = "settled" /\ SettledAt(r, d, p).closed = d
      /\ SettledAt(r, d, p).pay = p /\ SettledAt(r, d, p).opened = r.opened
      /\ SettledAt(r, d, p).out = r.out
    BY DEF RowType, SettledAt
<1> QED
    BY <1>1, <1>2

\* The trade is settled at the results on record.
LEMMA SettleSettles ==
    ASSUME SInv, Live!Settle
    PROVE  SInv'
<1>0. /\ day \in 1..MaxDay /\ day \in Nat /\ row \in RowType /\ realized \in Int
    BY SettleTypes DEF SInv
<1>a. made \in 0..MaxDay /\ booked \in 0..MaxDay /\ booked \in Nat /\ made \in Nat
    BY SettleTypes DEF SInv
<1>1. /\ up /\ UNCHANGED <<made, booked, day, entry, results, disk, payouts, committed, fresh, reader, up>>
    BY DEF Live!Settle
<1>2. CASE /\ held = "unpaid" /\ held' = "none" /\ UNCHANGED <<row, realized, pnl, gday, late>>
    <2>1. Live!TypeOK'
        <3>1. up' \in BOOLEAN /\ late' \in BOOLEAN
            BY <1>1, <1>2, Zenon DEF SInv, Live!TypeOK
        <3> QED
            BY <1>1, <1>2, <3>1 DEF SInv, Live!TypeOK
    <2>2. SettleHeld'
        BY <1>1, <1>2 DEF SInv, SettleHeld
    <2>3. Live!PnlAgrees' /\ Live!RecordedAsPaid'
        BY <1>1, <1>2 DEF SInv, Live!PnlAgrees, Live!RecordedAsPaid, Live!IsRight
    <2> QED
        BY <2>1, <2>2, <2>3 DEF SInv
<1> DEFINE pay == [v \in {"K", "P"} |-> Live!Pays(v, Live!Outcome(v).yes)]
           t == [row EXCEPT !.status = "settled", !.closed = day, !.pay = pay]
<1>3. CASE /\ held = "open" /\ \A v \in {"K", "P"} : Live!Known(v)
           /\ row' = t /\ realized' = realized + Live!Pnl(t) /\ Live!RecordPnl(Live!SettleCounts(t))
           /\ held' \in {"none", "unpaid"} /\ late' = (late \/ committed # payouts)
    <2>1. PICK y \in [{"K", "P"} -> 0..2] :
            /\ pay = [v \in {"K", "P"} |-> Live!Pays(v, y[v])]
            /\ \A v \in {"K", "P"} : committed[v] # 9 => y[v] = committed[v]
        <3> DEFINE y == [v \in {"K", "P"} |-> Live!Outcome(v).yes]
        <3>1. y \in [{"K", "P"} -> 0..2] /\ \A v \in {"K", "P"} : committed[v] # 9 => y[v] = committed[v]
            BY <1>3, OutcomeIs DEF SInv
        <3>2. pay = [v \in {"K", "P"} |-> Live!Pays(v, y[v])]
            OBVIOUS
        <3> HIDE DEF y, pay
        <3> QED
            BY <3>1, <3>2
    <2>2. /\ pay \in [{"K", "P"} -> 0..2]
          /\ \A v \in {"K", "P"} : pay[v] = Live!Pays(v, y[v])
        BY <2>1 DEF Live!Pays
    <2> HIDE DEF pay
    <2>3. /\ t \in RowType /\ t.status = "settled" /\ t.closed = day /\ t.pay = pay
          /\ t.opened = row.opened /\ t.out = row.out
        <3>1. day \in 0..MaxDay
            BY <1>0
        <3>2. t = SettledAt(row, day, pay)
            BY Zenon DEF SettledAt
        <3> HIDE DEF t
        <3> QED
            BY <1>0, <2>2, <3>1, <3>2, RowSettled
    <2>4. row' = t
        BY <1>3
    <2> HIDE DEF t
    <2>5. row.status = "open"
        BY <1>1, <1>3 DEF SInv, SettleHeld
    <2>6. /\ Live!Pnl(row) = 0 /\ Live!Pnl(t) \in Int /\ Live!EarlyLoss(t) \in Nat
          /\ Live!EarlyLoss(t) = Live!EarlyLoss(row)
        BY <1>0, <2>3, <2>5, RowIs DEF Live!Pnl, Live!EarlyLoss
    <2>7. Live!SettleCounts(t) = Live!Pnl(t) + Live!EarlyLoss(t) /\ Live!SettleCounts(t) \in Int
        BY <2>6 DEF Live!SettleCounts
    <2>8. Live!Tally(t, booked, day) = Live!Tally(row, booked, day) + Live!SettleCounts(t)
        <3>1. Live!Today(t, day) = Live!Today(row, day) + Live!SettleCounts(t)
            BY <2>3, <2>5, <2>6, <2>7 DEF Live!Today
        <3>2. Live!Today(t, day) \in Int /\ Live!Today(row, day) \in Int
            BY <1>0, <2>3, RowIs
        <3> QED
            BY <2>3, <2>6, <2>7, <3>1, <3>2 DEF Live!Tally
    <2>9. gday' = day /\ pnl' = Live!Tally(t, booked, day) /\ pnl' \in Int
        BY <1>a, <1>1, <1>3, <2>3, <2>7, <2>8, Counted
    <2>10. realized = 0 /\ realized' = Live!Pnl(t)
        BY <1>0, <1>1, <1>3, <2>6 DEF SInv, Live!PnlAgrees
    <2>11. Live!TypeOK'
        <3>1. up' \in BOOLEAN /\ late' \in BOOLEAN
            BY <1>1, <1>3, Zenon DEF SInv, Live!TypeOK
        <3>2. row' \in Live!Rows /\ disk' \in Live!Rows
            BY <1>1, <2>3, <2>4, RowsAre DEF SInv, Live!TypeOK
        <3>3. /\ day' \in 1..MaxDay /\ gday' \in 1..MaxDay /\ realized' \in Int /\ pnl' \in Int
              /\ made' \in 0..MaxDay /\ booked' \in 0..MaxDay
              /\ held' \in {"open", "unpaid", "none"}
                BY <1>0, <1>a, <1>1, <1>3, <2>6, <2>9, <2>10
        <3>4. /\ results' \in [Live!Venues -> [yes : Live!Yes \cup {Live!Unknown}, paid : BOOLEAN]]
              /\ entry' \in Live!PerVenue /\ payouts' \in Live!PerVenue /\ committed' \in Live!PerVenue
              /\ fresh' \subseteq Live!Venues /\ reader' \in {"idle", "K", "P", "done"}
            BY <1>1 DEF SInv, Live!TypeOK
        <3> QED
            BY <3>1, <3>2, <3>3, <3>4, Zenon DEF Live!TypeOK
    <2>12. SettleHeld'
        <3>1. made = 0
            BY <2>5 DEF SInv, SettleHeld
        <3>2. /\ gday <= day /\ booked <= gday /\ row.opened <= gday
              /\ disk.opened <= day /\ disk.closed <= day
            BY <1>1 DEF SInv, SettleHeld
        <3>3. gday \in Nat /\ row.opened \in Nat
            BY SettleTypes, RowIs DEF SInv
        <3>4. booked <= day /\ row.opened <= day
            BY <1>0, <1>a, <3>2, <3>3
        <3> QED
            BY <1>0, <1>1, <1>3, <2>3, <2>4, <2>9, <3>1, <3>2, <3>4 DEF SettleHeld
    <2>13. Live!PnlAgrees'
        BY <1>1, <2>4, <2>9, <2>10 DEF Live!PnlAgrees
    <2>14. Live!RecordedAsPaid'
        <3>1. ASSUME committed = payouts, NEW v \in {"K", "P"}, payouts[v] # 9
              PROVE  row'.pay[v] = Live!Pays(v, payouts[v])
            BY <2>1, <2>2, <2>3, <2>4, <3>1
        <3>2. row' \in RowType
            BY <2>3, <2>4
        <3> QED
            BY <1>1, <1>3, <3>1, <3>2, RecordedIs DEF Legs
    <2> QED
        BY <2>11, <2>12, <2>13, <2>14 DEF SInv
<1> QED
    BY <1>2, <1>3 DEF Live!Settle, Live!Venues

\* A settled row is put right to what the ledgers say of the legs in vs.
LEMMA TruesUp ==
    ASSUME SInv, up, NEW vs, Live!TrueUp(vs), UNCHANGED <<made, booked, day, disk, held, up>>
    PROVE  /\ row' \in RowType /\ realized' \in Int /\ pnl' \in Int /\ gday' \in 1..MaxDay
           /\ SettleHeld' /\ Live!PnlAgrees'
           /\ row'.status = row.status
           /\ Live!Found => \A v \in {"K", "P"} : row'.pay[v] =
                  IF v \in vs /\ payouts[v] # 9 THEN Live!Pays(v, payouts[v]) ELSE row.pay[v]
           /\ ~Live!Found => row' = row
<1> DEFINE t == Live!Right(row, payouts, vs)
<1>0. /\ day \in 1..MaxDay /\ day \in Nat /\ gday \in 1..MaxDay /\ row \in RowType
      /\ realized \in Int /\ pnl \in Int /\ booked \in Nat
    BY SettleTypes DEF SInv
<1>1. /\ t \in RowType
      /\ t.status = row.status /\ t.out = row.out /\ t.opened = row.opened /\ t.closed = row.closed
      /\ \A v \in {"K", "P"} : t.pay[v] =
             IF v \in vs /\ payouts[v] # 9 THEN Live!Pays(v, payouts[v]) ELSE row.pay[v]
    BY SettleTypes, RightIs DEF SInv
<1>2. CASE Live!Found /\ t # row
    <2>1. /\ row' = t /\ realized' = realized + (Live!Pnl(t) - Live!Pnl(row))
          /\ IF Live!CountsToday(row) THEN Live!RecordPnl(Live!Pnl(t) - Live!Pnl(row)) ELSE UNCHANGED <<pnl, gday>>
        BY <1>2 DEF Live!TrueUp
    <2> HIDE DEF t
    <2>2. row.status = "settled"
        BY <1>2 DEF Live!Found, SInv, SettleHeld
    <2>3. /\ Live!Pnl(t) \in Int /\ Live!Pnl(row) \in Int /\ Live!EarlyLoss(t) \in Nat
          /\ Live!EarlyLoss(t) = Live!EarlyLoss(row)
          /\ realized = Live!Pnl(row)
        BY <1>0, <1>1, <2>2, RowIs DEF Live!EarlyLoss, SInv, Live!PnlAgrees
    <2>4. realized' = Live!Pnl(t) /\ realized' \in Int
        BY <2>1, <2>3
    <2>5. CASE row.closed = day
        <3>1. Live!Tally(t, booked, day) = Live!Tally(row, booked, day) + (Live!Pnl(t) - Live!Pnl(row))
            <4>1. Live!Today(t, day) = Live!Today(row, day) + (Live!Pnl(t) - Live!Pnl(row))
                BY <1>1, <2>2, <2>3, <2>5 DEF Live!Today
            <4>2. Live!Today(t, day) \in Int /\ Live!Today(row, day) \in Int
                BY <1>0, <1>1, RowIs
            <4> QED
                BY <1>1, <2>3, <4>1, <4>2 DEF Live!Tally
        <3>2. gday' = day /\ pnl' = Live!Tally(t, booked, day) /\ pnl' \in Int
            BY <1>0, <1>1, <2>1, <2>3, <2>5, <3>1, Counted DEF Live!CountsToday
        <3>3. SettleHeld'
            BY <1>0, <1>1, <2>1, <3>2 DEF SInv, SettleHeld
        <3> QED
            BY <1>0, <1>1, <1>2, <2>1, <2>4, <3>2, <3>3 DEF Live!PnlAgrees
    <2>6. CASE row.closed # day
        <3>1. Live!Tally(t, booked, day) = Live!Tally(row, booked, day)
            BY <1>1, <2>2, <2>3, <2>6 DEF Live!Tally, Live!Today
        <3>2. UNCHANGED <<pnl, gday>>
            BY <2>1, <2>6 DEF Live!CountsToday
        <3>3. SettleHeld'
            BY <1>0, <1>1, <2>1, <3>2 DEF SInv, SettleHeld
        <3> QED
            BY <1>0, <1>1, <1>2, <2>1, <2>4, <3>1, <3>2, <3>3 DEF SInv, Live!PnlAgrees
    <2> QED
        BY <2>5, <2>6
<1>3. CASE ~(Live!Found /\ t # row)
    <2>1. UNCHANGED <<row, realized, pnl, gday>>
        BY <1>3 DEF Live!TrueUp
    <2>2. SettleHeld'
        BY <2>1 DEF SInv, SettleHeld
    <2>3. Live!PnlAgrees'
        BY <2>1 DEF SInv, Live!PnlAgrees, Live!Tally, Live!Today, Live!Pnl, Live!EarlyLoss
    <2> QED
        BY <1>0, <1>1, <1>3, <2>1, <2>2, <2>3
<1> QED
    BY <1>2, <1>3

\* A step that leaves what the account is made of.
LEMMA SettleSame ==
    ASSUME SInv, UNCHANGED <<made, booked, day, row, disk, held, realized, pnl, gday, payouts, committed, up>>,
           late' = late \/ late' = TRUE, fresh' = fresh \/ late' = TRUE
    PROVE  SettleHeld' /\ Live!PnlAgrees' /\ Live!RecordedAsPaid'
<1>1. row \in RowType
    BY SettleTypes DEF SInv
<1>2. SettleHeld'
    BY DEF SInv, SettleHeld
<1>3. Live!PnlAgrees'
    BY DEF SInv, Live!PnlAgrees
<1>4. Live!RecordedAsPaid'
    BY <1>1, RecordedIs DEF SInv, Legs
<1> QED
    BY <1>2, <1>3, <1>4

\* The flags' types, for the actions that set none of them.
LEMMA SettleFlags ==
    ASSUME SInv, up' = up, late' = late
    PROVE  up' \in BOOLEAN /\ late' \in BOOLEAN
BY Zenon DEF SInv, Live!TypeOK

LEMMA SettlePaid == ASSUME SInv, NEW v \in {"K", "P"}, Live!Paid(v) PROVE SInv'
<1>1. PICK yes \in Values : entry' = [entry EXCEPT ![v] = yes]
    BY DEF Live!Paid
<1>2. UNCHANGED <<made, booked, day, results, row, disk, held, realized, pnl, gday, payouts, committed, fresh, reader, up, late>>
    BY DEF Live!Paid
<1>3. entry' \in Live!PerVenue
    BY <1>1, SettleConstants DEF SInv, Live!TypeOK, Live!PerVenue, Live!Venues, Live!Yes
<1>4. Live!TypeOK'
    <2>1. up' \in BOOLEAN /\ late' \in BOOLEAN
        BY <1>2, SettleFlags
    <2> QED
        BY <1>2, <1>3, <2>1, Zenon DEF SInv, Live!TypeOK
<1> QED
    BY <1>2, <1>4, SettleSame DEF SInv

LEMMA SettleLooks == ASSUME SInv, NEW v \in {"K", "P"}, Live!Looks(v) PROVE SInv'
<1>1. PICK yes \in Values, paid \in BOOLEAN : results' = [results EXCEPT ![v] = [yes |-> yes, paid |-> paid]]
    <2>1. (v = "P" \/ entry[v] # Live!Unknown) \in BOOLEAN
        OBVIOUS
    <2> QED
        BY <2>1, Zenon DEF Live!Looks
<1>2. UNCHANGED <<made, booked, day, entry, row, disk, held, realized, pnl, gday, payouts, committed, fresh, reader, up, late>>
    BY DEF Live!Looks
<1>3. results' \in [Live!Venues -> [yes : Live!Yes \cup {Live!Unknown}, paid : BOOLEAN]]
    <2>1. [yes |-> yes, paid |-> paid] \in [yes : Live!Yes \cup {Live!Unknown}, paid : BOOLEAN]
        BY <1>1, SettleConstants, Zenon DEF Live!Yes
    <2> QED
        BY <1>1, <2>1, Zenon DEF SInv, Live!TypeOK
<1>4. Live!TypeOK'
    <2>1. up' \in BOOLEAN /\ late' \in BOOLEAN
        BY <1>2, SettleFlags
    <2> QED
        BY <1>2, <1>3, <2>1, Zenon DEF SInv, Live!TypeOK
<1> QED
    BY <1>2, <1>4, SettleSame DEF SInv

LEMMA SettleReadBegins == ASSUME SInv, Live!ReadBegins PROVE SInv'
<1>1. /\ UNCHANGED <<made, booked, day, entry, results, row, disk, held, realized, pnl, gday, payouts, committed, fresh, up, late>>
      /\ reader' = "K"
    BY DEF Live!ReadBegins
<1>2. Live!TypeOK'
    <2>1. up' \in BOOLEAN /\ late' \in BOOLEAN
        BY <1>1, SettleFlags
    <2> QED
        BY <1>1, <2>1, Zenon DEF SInv, Live!TypeOK
<1> QED
    BY <1>1, <1>2, SettleSame DEF SInv

LEMMA SettleReadVenue == ASSUME SInv, Live!ReadVenue PROVE SInv'
<1>1. /\ UNCHANGED <<made, booked, day, entry, results, row, disk, held, realized, pnl, gday, committed, up, late>>
      /\ reader \in {"K", "P"} /\ reader' \in {"P", "done"}
      /\ Live!Keeps(reader) \/ UNCHANGED <<payouts, fresh>>
    BY DEF Live!ReadVenue, Live!Venues
<1>2. \/ UNCHANGED <<payouts, fresh>>
      \/ (payouts' = [payouts EXCEPT ![reader] = entry[reader]] /\ fresh' = fresh \cup {reader})
    BY <1>1 DEF Live!Keeps, Live!PaidOut
<1>3. payouts' \in Live!PerVenue /\ fresh' \subseteq Live!Venues
    BY <1>1, <1>2 DEF SInv, Live!TypeOK, Live!PerVenue, Live!Venues
<1>4. Live!TypeOK'
    <2>1. up' \in BOOLEAN /\ late' \in BOOLEAN
        BY <1>1, SettleFlags
    <2>2. reader' \in {"idle", "K", "P", "done"}
        BY <1>1
    <2> QED
        BY <1>1, <1>3, <2>1, <2>2, Zenon DEF SInv, Live!TypeOK
<1>5. row \in RowType
    BY SettleTypes DEF SInv
<1>6. \A w \in {"K", "P"} : w \notin fresh' => w \notin fresh /\ payouts'[w] = payouts[w]
    BY <1>2 DEF SInv, Live!TypeOK, Live!PerVenue, Live!Venues
<1>7. Live!RecordedAsPaid'
    BY <1>1, <1>5, <1>6, RecordedIs DEF SInv, Legs
<1>8. SettleHeld' /\ Live!PnlAgrees'
    BY <1>1 DEF SInv, SettleHeld, Live!PnlAgrees
<1> QED
    BY <1>4, <1>7, <1>8 DEF SInv

LEMMA SettleReadEnds == ASSUME SInv, Live!ReadEnds PROVE SInv'
<1>1. /\ UNCHANGED <<made, booked, day, entry, results, disk, held, payouts, committed, up>>
      /\ up /\ reader' = "idle" /\ fresh' = {}
    BY DEF Live!ReadEnds
<1>2. row \in RowType
    BY SettleTypes DEF SInv
<1>3. CASE late' = TRUE /\ UNCHANGED <<row, realized, pnl, gday>>
    <2>1. Live!TypeOK'
        <3>1. up' \in BOOLEAN /\ late' \in BOOLEAN
            BY <1>1, <1>3, Zenon DEF SInv, Live!TypeOK
        <3>2. fresh' \subseteq Live!Venues /\ reader' \in {"idle", "K", "P", "done"}
            BY <1>1
        <3> QED
            BY <1>1, <1>3, <3>1, <3>2, Zenon DEF SInv, Live!TypeOK
    <2> QED
        BY <1>1, <1>3, <2>1, SettleSame DEF SInv
<1>4. CASE Live!TrueUp(fresh) /\ late' = (late \/ (fresh # {} /\ disk # row))
    <2>1. /\ row' \in RowType /\ realized' \in Int /\ pnl' \in Int /\ gday' \in 1..MaxDay
          /\ SettleHeld' /\ Live!PnlAgrees'
          /\ row'.status = row.status
          /\ Live!Found => \A v \in {"K", "P"} : row'.pay[v] =
                 IF v \in fresh /\ payouts[v] # 9 THEN Live!Pays(v, payouts[v]) ELSE row.pay[v]
          /\ ~Live!Found => row' = row
        BY <1>1, <1>4, TruesUp
    <2>2. Live!TypeOK'
        <3>1. up' \in BOOLEAN /\ late' \in BOOLEAN
            BY <1>1, <1>4, Zenon DEF SInv, Live!TypeOK
        <3>2. fresh' \subseteq Live!Venues /\ reader' \in {"idle", "K", "P", "done"}
            BY <1>1
        <3>3. row' \in Live!Rows
            BY <2>1, RowsAre
        <3> QED
            BY <1>1, <2>1, <3>1, <3>2, <3>3, Zenon DEF SInv, Live!TypeOK
    <2>3. ASSUME ~late', NEW v \in {"K", "P"}, row'.status = "settled", payouts[v] # 9
          PROVE  row'.pay[v] = Live!Pays(v, payouts[v])
        <3>1. Legs(row, payouts, fresh)
            BY <1>1, <1>2, <1>4, <2>3, RecordedIs DEF SInv
        <3>2. v \notin fresh => row.pay[v] = Live!Pays(v, payouts[v])
            BY <2>1, <2>3, <3>1 DEF Legs
        <3>3. Live!Found \/ fresh = {}
            BY <1>4, <2>1, <2>3 DEF Live!Found
        <3> QED
            BY <2>1, <2>3, <3>2, <3>3
    <2>4. Live!RecordedAsPaid'
        BY <1>1, <2>1, <2>3, RecordedIs DEF Legs
    <2> QED
        BY <2>1, <2>2, <2>4 DEF SInv
<1> QED
    BY <1>3, <1>4 DEF Live!ReadEnds

LEMMA SettleCommits == ASSUME SInv, Live!Commits PROVE SInv'
<1>1. /\ disk' = row /\ committed' = payouts
      /\ UNCHANGED <<made, booked, day, entry, results, row, held, realized, pnl, gday, payouts, fresh, reader, up, late>>
    BY DEF Live!Commits
<1>2. Live!TypeOK'
    <2>1. up' \in BOOLEAN /\ late' \in BOOLEAN
        BY <1>1, SettleFlags
    <2> QED
        BY <1>1, <2>1, Zenon DEF SInv, Live!TypeOK
<1>3. row \in RowType
    BY SettleTypes DEF SInv
<1>4. SettleHeld' /\ Live!PnlAgrees'
    BY <1>1 DEF SInv, SettleHeld, Live!PnlAgrees
<1>5. Live!RecordedAsPaid'
    BY <1>1, <1>3, RecordedIs DEF SInv
<1> QED
    BY <1>2, <1>4, <1>5 DEF SInv

LEMMA SettleNextDay == ASSUME SInv, Live!NextDay PROVE SInv'
<1>1. /\ day < MaxDay /\ day' = day + 1
      /\ UNCHANGED <<made, booked, entry, results, row, disk, held, realized, pnl, gday, payouts, committed, fresh,
                     reader, up, late>>
    BY DEF Live!NextDay
<1>2. day \in 1..MaxDay /\ gday \in 1..MaxDay /\ row \in RowType /\ disk \in RowType
    BY SettleTypes DEF SInv
<1>3. day' \in 1..MaxDay
    BY <1>1, <1>2, SettleConstants
<1>4. Live!TypeOK'
    <2>1. up' \in BOOLEAN /\ late' \in BOOLEAN
        BY <1>1, SettleFlags
    <2> QED
        BY <1>1, <1>3, <2>1, Zenon DEF SInv, Live!TypeOK
<1>5. /\ row.opened \in Nat /\ row.closed \in Nat /\ disk.opened \in Nat /\ disk.closed \in Nat
    BY <1>2 DEF RowType
<1>6. SettleHeld'
    <2>1. made \in Nat /\ made <= day
        BY SettleTypes DEF SInv, SettleHeld
    <2> QED
        BY <1>1, <1>2, <1>5, <2>1 DEF SInv, SettleHeld
<1>7. Live!PnlAgrees'
    BY <1>1, <1>2 DEF SInv, SettleHeld, Live!PnlAgrees
<1>8. Live!RecordedAsPaid'
    BY <1>1, <1>2, RecordedIs DEF SInv
<1> QED
    BY <1>4, <1>6, <1>7, <1>8 DEF SInv

LEMMA SettleEnds == ASSUME SInv, Live!Ends PROVE SInv'
<1>1. /\ up' = FALSE /\ held' = "none" /\ fresh' = {} /\ reader' = "idle" /\ made' = 0
      /\ UNCHANGED <<booked, day, entry, results, row, realized, pnl, gday, payouts, late>>
      /\ (disk' = row /\ committed' = payouts) \/ UNCHANGED <<disk, committed>>
    BY DEF Live!Ends
<1>2. row \in RowType /\ disk \in RowType
    BY SettleTypes DEF SInv
<1>3. Live!TypeOK'
    <2>1. up' \in BOOLEAN /\ late' \in BOOLEAN
        BY <1>1, Zenon DEF SInv, Live!TypeOK
    <2>2. disk' \in Live!Rows /\ committed' \in Live!PerVenue
        BY <1>1, Zenon DEF SInv, Live!TypeOK
    <2>3. fresh' \subseteq Live!Venues /\ reader' \in {"idle", "K", "P", "done"}
          /\ held' \in {"open", "unpaid", "none"} /\ made' \in 0..MaxDay
        BY <1>1, SettleConstants
    <2> QED
        BY <1>1, <2>1, <2>2, <2>3, Zenon DEF SInv, Live!TypeOK
<1>4. SettleHeld'
    <2>1. 0 <= day
        BY SettleTypes DEF SInv
    <2> QED
        BY <1>1, <2>1 DEF SInv, SettleHeld
<1> QED
    BY <1>1, <1>2, <1>3, <1>4, RecordedIs DEF SInv, Live!PnlAgrees

LEMMA SettleStarts == ASSUME SInv, Live!Starts PROVE SInv'
<1> DEFINE t == IF disk.status = "settled" THEN Live!Right(disk, committed, {"K", "P"}) ELSE disk
<1>1. /\ ~up /\ up' = TRUE /\ late' = FALSE /\ payouts' = committed
      /\ row' = t /\ realized' = Live!Pnl(t) /\ pnl' = Live!Today(t, day) /\ gday' = day /\ booked' = 0
      /\ UNCHANGED <<made, day, entry, results, disk, committed, fresh, reader>>
    BY DEF Live!Starts, Live!AtStart, Live!Venues
<1>2. /\ held' \in {"open", "unpaid", "none"}
      /\ held' = "open" => disk.status = "open"
      /\ held' = "unpaid" => disk.status = "settled"
    BY DEF Live!Starts
<1>3. day \in 1..MaxDay /\ day \in Nat /\ disk \in RowType /\ committed \in Live!PerVenue
    BY SettleTypes DEF SInv
<1>4. /\ t \in RowType /\ t.status = disk.status /\ t.opened = disk.opened /\ t.closed = disk.closed
      /\ disk.status = "settled" => \A v \in {"K", "P"} : committed[v] # 9 => t.pay[v] = Live!Pays(v, committed[v])
    BY <1>3, RightIs
<1>5. Live!Pnl(t) \in Int /\ Live!Today(t, day) \in Int
    BY <1>3, <1>4, RowIs
<1> HIDE DEF t
<1>6. Live!TypeOK'
    <2>1. up' \in BOOLEAN /\ late' \in BOOLEAN
        BY <1>1, Zenon
    <2>2. /\ row' \in Live!Rows /\ realized' \in Int /\ pnl' \in Int /\ gday' \in 1..MaxDay
          /\ booked' \in 0..MaxDay
        BY <1>1, <1>3, <1>4, <1>5, RowsAre, SettleConstants
    <2> QED
        BY <1>1, <1>2, <2>1, <2>2, Zenon DEF SInv, Live!TypeOK
<1>7. SettleHeld'
    BY <1>1, <1>2, <1>3, <1>4 DEF SInv, SettleHeld
<1>8. Live!PnlAgrees'
    <2>1. day # 0
        BY <1>3
    <2>2. pnl' = Live!Tally(t, 0, day)
        BY <1>1, <1>5, <2>1 DEF Live!Tally
    <2> QED
        BY <1>1, <2>2 DEF Live!PnlAgrees
<1>9. Live!RecordedAsPaid'
    BY <1>1, <1>4, RecordedIs DEF Legs
<1> QED
    BY <1>6, <1>7, <1>8, <1>9 DEF SInv

LEMMA SettleNext ==
    ASSUME SInv, Live!Next
    PROVE  SInv'
<1>1. CASE \E v \in {"K", "P"} : Live!Paid(v) \/ Live!Looks(v)
    BY <1>1, SettlePaid, SettleLooks
<1>2. CASE Live!Decides \/ Live!Opens \/ Live!Settle
    BY <1>2, SettleDecides, SettleOpens, SettleSettles
<1>3. CASE Live!ReadBegins \/ Live!ReadVenue \/ Live!ReadEnds
    BY <1>3, SettleReadBegins, SettleReadVenue, SettleReadEnds
<1>4. CASE Live!Commits \/ Live!NextDay \/ Live!Ends \/ Live!Starts
    BY <1>4, SettleCommits, SettleNextDay, SettleEnds, SettleStarts
<1> QED
    BY <1>1, <1>2, <1>3, <1>4 DEF Live!Next, Live!Venues

LEMMA SettleSpec == MCSpec => [](part = "live" => SInv)
<1>1. MCInit => (part = "live" => SInv)
    BY SettleInit, Zenon DEF MCInit
<1>2. (part = "live" => SInv) /\ [MCNext]_all => (part = "live" => SInv)'
    <2> SUFFICES ASSUME part = "live" => SInv, [MCNext]_all, part' = "live"
                 PROVE  SInv'
        OBVIOUS
    <2>1. CASE MCNext
        <3>1. part = "live" /\ Live!Next
            BY <2>1, Zenon DEF MCNext
        <3> QED
            BY <3>1, SettleNext
    <2>2. CASE UNCHANGED all
        <3>1. part = "live" /\ UNCHANGED live /\ realized' = realized
            BY <2>2, Zenon DEF all
        <3>2. UNCHANGED <<made, booked, day, entry, results, row, disk, held, realized, pnl, gday, payouts, committed,
                          fresh, reader, up, late>>
            BY <3>1 DEF live
        <3>3. Live!TypeOK'
            BY <3>1, <3>2, Zenon DEF SInv, Live!TypeOK
        <3> QED
            BY <3>1, <3>2, <3>3, SettleSame DEF SInv
    <2> QED
        BY <2>1, <2>2
<1> QED
    BY <1>1, <1>2, PTL DEF MCSpec

\* What the live trader says it made, and made today, is what its trades say, whatever
\* openings, settlements, corrections, new days and restarts come before; but for the early
\* loss of a trade that was decided before midnight and finished after it, which counts on that
\* day until a restart leaves it out (PnlAgrees).
THEOREM LivePnlAgrees == MCSpec => []PnlAgrees
<1>1. (part = "live" => SInv) => PnlAgrees
    BY DEF SInv, PnlAgrees
<1> QED
    BY <1>1, SettleSpec, PTL

\* A settled trade is at what the venues' ledgers say they paid, once that has been seen.
THEOREM LiveRecordedAsPaid == MCSpec => []RecordedAsPaid
<1>1. (part = "live" => SInv) => RecordedAsPaid
    BY DEF SInv, RecordedAsPaid
<1> QED
    BY <1>1, SettleSpec, PTL

-----------------------------------------------------------------------------
(***************************************************************************)
(* Ledgers: what the owner's own trades moved                              *)
(***************************************************************************)

Places == 1..(MaxFills + 1)
EntryType == [kind : {"none", "fill", "paid"}, at : 0..MaxNow, n : -MaxFills..MaxFills,
              price : Prices \cup {0, 10}]
ReadType == [stage : {"idle", "look", "paid?", "before", "fills", "paid", "after"}, began : 0..MaxNow,
             from : Nat, fills : SUBSET Places, paid : SUBSET Places, before : Int]

\* What moves has of an entry that nothing was kept of.
Off == MaxFills * 10 + 1

LTypes == /\ now \in 0..MaxNow /\ pos \in -MaxFills..MaxFills /\ readTo \in 0..MaxNow
          /\ entries \in [Places -> EntryType]
          /\ moves \in [Places -> {Off} \cup -(MaxFills * 10)..(MaxFills * 10)]
          /\ reading \in ReadType /\ crossed \in BOOLEAN

\* Entries es come one after the other, k of them, and a settlement is the last.
Order(es, k) ==
    /\ \A i \in Places : es[i].kind # "none" <=> i <= k
    /\ \A i, j \in 1..k : i <= j => es[i].at <= es[j].at
    /\ \A i \in 1..k : es[i].kind = "fill" => es[i].n \in {-1, 1} /\ i <= MaxFills
    /\ \A i \in 1..k : es[i].kind = "paid" => i = k /\ es[i].price \in {0, 10}

\* The position before entry i, and what the entry moved.
Ns(es) == [j \in Places |-> es[j].n]
SumTo(es, i) == SumFunctionOnSet(Ns(es), 1..(i - 1))
WorthOf(e, h) == IF e.kind = "paid" THEN (IF e.n > 0 THEN e.price ELSE 10 - e.price) * Ledger!Size(e.n)
                 ELSE (IF e.n > 0 THEN -e.price ELSE e.price - 10) + (IF h * e.n < 0 THEN 10 ELSE 0)

\* The position is what the entries make it.
Stands(k) ==
    /\ \A i \in 1..k : entries[i].at <= now
    /\ \A i \in 1..k : entries[i].kind = "paid" => entries[i].n = SumTo(entries, i) /\ pos = 0
    /\ (\A i \in 1..k : entries[i].kind = "fill") => pos = SumTo(entries, k + 1)

\* A read has been told of entries there are, from where it began.
Told(r, k) ==
    /\ \A i \in r.fills : i \in 1..k /\ entries[i].kind = "fill" /\ entries[i].at >= r.from
    /\ \A i \in r.paid : i \in 1..k /\ entries[i].kind = "paid" /\ entries[i].at >= r.from
Seen(k) == shown \in 0..k /\ Told(reading, k)

\* What is kept is of entries there are, and right unless the read was crossed.
Kept(k) == \A i \in Places : moves[i] # Off =>
    i <= k /\ (crossed = FALSE => moves[i] = WorthOf(entries[i], SumTo(entries, i)))

LStateOf(k) == Order(entries, k) /\ Stands(k) /\ Seen(k) /\ Kept(k)
LInv == LTypes /\ \E k \in 0..(MaxFills + 1) : LStateOf(k)

LEMMA LedgerConstants ==
    /\ Prices \subseteq 0..10 /\ \A x \in Prices \cup {0, 10} : x \in 0..10
    /\ Overlap \in Nat /\ Late \in Nat /\ MaxFills \in Nat /\ MaxNow \in Nat
    /\ IsFiniteSet(Places) /\ \A i \in Int : 1..i \subseteq Nat /\ IsFiniteSet(1..i)
<1>1. /\ Prices \subseteq 0..10 /\ Overlap \in Nat /\ Late \in Nat /\ MaxFills \in Nat /\ MaxNow \in Nat
    BY LedgerAssumption DEF Ledger!LedgerFits, Ledger!Dollar
<1>2. \A i \in Int : 1..i \subseteq Nat /\ IsFiniteSet(1..i)
    BY FS_Interval
<1> QED
    BY <1>1, <1>2 DEF Places

LEMMA SameHeld ==
    /\ \A f, S : Ledger!SumFunctionOnSet(f, S) = SumFunctionOnSet(f, S)
    /\ \A S : Ledger!Cardinality(S) = Cardinality(S)
<1>1. ASSUME NEW f, NEW S PROVE Ledger!SumFunctionOnSet(f, S) = SumFunctionOnSet(f, S)
    BY DEF Ledger!SumFunctionOnSet, SumFunctionOnSet, Ledger!FoldFunctionOnSet, FoldFunctionOnSet,
           Ledger!MapThenFoldSet, MapThenFoldSet
<1>2. ASSUME NEW S PROVE Ledger!Cardinality(S) = Cardinality(S)
    BY DEF Ledger!Cardinality, Cardinality
<1> QED
    BY <1>1, <1>2

LEMMA MadeIs ==
    ASSUME LTypes, NEW k \in 0..(MaxFills + 1), Order(entries, k)
    PROVE  /\ Ledger!Made = 1..k /\ Ledger!Next1 = k + 1 /\ Ledger!Cardinality(Ledger!Made) = k
           /\ Ledger!Ids = Places
           /\ \A i \in 1..(k + 1) : Ledger!Held(i) = SumTo(entries, i)
           /\ \A i \in 1..k : Ledger!Worth(i) = WorthOf(entries[i], SumTo(entries, i))
<1>1. Ledger!Ids = Places
    BY DEF Ledger!Ids, Places
<1>2. Ledger!Made = 1..k
    BY <1>1, LedgerConstants DEF Order, Ledger!Made, Places
<1>3. Ledger!Cardinality(Ledger!Made) = k /\ Ledger!Next1 = k + 1
    <2>1. Cardinality(1..k) = k
        BY FS_Interval, LedgerConstants
    <2> QED
        BY <1>2, <2>1, SameHeld DEF Ledger!Next1
<1>4. ASSUME NEW i \in 1..(k + 1) PROVE Ledger!Held(i) = SumTo(entries, i)
    <2>1. {j \in Ledger!Made : j < i} = 1..(i - 1)
        BY <1>2, LedgerConstants
    <2>2. Ledger!Sizes = Ns(entries)
        BY <1>1 DEF Ledger!Sizes, Ns
    <2> QED
        BY <2>1, <2>2, SameHeld, Zenon DEF Ledger!Held, SumTo
<1>5. ASSUME NEW i \in 1..k PROVE Ledger!Worth(i) = WorthOf(entries[i], SumTo(entries, i))
    <2>1. Ledger!Held(i) = SumTo(entries, i)
        BY <1>4, LedgerConstants
    <2> QED
        BY <2>1, Zenon DEF Ledger!Worth, WorthOf, Ledger!Dollar
<1> QED
    BY <1>1, <1>2, <1>3, <1>4, <1>5

LEMMA Position ==
    ASSUME NEW es \in [Places -> EntryType], NEW k \in 0..(MaxFills + 1)
    PROVE  /\ \A i \in 1..(k + 1) : SumTo(es, i) \in Int
           /\ \A i \in 1..k : SumTo(es, i + 1) = SumTo(es, i) + es[i].n
<1>0. \A j \in Places : Ns(es)[j] = es[j].n /\ es[j].n \in Int
    BY LedgerConstants DEF Ns, EntryType
<1>1. ASSUME NEW i \in 1..(k + 1) PROVE IsFiniteSet(1..(i - 1)) /\ \A j \in 1..(i - 1) : j \in Places
    <2>1. 1..(i - 1) \subseteq Places
        BY LedgerConstants DEF Places
    <2>2. i - 1 \in Int
        BY LedgerConstants
    <2> QED
        BY <2>1, <2>2, LedgerConstants
<1>2. ASSUME NEW i \in 1..(k + 1) PROVE SumTo(es, i) \in Int
    <2>1. \A j \in 1..(i - 1) : Ns(es)[j] \in Int
        BY <1>0, <1>1
    <2> QED
        BY <1>1, <2>1, SumInt DEF SumTo
<1>3. ASSUME NEW i \in 1..k PROVE SumTo(es, i + 1) = SumTo(es, i) + es[i].n
    <2>1. i \in 1..(k + 1) /\ i + 1 \in 1..(k + 1) /\ (i + 1) - 1 = i /\ i \in 1..i /\ (1..i) \ {i} = 1..(i - 1) /\ i \in Places
        BY LedgerConstants DEF Places
    <2>2. IsFiniteSet(1..i) /\ \A j \in 1..i : Ns(es)[j] \in Int
        BY <1>0, <1>1, <2>1
    <2>3. SumFunctionOnSet(Ns(es), 1..i) = Ns(es)[i] + SumFunctionOnSet(Ns(es), (1..i) \ {i})
        BY <2>1, <2>2, SumTakes
    <2>4. SumTo(es, i + 1) = es[i].n + SumTo(es, i)
        BY <2>1, <2>3, <1>0 DEF SumTo
    <2>5. SumTo(es, i) \in Int /\ es[i].n \in Int
        BY <1>0, <1>2, <2>1
    <2> QED
        BY <2>4, <2>5
<1> QED
    BY <1>2, <1>3

\* One more entry: those before it are what they were.
And(es, k, e) == [es EXCEPT ![k + 1] = e]
CanFollow(es, k, e) ==
    /\ e.kind \in {"fill", "paid"}
    /\ e.kind = "fill" => e.n \in {-1, 1} /\ k + 1 <= MaxFills
    /\ e.kind = "paid" => e.price \in {0, 10}
    /\ \A i \in 1..k : es[i].kind = "fill" /\ es[i].at <= e.at

LEMMA Grows ==
    ASSUME NEW es \in [Places -> EntryType], NEW k \in 0..MaxFills, Order(es, k),
           NEW e \in EntryType, CanFollow(es, k, e), NEW fs, fs = And(es, k, e)
    PROVE  /\ fs \in [Places -> EntryType] /\ Order(fs, k + 1)
           /\ fs[k + 1] = e /\ \A i \in 1..k : fs[i] = es[i]
           /\ \A i \in 1..(k + 1) : SumTo(fs, i) = SumTo(es, i)
           /\ SumTo(fs, k + 2) = SumTo(es, k + 1) + e.n
<1>0. /\ k + 1 \in Places /\ k + 1 \in 0..(MaxFills + 1) /\ k \in 0..(MaxFills + 1) /\ 1..k \subseteq Places
      /\ \A i \in Places : i <= k + 1 <=> i <= k \/ i = k + 1
      /\ \A i \in 1..(k + 1) : i \in Places /\ (i \in 1..k \/ i = k + 1)
      /\ \A i \in Places : i <= k => i \in 1..k /\ i # k + 1
      /\ k + 1 \notin 1..k /\ k + 1 \in 1..(k + 1)
    BY LedgerConstants DEF Places
<1>1. fs \in [Places -> EntryType]
    BY <1>0 DEF And
<1>2. fs[k + 1] = e /\ \A i \in Places : i # k + 1 => fs[i] = es[i]
    BY <1>0 DEF And
<1>3. \A i \in 1..k : fs[i] = es[i]
    BY <1>0, <1>2
<1>4. Order(fs, k + 1)
    <2>1. ASSUME NEW i \in Places PROVE fs[i].kind # "none" <=> i <= k + 1
        BY <1>0, <1>2 DEF Order, CanFollow
    <2>2. ASSUME NEW i \in 1..(k + 1), NEW j \in 1..(k + 1), i <= j PROVE fs[i].at <= fs[j].at
        <3>1. e.at \in Int
            BY LedgerConstants DEF EntryType
        <3>2. CASE j = k + 1
            BY <1>0, <1>2, <1>3, <3>1, <3>2 DEF CanFollow
        <3>3. CASE j \in 1..k
            <4>1. i \in 1..k
                BY <2>2, <3>3
            <4> QED
                BY <1>3, <2>2, <3>3, <4>1 DEF Order
        <3> QED
            BY <1>0, <3>2, <3>3
    <2>3. ASSUME NEW i \in 1..(k + 1), fs[i].kind = "fill" PROVE fs[i].n \in {-1, 1} /\ i <= MaxFills
        BY <1>0, <1>2, <1>3, <2>3 DEF Order, CanFollow
    <2>4. ASSUME NEW i \in 1..(k + 1), fs[i].kind = "paid" PROVE i = k + 1 /\ fs[i].price \in {0, 10}
        BY <1>0, <1>2, <1>3, <2>4 DEF CanFollow
    <2> QED
        BY <2>1, <2>2, <2>3, <2>4 DEF Order
<1>5. ASSUME NEW i \in 1..(k + 1) PROVE SumTo(fs, i) = SumTo(es, i)
    <2>1. IsFiniteSet(1..(i - 1)) /\ 1..(i - 1) \subseteq 1..k
        BY LedgerConstants
    <2>2. \A j \in 1..(i - 1) : Ns(fs)[j] = Ns(es)[j]
        BY <1>0, <1>3, <2>1 DEF Ns
    <2>3. SumFunctionOnSet(Ns(fs), 1..(i - 1)) = SumFunctionOnSet(Ns(es), 1..(i - 1))
        <3> DEFINE S == 1..(i - 1)
                   f == Ns(fs)
                   h == Ns(es)
        <3>1. IsFiniteSet(S) /\ \A j \in S : f[j] = h[j]
            BY <2>1, <2>2
        <3> HIDE DEF S, f, h
        <3>2. SumFunctionOnSet(f, S) = SumFunctionOnSet(h, S)
            BY <3>1, SumSame
        <3> QED
            BY <3>2 DEF S, f, h
    <2> QED
        BY <2>3, Zenon DEF SumTo
<1>6. SumTo(fs, k + 2) = SumTo(es, k + 1) + e.n
    <2>1. SumTo(fs, (k + 1) + 1) = SumTo(fs, k + 1) + fs[k + 1].n
        <3>1. \A i \in 1..(k + 1) : SumTo(fs, i + 1) = SumTo(fs, i) + fs[i].n
            BY <1>0, <1>1, Position
        <3> QED
            BY <1>0, <3>1
    <2>2. SumTo(fs, k + 1) = SumTo(es, k + 1)
        BY <1>0, <1>5
    <2>3. (k + 1) + 1 = k + 2
        OBVIOUS
    <2> QED
        BY <1>2, <2>1, <2>2, <2>3
<1> QED
    BY <1>1, <1>2, <1>3, <1>4, <1>5, <1>6

LEMMA LedgerStarts ==
    ASSUME Ledger!Init
    PROVE  LInv
<1>1. /\ now = 0 /\ pos = 0 /\ entries = [i \in Places |-> Ledger!Nothing] /\ shown = 0
      /\ moves = [i \in Places |-> Off] /\ readTo = 0 /\ reading = Ledger!NoRead /\ crossed = FALSE
    BY Zenon DEF Ledger!Init, Ledger!Ids, Off, Ledger!Dollar, Ledger!Unkept, Places
<1>2. Ledger!Nothing \in EntryType /\ Ledger!NoRead \in ReadType
    BY LedgerConstants DEF Ledger!Nothing, Ledger!NoRead, EntryType, ReadType
<1>3. LTypes
    <2>1. crossed \in BOOLEAN
        BY <1>1, Zenon
    <2>2. 0 \in 0..MaxNow /\ 0 \in -MaxFills..MaxFills
        BY LedgerConstants
    <2>3. entries \in [Places -> EntryType] /\ moves \in [Places -> {Off} \cup -(MaxFills * 10)..(MaxFills * 10)]
        BY <1>1, <1>2
    <2> QED
        BY <1>1, <1>2, <2>1, <2>2, <2>3, Zenon DEF LTypes
<1>4. Order(entries, 0)
    BY <1>1, LedgerConstants DEF Order, Ledger!Nothing, Places
<1>5. Stands(0)
    <2>1. 1..((0 + 1) - 1) = {}
        OBVIOUS
    <2>2. SumTo(entries, 0 + 1) = 0
        BY <2>1, SumNothing DEF SumTo
    <2> QED
        BY <1>1, <2>2 DEF Stands
<1>6. Seen(0)
    BY <1>1 DEF Seen, Told, Ledger!NoRead
<1>7. Kept(0)
    BY <1>1 DEF Kept
<1>8. 0 \in 0..(MaxFills + 1)
    BY LedgerConstants
<1> QED
    BY <1>3, <1>4, <1>5, <1>6, <1>7, <1>8 DEF LInv, LStateOf

\* A trade or the settlement.
LEMMA LedgerAdds ==
    ASSUME LTypes, NEW k \in 0..MaxFills, LStateOf(k), NEW e \in EntryType,
           entries' = [entries EXCEPT ![k + 1] = e],
           e.kind \in {"fill", "paid"}, e.kind = "fill" => e.n \in {-1, 1} /\ k + 1 <= MaxFills,
           e.kind = "paid" => e.price \in {0, 10}, e.at = now,
           \A i \in 1..k : entries[i].kind = "fill",
           pos' \in -MaxFills..MaxFills, e.kind = "fill" => pos' = pos + e.n,
           e.kind = "paid" => pos' = 0 /\ e.n = pos,
           shown' \in {k + 1, shown}, UNCHANGED <<now, moves, readTo, reading, crossed>>
    PROVE  LInv'
<1>0. /\ now' = now /\ moves' = moves /\ readTo' = readTo /\ reading' = reading /\ crossed' = crossed
      /\ k + 1 \in 0..(MaxFills + 1) /\ k + 1 \in 1..(k + 1) /\ (k + 1) + 1 = k + 2
      /\ \A i \in 1..k : i \in 1..(k + 1) /\ i # k + 1
      /\ \A i \in 1..(k + 1) : i \in 1..k \/ i = k + 1
    BY LedgerConstants
<1>1. /\ entries' \in [Places -> EntryType] /\ Order(entries', k + 1)
      /\ entries'[k + 1] = e /\ \A i \in 1..k : entries'[i] = entries[i]
      /\ \A i \in 1..(k + 1) : SumTo(entries', i) = SumTo(entries, i)
      /\ SumTo(entries', k + 2) = SumTo(entries, k + 1) + e.n
    <2>1. entries \in [Places -> EntryType] /\ Order(entries, k) /\ \A i \in 1..k : entries[i].at <= e.at
        BY DEF LTypes, LStateOf, Stands
    <2>2. entries' = And(entries, k, e)
        BY Zenon DEF And
    <2>3. CanFollow(entries, k, e)
        BY <2>1 DEF CanFollow
    <2> DEFINE fs == And(entries, k, e)
    <2> HIDE DEF fs
    <2>4. fs = And(entries, k, e)
        BY Zenon DEF fs
    <2>5. /\ fs \in [Places -> EntryType] /\ Order(fs, k + 1)
          /\ fs[k + 1] = e /\ \A i \in 1..k : fs[i] = entries[i]
          /\ \A i \in 1..(k + 1) : SumTo(fs, i) = SumTo(entries, i)
          /\ SumTo(fs, k + 2) = SumTo(entries, k + 1) + e.n
        BY <2>1, <2>3, <2>4, Grows
    <2> QED
        BY <2>2, <2>4, <2>5, Zenon
<1>2. LTypes'
    <2>1. crossed' \in BOOLEAN
        BY <1>0, Zenon DEF LTypes
    <2>2. /\ now' \in 0..MaxNow /\ readTo' \in 0..MaxNow
          /\ moves' \in [Places -> {Off} \cup -(MaxFills * 10)..(MaxFills * 10)] /\ reading' \in ReadType
        BY <1>0, Zenon DEF LTypes
    <2> QED
        BY <1>1, <2>1, <2>2, Zenon DEF LTypes
<1>3. Stands(k + 1)'
    <2>1. ASSUME NEW i \in 1..(k + 1) PROVE entries'[i].at <= now'
        <3>1. now <= now
            BY LedgerConstants DEF LTypes
        <3> QED
            BY <1>0, <1>1, <3>1 DEF LStateOf, Stands
    <2>2. ASSUME NEW i \in 1..(k + 1), entries'[i].kind = "paid" PROVE entries'[i].n = SumTo(entries', i) /\ pos' = 0
        <3>1. i = k + 1
            BY <1>0, <1>1, <2>2
        <3>2. pos = SumTo(entries, k + 1)
            BY DEF LStateOf, Stands
        <3>3. e.kind = "paid" /\ entries'[i] = e /\ SumTo(entries', i) = SumTo(entries, k + 1)
            BY <1>0, <1>1, <2>2, <3>1
        <3> QED
            BY <3>2, <3>3
    <2>3. ASSUME \A i \in 1..(k + 1) : entries'[i].kind = "fill" PROVE pos' = SumTo(entries', (k + 1) + 1)
        <3>1. e.kind = "fill"
            BY <1>0, <1>1, <2>3
        <3>2. pos = SumTo(entries, k + 1)
            BY DEF LStateOf, Stands
        <3> QED
            BY <1>0, <1>1, <3>1, <3>2
    <2> QED
        BY <2>1, <2>2, <2>3 DEF Stands
<1>4. Seen(k + 1)'
    <2>1. shown' \in 0..(k + 1)
        BY LedgerConstants DEF LStateOf, Seen
    <2> QED
        BY <1>0, <1>1, <2>1 DEF LStateOf, Seen, Told
<1>5. Kept(k + 1)'
    <2>1. ASSUME NEW i \in Places, moves[i] # Off PROVE i \in 1..k /\ i <= k + 1 /\ i \in 1..(k + 1)
        BY <2>1, LedgerConstants DEF LStateOf, Kept, Places
    <2>2. ASSUME NEW i \in Places, moves'[i] # Off, crossed' = FALSE PROVE moves'[i] = WorthOf(entries'[i], SumTo(entries', i))
        <3>1. moves[i] = WorthOf(entries[i], SumTo(entries, i))
            <4>1. moves[i] # Off /\ crossed = FALSE
                BY <1>0, <2>2
            <4> QED
                BY <4>1 DEF LStateOf, Kept
        <3>2. entries'[i] = entries[i] /\ SumTo(entries', i) = SumTo(entries, i)
            <4>1. i \in 1..k /\ i \in 1..(k + 1)
                BY <1>0, <2>1, <2>2
            <4> QED
                BY <1>1, <4>1
        <3> QED
            BY <1>0, <3>1, <3>2
    <2>3. \A i \in Places : moves'[i] # Off => i <= k + 1
        BY <1>0, <2>1, Zenon
    <2> QED
        BY <2>2, <2>3, Zenon DEF Kept
<1> QED
    BY <1>0, <1>1, <1>2, <1>3, <1>4, <1>5 DEF LInv, LStateOf

\* No settlement: only fills, and room for one more entry.
LEMMA OnlyFills ==
    ASSUME LTypes, NEW k \in 0..(MaxFills + 1), LStateOf(k), ~Ledger!Settled
    PROVE  k \in 0..MaxFills /\ \A i \in 1..k : entries[i].kind = "fill"
<1>1. Ledger!Made = 1..k
    BY MadeIs DEF LStateOf
<1>2. ASSUME NEW i \in 1..k PROVE entries[i].kind = "fill" /\ i <= MaxFills
    <2>1. i \in Places /\ i <= k
        BY LedgerConstants DEF Places
    <2>2. entries[i].kind \in {"none", "fill", "paid"}
        BY <2>1 DEF LTypes, EntryType
    <2>3. entries[i].kind # "none" /\ entries[i].kind # "paid"
        BY <1>1, <2>1 DEF LStateOf, Order, Ledger!Settled
    <2> QED
        BY <2>2, <2>3 DEF LStateOf, Order
<1>3. k <= MaxFills
    BY <1>2, LedgerConstants
<1> QED
    BY <1>2, <1>3, LedgerConstants

LEMMA TradeKeeps ==
    ASSUME LInv, Ledger!Trade
    PROVE  LInv'
<1>1. PICK k \in 0..(MaxFills + 1) : LStateOf(k)
    BY DEF LInv
<1>2. PICK n \in {-1, 1}, y \in Prices :
           /\ ~Ledger!Settled /\ Ledger!Next1 <= MaxFills /\ pos + n \in -MaxFills..MaxFills
           /\ entries' = [entries EXCEPT ![Ledger!Next1] = [kind |-> "fill", at |-> now, n |-> n, price |-> y]]
           /\ pos' = pos + n /\ shown' = Ledger!AtOnce
           /\ UNCHANGED <<now, moves, readTo, reading, crossed>>
    BY DEF Ledger!Trade
<1> DEFINE e == [kind |-> "fill", at |-> now, n |-> n, price |-> y]
<1>3. LTypes /\ Ledger!Next1 = k + 1
    BY <1>1, MadeIs DEF LInv, LStateOf
<1>4. k \in 0..MaxFills /\ \A i \in 1..k : entries[i].kind = "fill"
    BY <1>1, <1>2, <1>3, OnlyFills
<1>5. k + 1 <= MaxFills
    BY <1>2, <1>3
<1>6. e \in EntryType
    <2>1. n \in -MaxFills..MaxFills
        BY <1>4, <1>5, LedgerConstants
    <2> QED
        BY <1>3, <2>1 DEF EntryType, LTypes
<1>7. shown' \in {k + 1, shown}
    BY <1>2, <1>3 DEF Ledger!AtOnce
<1>8. entries' = [entries EXCEPT ![k + 1] = e]
    BY <1>2, <1>3
<1>9. e.kind = "fill" /\ e.n = n /\ e.at = now
    OBVIOUS
<1> HIDE DEF e
<1>10. e.kind \in {"fill", "paid"} /\ e.kind # "paid" /\ e.n \in {-1, 1} /\ pos' = pos + e.n /\ pos' \in -MaxFills..MaxFills
    BY <1>2, <1>9
<1> QED
    BY <1>1, <1>2, <1>3, <1>4, <1>5, <1>6, <1>7, <1>8, <1>9, <1>10, LedgerAdds

LEMMA SettlesKeeps ==
    ASSUME LInv, Ledger!Settles
    PROVE  LInv'
<1>1. PICK k \in 0..(MaxFills + 1) : LStateOf(k)
    BY DEF LInv
<1>2. PICK y \in {0, 10} :
           /\ ~Ledger!Settled /\ pos # 0
           /\ entries' = [entries EXCEPT ![Ledger!Next1] = [kind |-> "paid", at |-> now, n |-> pos, price |-> y]]
           /\ pos' = 0 /\ shown' = Ledger!AtOnce
           /\ UNCHANGED <<now, moves, readTo, reading, crossed>>
    BY DEF Ledger!Settles, Ledger!Dollar
<1> DEFINE e == [kind |-> "paid", at |-> now, n |-> pos, price |-> y]
<1>3. LTypes /\ Ledger!Next1 = k + 1
    BY <1>1, MadeIs DEF LInv, LStateOf
<1>4. k \in 0..MaxFills /\ \A i \in 1..k : entries[i].kind = "fill"
    BY <1>1, <1>2, <1>3, OnlyFills
<1>6. e \in EntryType
    BY <1>3 DEF EntryType, LTypes
<1>7. shown' \in {k + 1, shown}
    BY <1>2, <1>3 DEF Ledger!AtOnce
<1>8. entries' = [entries EXCEPT ![k + 1] = e]
    BY <1>2, <1>3
<1>9. e.kind = "paid" /\ e.n = pos /\ e.at = now /\ e.price \in {0, 10}
    OBVIOUS
<1> HIDE DEF e
<1>10. e.kind \in {"fill", "paid"} /\ e.kind # "fill" /\ pos' = 0 /\ pos' \in -MaxFills..MaxFills
    BY <1>2, <1>9, LedgerConstants
<1> QED
    BY <1>1, <1>2, <1>3, <1>4, <1>6, <1>7, <1>8, <1>9, <1>10, LedgerAdds

\* Nothing is traded or kept: the ledger shows more, time passes or a read goes on.
LEMMA LedgerGoesOn ==
    ASSUME LTypes, NEW k \in 0..(MaxFills + 1), LStateOf(k), UNCHANGED <<pos, entries, moves, crossed>>,
           now' \in now..MaxNow, shown' \in 0..k, readTo' \in 0..MaxNow, reading' \in ReadType, Told(reading', k)
    PROVE  LInv'
<1>0. pos' = pos /\ entries' = entries /\ moves' = moves /\ crossed' = crossed
    BY Zenon
<1>1. LTypes'
    <2>1. crossed' \in BOOLEAN
        BY <1>0, Zenon DEF LTypes
    <2>2. now' \in 0..MaxNow
        BY LedgerConstants DEF LTypes
    <2>3. /\ pos' \in -MaxFills..MaxFills /\ entries' \in [Places -> EntryType]
          /\ moves' \in [Places -> {Off} \cup -(MaxFills * 10)..(MaxFills * 10)]
        BY <1>0, Zenon DEF LTypes
    <2> QED
        BY <2>1, <2>2, <2>3, Zenon DEF LTypes
<1>2. Order(entries, k)' /\ Kept(k)'
    BY <1>0 DEF LStateOf, Order, Kept
<1>3. Stands(k)'
    <2>1. ASSUME NEW i \in 1..k PROVE entries[i].at <= now'
        <3>1. i \in Places
            BY LedgerConstants DEF Places
        <3>2. entries[i].at \in Int
            BY <3>1, LedgerConstants DEF LTypes, EntryType
        <3> QED
            BY <3>2, LedgerConstants DEF LStateOf, Stands, LTypes
    <2> QED
        BY <1>0, <2>1 DEF LStateOf, Stands
<1>4. Seen(k)'
    <2>1. Told(reading, k)'
        BY <1>0 DEF Told
    <2> QED
        BY <2>1 DEF Seen
<1> QED
    BY <1>1, <1>2, <1>3, <1>4 DEF LInv, LStateOf

LEMMA LedgerStays ==
    ASSUME LTypes
    PROVE  now \in now..MaxNow /\ (now < MaxNow => now + 1 \in now..MaxNow)
    BY LedgerConstants DEF LTypes

LEMMA ShowsKeeps ==
    ASSUME LInv, Ledger!Shows
    PROVE  LInv'
<1>1. PICK k \in 0..(MaxFills + 1) : LStateOf(k)
    BY DEF LInv
<1>2. LTypes /\ Ledger!Cardinality(Ledger!Made) = k
    BY <1>1, MadeIs DEF LInv, LStateOf
<1>3. /\ shown < k /\ shown' = shown + 1 /\ UNCHANGED <<pos, entries, moves, crossed>>
      /\ now' = now /\ readTo' = readTo /\ reading' = reading
    BY <1>2 DEF Ledger!Shows
<1>4. shown' \in 0..k
    BY <1>1, <1>3, LedgerConstants DEF LStateOf, Seen
<1>5. now' \in now..MaxNow /\ readTo' \in 0..MaxNow /\ reading' \in ReadType /\ Told(reading', k)
    BY <1>1, <1>2, <1>3, LedgerStays DEF LTypes, LStateOf, Seen
<1> QED
    BY <1>1, <1>2, <1>3, <1>4, <1>5, LedgerGoesOn

LEMMA TickKeeps ==
    ASSUME LInv, Ledger!Tick
    PROVE  LInv'
<1>1. PICK k \in 0..(MaxFills + 1) : LStateOf(k)
    BY DEF LInv
<1>2. LTypes
    BY DEF LInv
<1>3. /\ now < MaxNow /\ now' = now + 1 /\ UNCHANGED <<pos, entries, moves, crossed>>
      /\ shown' = shown /\ readTo' = readTo /\ reading' = reading
    BY DEF Ledger!Tick
<1>5. now' \in now..MaxNow /\ readTo' \in 0..MaxNow /\ reading' \in ReadType /\ Told(reading', k) /\ shown' \in 0..k
    BY <1>1, <1>2, <1>3, LedgerStays DEF LTypes, LStateOf, Seen
<1> QED
    BY <1>1, <1>2, <1>3, <1>5, LedgerGoesOn

\* A step of a read.
LEMMA ReadGoesOn ==
    ASSUME LTypes, NEW k \in 0..(MaxFills + 1), LStateOf(k), UNCHANGED <<now, pos, entries, shown, moves, crossed>>,
           readTo' \in 0..MaxNow, reading' \in ReadType, Told(reading', k)
    PROVE  LInv'
<1>1. now' \in now..MaxNow /\ shown' \in 0..k /\ UNCHANGED <<pos, entries, moves, crossed>>
    BY LedgerStays DEF LStateOf, Seen
<1> QED
    BY <1>1, LedgerGoesOn

LEMMA BeginsKeeps ==
    ASSUME LInv, Ledger!Begins
    PROVE  LInv'
<1>1. PICK k \in 0..(MaxFills + 1) : LStateOf(k)
    BY DEF LInv
<1>2. LTypes
    BY DEF LInv
<1> DEFINE from == IF readTo > Overlap THEN readTo - Overlap ELSE 0
           q == [Ledger!NoRead EXCEPT !.began = now, !.from = from]
           r == [q EXCEPT !.stage = "look"]
<1>3. /\ reading' = r /\ UNCHANGED <<now, pos, entries, shown, moves, crossed>> /\ readTo' = readTo
    BY DEF Ledger!Begins, Ledger!At
<1>4. from \in Nat /\ now \in 0..MaxNow
    BY <1>2, LedgerConstants DEF LTypes
<1> HIDE DEF from
<1>5. r \in ReadType /\ r.fills = {} /\ r.paid = {}
    <2>1. Ledger!NoRead \in ReadType /\ Ledger!NoRead.fills = {} /\ Ledger!NoRead.paid = {}
        BY <1>2, LedgerConstants DEF Ledger!NoRead, ReadType
    <2>2. q \in ReadType /\ q.fills = {} /\ q.paid = {}
        BY <1>4, <2>1 DEF ReadType
    <2> HIDE DEF q
    <2> QED
        BY <2>2 DEF ReadType
<1> HIDE DEF r
<1>6. Told(r, k) /\ readTo \in 0..MaxNow
    BY <1>2, <1>5 DEF Told, LTypes
<1> QED
    BY <1>1, <1>2, <1>3, <1>5, <1>6, ReadGoesOn

\* What the ledger shows of a kind, from where the read began.
LEMMA WindowIs ==
    ASSUME LTypes, NEW k \in 0..(MaxFills + 1), LStateOf(k), NEW kind
    PROVE  /\ Ledger!Window(kind) \subseteq Places
           /\ \A i \in Ledger!Window(kind) : i \in 1..k /\ entries[i].kind = kind /\ entries[i].at >= reading.from
    BY LedgerConstants DEF Ledger!Window, Places, LStateOf, Seen

LEMMA FillsKeeps ==
    ASSUME LInv, Ledger!Fills
    PROVE  LInv'
<1>1. PICK k \in 0..(MaxFills + 1) : LStateOf(k)
    BY DEF LInv
<1>2. LTypes /\ reading \in ReadType /\ readTo \in 0..MaxNow
    BY DEF LInv, LTypes
<1> DEFINE w == Ledger!Window("fill")
           r == [[reading EXCEPT !.fills = w] EXCEPT !.stage = IF reading.stage = "look" THEN "paid?" ELSE "paid"]
<1>3. reading' = r /\ UNCHANGED <<now, pos, entries, shown, moves, crossed>> /\ readTo' = readTo
    BY DEF Ledger!Fills, Ledger!At
<1>4. w \subseteq Places /\ \A i \in w : i \in 1..k /\ entries[i].kind = "fill" /\ entries[i].at >= reading.from
    BY <1>1, <1>2, WindowIs
<1> HIDE DEF w
<1>5. r \in ReadType /\ r.fills = w /\ r.paid = reading.paid /\ r.from = reading.from
    BY <1>2, <1>4 DEF ReadType
<1> HIDE DEF r
<1>6. Told(r, k)
    BY <1>1, <1>4, <1>5 DEF Told, LStateOf, Seen
<1> QED
    BY <1>1, <1>2, <1>3, <1>5, <1>6, ReadGoesOn

LEMMA PaidKeeps ==
    ASSUME LInv, Ledger!Paid
    PROVE  LInv'
<1>1. PICK k \in 0..(MaxFills + 1) : LStateOf(k)
    BY DEF LInv
<1>2. LTypes /\ reading \in ReadType /\ readTo \in 0..MaxNow
    BY DEF LInv, LTypes
<1> DEFINE w == Ledger!Window("paid")
           q == [reading EXCEPT !.paid = w]
           r(stage) == [q EXCEPT !.stage = stage]
<1>3. UNCHANGED <<now, pos, entries, shown, moves, crossed>>
    BY DEF Ledger!Paid
<1>4. w \subseteq Places /\ \A i \in w : i \in 1..k /\ entries[i].kind = "paid" /\ entries[i].at >= reading.from
    BY <1>1, <1>2, WindowIs
<1>5. \/ \E stage \in {"after", "before"} : reading' = r(stage) /\ readTo' = readTo
      \/ reading' = Ledger!NoRead /\ readTo' = reading.began
    BY DEF Ledger!Paid, Ledger!At
<1> HIDE DEF w
<1>6. CASE \E stage \in {"after", "before"} : reading' = r(stage) /\ readTo' = readTo
    <2>1. PICK stage \in {"after", "before"} : reading' = r(stage) /\ readTo' = readTo
        BY <1>6
    <2>2. r(stage) \in ReadType /\ r(stage).fills = reading.fills /\ r(stage).paid = w /\ r(stage).from = reading.from
        BY <1>2, <1>4 DEF ReadType
    <2> HIDE DEF r
    <2>3. Told(r(stage), k)
        BY <1>1, <1>4, <2>2 DEF Told, LStateOf, Seen
    <2> QED
        BY <1>1, <1>2, <1>3, <2>1, <2>2, <2>3, ReadGoesOn
<1>7. CASE reading' = Ledger!NoRead /\ readTo' = reading.began
    <2>1. Ledger!NoRead \in ReadType /\ Told(Ledger!NoRead, k) /\ reading.began \in 0..MaxNow
        BY <1>2, LedgerConstants DEF Ledger!NoRead, ReadType, Told
    <2> QED
        BY <1>1, <1>2, <1>3, <1>7, <2>1, ReadGoesOn
<1> QED
    BY <1>5, <1>6, <1>7

LEMMA BeforeKeeps ==
    ASSUME LInv, Ledger!Before
    PROVE  LInv'
<1>1. PICK k \in 0..(MaxFills + 1) : LStateOf(k)
    BY DEF LInv
<1>2. LTypes /\ reading \in ReadType /\ readTo \in 0..MaxNow /\ pos \in Int
    BY DEF LInv, LTypes
<1> DEFINE r == [[reading EXCEPT !.before = pos] EXCEPT !.stage = "fills"]
<1>3. reading' = r /\ UNCHANGED <<now, pos, entries, shown, moves, crossed>> /\ readTo' = readTo
    BY DEF Ledger!Before, Ledger!At
<1>5. r \in ReadType /\ r.fills = reading.fills /\ r.paid = reading.paid /\ r.from = reading.from
    BY <1>2 DEF ReadType
<1> HIDE DEF r
<1>6. Told(r, k)
    BY <1>1, <1>5 DEF Told, LStateOf, Seen
<1> QED
    BY <1>1, <1>2, <1>3, <1>5, <1>6, ReadGoesOn

\* A read is given up.
LEMMA LedgerGivesUp ==
    ASSUME LInv, reading' = Ledger!NoRead, UNCHANGED <<now, pos, entries, shown, moves, readTo, crossed>>
    PROVE  LInv'
<1>1. PICK k \in 0..(MaxFills + 1) : LStateOf(k)
    BY DEF LInv
<1>2. LTypes /\ readTo \in 0..MaxNow
    BY DEF LInv, LTypes
<1>3. Ledger!NoRead \in ReadType /\ Told(Ledger!NoRead, k)
    BY <1>2, LedgerConstants DEF Ledger!NoRead, ReadType, Told
<1>4. readTo' \in 0..MaxNow /\ reading' \in ReadType /\ Told(reading', k) /\ UNCHANGED <<now, pos, entries, shown, moves, crossed>>
    BY <1>2, <1>3
<1> QED
    BY <1>1, <1>2, <1>4, ReadGoesOn

-----------------------------------------------------------------------------
(* What a read keeps. *)

\* Walking back from the position after some entries gives the one before each.
LEMMA WalkBack ==
    ASSUME NEW es \in [Places -> EntryType], NEW m \in 1..(MaxFills + 2), NEW i \in 1..m
    PROVE  SumTo(es, m) - SumFunctionOnSet(Ns(es), i..(m - 1)) = SumTo(es, i)
<1> DEFINE S == 1..(m - 1)
           R == 1..(i - 1)
           f == Ns(es)
<1>1. S \subseteq Places /\ R \subseteq S /\ S \ R = i..(m - 1) /\ m - 1 \in Int
    BY LedgerConstants DEF Places
<1>2. IsFiniteSet(S) /\ \A j \in S : f[j] \in Int
    BY <1>1, LedgerConstants DEF Ns, EntryType
<1>3. S \ R \in SUBSET S /\ R \in SUBSET S
    BY <1>1
<1> HIDE DEF S, R, f
<1>4. SumFunctionOnSet(f, S) = SumFunctionOnSet(f, R) + SumFunctionOnSet(f, S \ R)
    BY <1>2, <1>3, SumSplit
<1>5. \A T \in SUBSET S : SumFunctionOnSet(f, T) \in Int
    <2>1. ASSUME NEW T \in SUBSET S PROVE SumFunctionOnSet(f, T) \in Int
        <3>1. IsFiniteSet(T) /\ \A j \in T : f[j] \in Int
            BY <1>2, FS_Subset
        <3> QED
            BY <3>1, SumInt
    <2> QED
        BY <2>1
<1>6. SumFunctionOnSet(f, R) \in Int /\ SumFunctionOnSet(f, S \ R) \in Int
    BY <1>3, <1>5
<1>7. SumFunctionOnSet(f, S) - SumFunctionOnSet(f, S \ R) = SumFunctionOnSet(f, R)
    BY <1>4, <1>6
<1>8. SumTo(es, m) = SumFunctionOnSet(f, S) /\ SumTo(es, i) = SumFunctionOnSet(f, R)
    BY Zenon DEF SumTo, S, R, f
<1> QED
    BY <1>1, <1>7, <1>8 DEF f

\* What was read, with at most one settlement, the last.
LEMMA LastPaid ==
    ASSUME LTypes, NEW k \in 0..(MaxFills + 1), LStateOf(k), NEW given \in SUBSET (1..k)
    PROVE  LET last == {j \in given : entries[j].kind = "paid"}
           IN  last = {} \/ (last = {k} /\ Ledger!Max(last) = k /\ k \in given)
<1> DEFINE last == {j \in given : entries[j].kind = "paid"}
<1>1. \A j \in last : j = k
    BY DEF LStateOf, Order
<1>2. ASSUME last # {} PROVE last = {k} /\ k \in given
    BY <1>1, <1>2
<1>3. Ledger!Max({k}) = k
    BY LedgerConstants DEF Ledger!Max
<1> QED
    BY <1>2, <1>3

LEMMA MetType ==
    ASSUME LTypes, NEW k \in 0..(MaxFills + 1), LStateOf(k), NEW given \in SUBSET (1..k), NEW i \in Int
    PROVE  Ledger!Met(i, given, pos) \in Int
<1> DEFINE last == {j \in given : entries[j].kind = "paid"}
           from == IF last = {} THEN pos ELSE entries[Ledger!Max(last)].n
           T == {j \in given \ last : j >= i}
<1>0. Ledger!Ids = Places
    BY DEF Ledger!Ids, Places
<1>1. from \in Int
    <2>1. last = {} \/ (Ledger!Max(last) = k /\ k \in given)
        BY LastPaid
    <2>2. pos \in Int
        BY LedgerConstants DEF LTypes
    <2>3. ASSUME k \in given PROVE entries[k].n \in Int
        BY <2>3, LedgerConstants DEF LTypes, EntryType, Places
    <2> QED
        BY <2>1, <2>2, <2>3
<1>2. Ledger!Sizes = Ns(entries)
    BY <1>0 DEF Ledger!Sizes, Ns
<1>3. T \subseteq 1..k
    OBVIOUS
<1>4. IsFiniteSet(T) /\ \A j \in T : Ns(entries)[j] \in Int
    <2>1. IsFiniteSet(T)
        <3> HIDE DEF T
        <3> QED
            <4>1. k \in Int
                BY LedgerConstants
            <4>2. IsFiniteSet(1..k) /\ T \in SUBSET (1..k)
                BY <1>3, <4>1, LedgerConstants
            <4> QED
                BY <4>2, FS_Subset
    <2>2. \A j \in 1..k : j \in Places
        BY LedgerConstants DEF Places
    <2>3. \A j \in Places : Ns(entries)[j] \in Int
        BY LedgerConstants DEF Ns, LTypes, EntryType
    <2> QED
        BY <1>3, <2>1, <2>2, <2>3
<1>5. Ledger!Met(i, given, pos) = from - Ledger!SumFunctionOnSet(Ledger!Sizes, T)
    BY DEF Ledger!Met
<1> HIDE DEF T, from
<1>6. Ledger!SumFunctionOnSet(Ledger!Sizes, T) = SumFunctionOnSet(Ns(entries), T)
    BY <1>2, SameHeld
<1>7. SumFunctionOnSet(Ns(entries), T) \in Int
    BY <1>4, SumInt
<1> QED
    BY <1>1, <1>5, <1>6, <1>7

\* What was read is all there is from some entry on: nothing came that it didn't see.
LEMMA MetIs ==
    ASSUME LTypes, NEW k \in 0..(MaxFills + 1), LStateOf(k), NEW given \in SUBSET (1..k),
           NEW from \in Int, \A j \in 1..k : j \in given <=> entries[j].at >= from,
           NEW i \in given, entries[i].kind = "fill"
    PROVE  Ledger!Met(i, given, pos) = SumTo(entries, i)
<1> DEFINE last == {j \in given : entries[j].kind = "paid"}
           start == IF last = {} THEN pos ELSE entries[Ledger!Max(last)].n
           T == {j \in given \ last : j >= i}
<1>0. k \in Nat /\ i \in 1..k /\ entries \in [Places -> EntryType] /\ \A j \in 1..k : j \in Places
    BY LedgerConstants DEF LTypes, Places
<1>1. Ledger!Ids = Places /\ Ledger!Sizes = Ns(entries)
    BY DEF Ledger!Ids, Places, Ledger!Sizes, Ns
<1>2. Ledger!Met(i, given, pos) = start - SumFunctionOnSet(Ns(entries), T)
    <2>1. Ledger!Met(i, given, pos) = start - Ledger!SumFunctionOnSet(Ledger!Sizes, T)
        BY DEF Ledger!Met
    <2> HIDE DEF T, start
    <2> QED
        BY <1>1, <2>1, SameHeld
<1>3. \A j \in 1..k : j >= i => j \in given
    <2>1. ASSUME NEW j \in 1..k, j >= i PROVE entries[j].at >= from
        <3>1. entries[i].at >= from /\ entries[i].at <= entries[j].at
            BY <1>0, <2>1 DEF LStateOf, Order
        <3>2. entries[i].at \in Int /\ entries[j].at \in Int
            BY <1>0, LedgerConstants DEF EntryType
        <3> QED
            BY <3>1, <3>2
    <2> QED
        BY <2>1
<1>4. ASSUME NEW m \in 1..(k + 1), i <= m, start = SumTo(entries, m), T = i..(m - 1)
      PROVE  Ledger!Met(i, given, pos) = SumTo(entries, i)
    <2>1. m \in 1..(MaxFills + 2) /\ i \in 1..m
        BY <1>0, <1>4, LedgerConstants
    <2>2. SumTo(entries, m) - SumFunctionOnSet(Ns(entries), i..(m - 1)) = SumTo(entries, i)
        BY <1>0, <2>1, WalkBack
    <2> HIDE DEF T, start
    <2> QED
        BY <1>2, <1>4, <2>2
<1>5. CASE last = {}
    <2>1. ASSUME NEW j \in 1..k PROVE entries[j].kind = "fill"
        <3>1. entries[j].kind \in {"none", "fill", "paid"} /\ entries[j].kind # "none"
            BY <1>0 DEF EntryType, LStateOf, Order
        <3>2. CASE entries[j].kind = "paid"
            <4>1. j \in given
                BY <1>0, <1>3, <3>2 DEF LStateOf, Order
            <4> QED
                BY <1>5, <3>2, <4>1
        <3> QED
            BY <3>1, <3>2
    <2>2. start = SumTo(entries, k + 1)
        BY <1>5, <2>1 DEF LStateOf, Stands
    <2>3. T = i..((k + 1) - 1)
        <3>1. \A j \in 1..k : j \in T <=> j >= i
            BY <1>3, <1>5
        <3>2. T \subseteq 1..k
            OBVIOUS
        <3>3. i..((k + 1) - 1) \subseteq 1..k /\ \A j \in 1..k : j \in i..((k + 1) - 1) <=> j >= i
            BY <1>0
        <3> HIDE DEF T
        <3> QED
            BY <3>1, <3>2, <3>3
    <2>4. k + 1 \in 1..(k + 1) /\ i <= k + 1
        BY <1>0
    <2> QED
        BY <1>4, <2>2, <2>3, <2>4
<1>6. CASE last # {}
    <2>1. last = {k} /\ Ledger!Max(last) = k /\ k \in given
        BY <1>6, LastPaid
    <2>2. entries[k].kind = "paid" /\ k \in 1..k
        BY <1>0, <2>1
    <2>3. start = SumTo(entries, k)
        BY <1>6, <2>1, <2>2 DEF LStateOf, Stands
    <2>4. i # k /\ i <= k /\ k \in 1..(k + 1)
        BY <1>0, <2>2
    <2>5. T = i..(k - 1)
        <3>1. \A j \in 1..k : j \in T <=> j >= i /\ j # k
            BY <1>3, <2>1
        <3>2. T \subseteq 1..k
            OBVIOUS
        <3>3. i..(k - 1) \subseteq 1..k /\ \A j \in 1..k : j \in i..(k - 1) <=> j >= i /\ j # k
            BY <1>0
        <3> HIDE DEF T
        <3> QED
            BY <3>1, <3>2, <3>3
    <2> QED
        BY <1>4, <2>3, <2>4, <2>5
<1> QED
    BY <1>5, <1>6

\* What is kept of a fill: the sum is right if the position it met is.
LEMMA FillMoved ==
    ASSUME LTypes, NEW k \in 0..(MaxFills + 1), LStateOf(k), NEW given, NEW i \in 1..k,
           entries[i].kind = "fill", Ledger!Met(i, given, pos) \in Int
    PROVE  /\ Ledger!Moved(i, given, pos) \in -(MaxFills * 10)..(MaxFills * 10)
           /\ Ledger!Met(i, given, pos) = SumTo(entries, i)
              => Ledger!Moved(i, given, pos) = WorthOf(entries[i], SumTo(entries, i))
<1> DEFINE e == entries[i]
           met == Ledger!Met(i, given, pos)
           n == Ledger!Size(e.n)
           closed == IF e.n > 0 THEN Ledger!Least(n, Ledger!Most(0, -met)) ELSE Ledger!Least(n, Ledger!Most(0, met))
<1>1. e.n \in {-1, 1} /\ e.price \in 0..10 /\ MaxFills \in Nat \ {0}
    <2>1. i \in Places
        BY LedgerConstants DEF Places
    <2>2. e.price \in 0..10
        BY <2>1, LedgerConstants DEF LTypes, EntryType
    <2>3. e.n \in {-1, 1} /\ i <= MaxFills
        BY DEF LStateOf, Order
    <2> QED
        BY <2>2, <2>3, LedgerConstants
<1>2. Ledger!Moved(i, given, pos) = IF e.n > 0 THEN closed * (10 - e.price) - (n - closed) * e.price
                                    ELSE closed * e.price - (n - closed) * (10 - e.price)
    BY Zenon DEF Ledger!Moved, Ledger!Dollar
<1>3. n = 1
    BY <1>1 DEF Ledger!Size
<1> HIDE DEF met
<1>4. met \in Int
    BY DEF met
<1>5. /\ e.n = 1 => closed = IF met < 0 THEN 1 ELSE 0
      /\ e.n = -1 => closed = IF met > 0 THEN 1 ELSE 0
    BY <1>1, <1>3, <1>4 DEF Ledger!Least, Ledger!Most
<1>6. WorthOf(e, met) = (IF e.n > 0 THEN -e.price ELSE e.price - 10) + (IF met * e.n < 0 THEN 10 ELSE 0)
    BY DEF WorthOf
<1> DEFINE p == e.price
           d == e.n
           c == closed
           moved == Ledger!Moved(i, given, pos)
<1>7. CASE e.n = 1
    <2>1. moved = c * (10 - p) - (1 - c) * p /\ c = (IF met < 0 THEN 1 ELSE 0)
        BY <1>2, <1>3, <1>5, <1>7
    <2>2. WorthOf(e, met) = -p + (IF met < 0 THEN 10 ELSE 0)
        BY <1>4, <1>6, <1>7
    <2> HIDE DEF p, c, moved
    <2>3. p \in 0..10
        BY <1>1 DEF p
    <2>4. moved = WorthOf(e, met) /\ moved \in -10..10
        BY <1>4, <2>1, <2>2, <2>3
    <2>5. moved \in -(MaxFills * 10)..(MaxFills * 10)
        BY <1>1, <2>4
    <2> QED
        BY <2>4, <2>5 DEF met, moved
<1>8. CASE e.n = -1
    <2>1. moved = c * p - (1 - c) * (10 - p) /\ c = (IF met > 0 THEN 1 ELSE 0)
        BY <1>2, <1>3, <1>5, <1>8
    <2>2. WorthOf(e, met) = p - 10 + (IF met > 0 THEN 10 ELSE 0)
        BY <1>1, <1>4, <1>6, <1>8
    <2> HIDE DEF p, c, moved
    <2>3. p \in 0..10
        BY <1>1 DEF p
    <2>4. moved = WorthOf(e, met) /\ moved \in -10..10
        BY <1>4, <2>1, <2>2, <2>3
    <2>5. moved \in -(MaxFills * 10)..(MaxFills * 10)
        BY <1>1, <2>4
    <2> QED
        BY <2>4, <2>5 DEF met, moved
<1> QED
    BY <1>1, <1>7, <1>8

LEMMA PaidMoved ==
    ASSUME LTypes, NEW k \in 0..(MaxFills + 1), LStateOf(k), NEW given, NEW i \in 1..k, entries[i].kind = "paid"
    PROVE  /\ Ledger!Moved(i, given, pos) \in -(MaxFills * 10)..(MaxFills * 10)
           /\ Ledger!Moved(i, given, pos) = WorthOf(entries[i], SumTo(entries, i))
<1> DEFINE e == entries[i]
<1>1. e.n \in -MaxFills..MaxFills /\ e.price \in {0, 10}
    <2>1. i \in Places
        BY LedgerConstants DEF Places
    <2> QED
        BY <2>1 DEF LTypes, EntryType, LStateOf, Order
<1>2. Ledger!Moved(i, given, pos) = WorthOf(e, SumTo(entries, i))
    <2>1. Ledger!Worth(i) = WorthOf(e, SumTo(entries, i))
        BY MadeIs DEF LStateOf
    <2>2. Ledger!Moved(i, given, pos) = Ledger!Worth(i)
        BY Zenon DEF Ledger!Moved
    <2> QED
        BY <2>1, <2>2, Zenon
<1>3. WorthOf(e, SumTo(entries, i)) = (IF e.n > 0 THEN e.price ELSE 10 - e.price) * Ledger!Size(e.n)
    BY DEF WorthOf
<1>4. Ledger!Size(e.n) \in 0..MaxFills
    BY <1>1, LedgerConstants DEF Ledger!Size
<1> DEFINE v == IF e.n > 0 THEN e.price ELSE 10 - e.price
           z == Ledger!Size(e.n)
<1>5. v \in {0, 10}
    BY <1>1
<1> HIDE DEF v, z
<1>6. z \in 0..MaxFills /\ WorthOf(e, SumTo(entries, i)) = v * z
    BY <1>3, <1>4, Zenon DEF v, z
<1>7. v * z \in -(MaxFills * 10)..(MaxFills * 10)
    BY <1>5, <1>6, LedgerConstants
<1> QED
    BY <1>2, <1>6, <1>7

LEMMA AfterKeeps ==
    ASSUME LInv, Ledger!After
    PROVE  LInv'
<1>1. PICK k \in 0..(MaxFills + 1) : LStateOf(k)
    BY DEF LInv
<1>2. LTypes /\ reading \in ReadType /\ readTo \in 0..MaxNow
    BY DEF LInv, LTypes
<1> DEFINE given == reading.fills \cup reading.paid
           unseen == Ledger!Unseen(given)
<1>3. reading' = Ledger!NoRead /\ UNCHANGED <<now, pos, entries, shown>>
    BY DEF Ledger!After
<1>4. CASE Ledger!Moving(reading.before, pos)
    <2>1. UNCHANGED <<moves, readTo, crossed>>
        BY <1>4 DEF Ledger!After
    <2> QED
        BY <1>3, <2>1, LedgerGivesUp
<1>5. CASE ~Ledger!Moving(reading.before, pos)
    <2>1. /\ moves' = [i \in Places |-> IF i \in given THEN Ledger!Moved(i, given, pos) ELSE moves[i]]
          /\ readTo' = reading.began
          /\ crossed' = (crossed \/ (reading.before = pos /\ unseen # {}))
        BY <1>5, Zenon DEF Ledger!After, Ledger!Ids, Places
    <2>2. reading.before = pos
        BY <1>5, Zenon DEF Ledger!Moving
    <2>3. given \in SUBSET (1..k) /\ \A i \in given : entries[i].kind \in {"fill", "paid"} /\ entries[i].at >= reading.from
        BY <1>1 DEF LStateOf, Seen, Told
    <2>4. ASSUME crossed' = FALSE PROVE crossed = FALSE /\ \A j \in 1..k : j \in given <=> entries[j].at >= reading.from
        <3>1. crossed \in BOOLEAN
            BY <1>2, Zenon DEF LTypes
        <3>2. ~(crossed \/ (reading.before = pos /\ unseen # {}))
            BY <2>1, <2>4, Zenon
        <3>3. crossed = FALSE /\ unseen = {}
            BY <2>2, <3>1, <3>2, Zenon
        <3>4. Ledger!Made = 1..k
            BY <1>1, <1>2, MadeIs DEF LStateOf
        <3>5. \A j \in 1..k : entries[j].at >= reading.from => j \in given
            BY <3>3, <3>4 DEF Ledger!Unseen
        <3> QED
            BY <2>3, <3>3, <3>5
    <2> HIDE DEF given, unseen
    <2>5. /\ given \subseteq Places /\ \A i \in given : i \in 1..k /\ i <= k
        BY <2>3, LedgerConstants DEF Places
    <2>6. ASSUME NEW i \in given
          PROVE  /\ Ledger!Moved(i, given, pos) \in -(MaxFills * 10)..(MaxFills * 10)
                 /\ crossed' = FALSE => Ledger!Moved(i, given, pos) = WorthOf(entries[i], SumTo(entries, i))
        <3>1. CASE entries[i].kind = "paid"
            BY <1>1, <1>2, <2>5, <3>1, PaidMoved
        <3>2. CASE entries[i].kind = "fill"
            <4>1. Ledger!Met(i, given, pos) \in Int
                <5>1. i \in Int
                    BY <2>5
                <5> QED
                    BY <1>1, <1>2, <2>3, <5>1, MetType
            <4>2. ASSUME crossed' = FALSE PROVE Ledger!Met(i, given, pos) = SumTo(entries, i)
                <5>1. reading.from \in Int
                    BY <1>2 DEF ReadType
                <5> QED
                    BY <1>1, <1>2, <2>3, <2>4, <3>2, <4>2, <5>1, MetIs
            <4> QED
                BY <1>1, <1>2, <2>5, <3>2, <4>1, <4>2, FillMoved
        <3> QED
            BY <2>3, <3>1, <3>2
    <2>7. /\ now' = now /\ pos' = pos /\ entries' = entries /\ shown' = shown
          /\ reading' \in ReadType /\ Told(reading, k)' /\ reading.began \in 0..MaxNow
        BY <1>2, <1>3, LedgerConstants DEF Ledger!NoRead, ReadType, Told
    <2>8. LTypes'
        <3>1. crossed' \in BOOLEAN
            BY <2>1, Zenon
        <3>2. moves' \in [Places -> {Off} \cup -(MaxFills * 10)..(MaxFills * 10)]
            <4>1. \A i \in Places : moves[i] \in {Off} \cup -(MaxFills * 10)..(MaxFills * 10)
                BY <1>2 DEF LTypes
            <4> QED
                BY <2>1, <2>6, <4>1
        <3>3. now' \in 0..MaxNow /\ pos' \in -MaxFills..MaxFills /\ entries' \in [Places -> EntryType] /\ readTo' \in 0..MaxNow
            BY <1>2, <2>1, <2>7 DEF LTypes
        <3> QED
            BY <2>7, <3>1, <3>2, <3>3, Zenon DEF LTypes
    <2>9. Order(entries, k)' /\ Stands(k)' /\ Seen(k)'
        BY <1>1, <2>7 DEF LStateOf, Order, Stands, Seen
    <2>10. Kept(k)'
        <3>1. ASSUME NEW i \in Places, moves'[i] # Off PROVE i <= k
            <4>1. CASE i \in given
                BY <2>5, <4>1
            <4>2. CASE i \notin given
                <5>1. moves[i] # Off
                    BY <2>1, <3>1, <4>2
                <5> QED
                    BY <1>1, <5>1 DEF LStateOf, Kept
            <4> QED
                BY <4>1, <4>2
        <3>2. ASSUME NEW i \in Places, moves'[i] # Off, crossed' = FALSE
              PROVE  moves'[i] = WorthOf(entries[i], SumTo(entries, i))
            <4>1. CASE i \in given
                BY <2>1, <2>6, <3>2, <4>1
            <4>2. CASE i \notin given
                <5>1. moves[i] # Off /\ moves'[i] = moves[i]
                    BY <2>1, <3>2, <4>2
                <5>2. crossed = FALSE
                    BY <2>4, <3>2
                <5> QED
                    BY <1>1, <5>1, <5>2 DEF LStateOf, Kept
            <4> QED
                BY <4>1, <4>2
        <3> QED
            BY <2>7, <3>1, <3>2 DEF Kept
    <2> QED
        BY <2>8, <2>9, <2>10 DEF LInv, LStateOf
<1> QED
    BY <1>4, <1>5

LEMMA LedgerStep ==
    ASSUME LInv, Ledger!Next
    PROVE  LInv'
<1>1. Ledger!Fails => reading' = Ledger!NoRead /\ UNCHANGED <<now, pos, entries, shown, moves, readTo, crossed>>
    BY DEF Ledger!Fails
<1> QED
    BY <1>1, TradeKeeps, SettlesKeeps, ShowsKeeps, TickKeeps, BeginsKeeps, FillsKeeps, PaidKeeps, BeforeKeeps,
       AfterKeeps, LedgerGivesUp DEF Ledger!Next

LEMMA LedgerUnchanged ==
    ASSUME LInv, UNCHANGED ledger
    PROVE  LInv'
<1>1. PICK k \in 0..(MaxFills + 1) : LStateOf(k)
    BY DEF LInv
<1>2. LTypes /\ readTo \in 0..MaxNow /\ reading \in ReadType /\ Told(reading, k)
    BY <1>1 DEF LInv, LTypes, LStateOf, Seen
<1>3. /\ UNCHANGED <<now, pos, entries, shown, moves, crossed>>
      /\ readTo' \in 0..MaxNow /\ reading' \in ReadType /\ Told(reading', k)
    BY <1>2 DEF ledger
<1> QED
    BY <1>1, <1>2, <1>3, ReadGoesOn

LEMMA LedgerRight ==
    ASSUME LInv
    PROVE  Ledger!TypeOK /\ Ledger!RightUnlessCrossed
<1>1. PICK k \in 0..(MaxFills + 1) : LStateOf(k)
    BY DEF LInv
<1>2. LTypes /\ reading \in ReadType
    BY DEF LInv, LTypes
<1>3. /\ Ledger!Made = 1..k /\ Ledger!Cardinality(Ledger!Made) = k /\ Ledger!Ids = Places
      /\ \A i \in 1..k : Ledger!Worth(i) = WorthOf(entries[i], SumTo(entries, i))
    BY <1>1, <1>2, MadeIs DEF LStateOf
<1>4. Ledger!TypeOK
    <2>1. \A i \in Ledger!Ids : entries[i] \in [kind : {"none", "fill", "paid"}, at : 0..MaxNow,
                                        n : -MaxFills..MaxFills, price : Prices \cup {0, Ledger!Dollar}]
        BY <1>2, <1>3 DEF LTypes, EntryType, Ledger!Dollar
    <2>2. \A i \in Ledger!Ids : moves[i] = Ledger!Unkept \/ moves[i] \in -MaxFills * Ledger!Dollar..MaxFills * Ledger!Dollar
        BY <1>2, <1>3, LedgerConstants DEF LTypes, Off, Ledger!Dollar, Ledger!Unkept
    <2>3. shown \in 0..Ledger!Cardinality(Ledger!Made)
        BY <1>1, <1>3 DEF LStateOf, Seen
    <2>4. reading.stage \in {"idle", "look", "paid?", "before", "fills", "paid", "after"}
        BY <1>2 DEF ReadType
    <2>5. reading.fills \subseteq Ledger!Made /\ reading.paid \subseteq Ledger!Made
        BY <1>1, <1>3 DEF LStateOf, Seen, Told
    <2>6. now \in 0..MaxNow /\ pos \in -MaxFills..MaxFills /\ readTo \in 0..MaxNow
        BY <1>2 DEF LTypes
    <2>7. crossed \in BOOLEAN
        BY <1>2, Zenon DEF LTypes
    <2> QED
        BY <2>1, <2>2, <2>3, <2>4, <2>5, <2>6, <2>7, Zenon DEF Ledger!TypeOK
<1>5. Ledger!RightUnlessCrossed
    <2>1. ASSUME NEW i \in Places, moves[i] # Off, ~crossed PROVE moves[i] = Ledger!Worth(i)
        <3>1. crossed = FALSE
            BY <1>2, <2>1, Zenon DEF LTypes
        <3>2. i <= k /\ moves[i] = WorthOf(entries[i], SumTo(entries, i))
            BY <1>1, <2>1, <3>1 DEF LStateOf, Kept
        <3>3. i \in 1..k
            BY <3>2, LedgerConstants DEF Places
        <3> QED
            BY <1>3, <3>2, <3>3
    <2> QED
        BY <1>3, <2>1, Zenon DEF Ledger!RightUnlessCrossed, Off, Ledger!Dollar, Ledger!Unkept
<1> QED
    BY <1>4, <1>5

\* What Moves.refresh keeps of the owner's own trades is what they moved, whatever came between
\* its reads, unless it was trades it wasn't told of that left the position as it was.
THEOREM LedgerRightUnlessCrossed == MCSpec => []RightUnlessCrossed
<1> DEFINE Inv == part = "ledger" => LInv
<1>1. MCInit => Inv
    BY LedgerStarts DEF MCInit
<1>2. Inv /\ [MCNext]_all => Inv'
    <2> SUFFICES ASSUME Inv, [MCNext]_all, part' = "ledger" PROVE LInv'
        OBVIOUS
    <2>1. part = "ledger" /\ (Ledger!Next \/ UNCHANGED ledger)
        BY DEF MCNext, all
    <2> QED
        BY <2>1, LedgerStep, LedgerUnchanged
<1>3. Inv => RightUnlessCrossed
    BY LedgerRight DEF RightUnlessCrossed
<1> QED
    BY <1>1, <1>2, <1>3, PTL DEF MCSpec

-----------------------------------------------------------------------------
(***************************************************************************)
(* PaperAccount: the account of the paper trades                           *)
(***************************************************************************)


PaperTrades == [phase : Paper!Running \cup Paper!Recorded \cup {"idle", "failed"},
                waits : SUBSET {"K", "P"}, lead : {"K", "P", "both"},
                res : [{"K", "P"} -> 0..Price], out : [{"K", "P"} -> Int],
                hold : [{"K", "P"} -> 0..1], pay : [{"K", "P"} -> Nat]]

\* What a trade's figures are, by how far it is.
Fit(t) ==
    /\ t.phase \in {"legs", "reply"} => \A v \in {"K", "P"} : 0 <= t.out[v] /\ t.out[v] <= t.res[v]
    /\ t.phase \notin {"legs", "reply"} => \A v \in {"K", "P"} : t.res[v] = 0
    /\ t.phase \in {"idle", "failed", "missed"} => \A v \in {"K", "P"} : t.out[v] = 0
    /\ t.phase \notin {"chased", "settled"} => \A v \in {"K", "P"} : t.pay[v] = 0
    /\ t.phase \in {"chase", "chased", "unwind"} => t.hold["K"] # t.hold["P"]
    /\ t.phase = "chased" => \A v \in {"K", "P"} : (t.pay[v] > 0 => t.hold[v] = 0) /\ (v \in t.waits <=> t.pay[v] > 0)

\* A missing leg that is bought and not yet charged is covered, as long as no other trade ran.
PaidFor == \A v \in {"K", "P"} \ excused :
    /\ funds[v] - reserved[v] >= 0
    /\ \A i \in Trades : paper[i].phase = "chased" /\ v \in paper[i].waits =>
          /\ funds[v] - reserved[v] >= paper[i].pay[v]
          /\ \A j \in Trades \ {i} : paper[j].phase \notin Paper!Running

PInv == /\ Paper!TypeOK /\ \A i \in Trades : Fit(paper[i])
        /\ Paper!AccountAgrees /\ Paper!ReservesHeld /\ PaidFor

LEMMA PaperConstants == IsFiniteSet(Trades) /\ Deposits \subseteq Nat /\ Price \in Nat /\ Price >= 1
<1>1. Paper!IsFiniteSet(Trades) <=> IsFiniteSet(Trades)
    BY DEF Paper!IsFiniteSet, IsFiniteSet
<1> QED
    BY <1>1, PaperAssumption DEF Paper!PaperFits

LEMMA SameSum == ASSUME NEW f, NEW S PROVE Paper!SumFunctionOnSet(f, S) = SumFunctionOnSet(f, S)
BY DEF Paper!SumFunctionOnSet, SumFunctionOnSet, Paper!FoldFunctionOnSet, FoldFunctionOnSet,
       Paper!MapThenFoldSet, MapThenFoldSet

Phases == {"legs", "reply", "chase", "chased", "unwind", "open", "settled", "missed", "idle", "failed"}

LEMMA TradesAre ==
    PaperTrades = [phase : Paper!Running \cup Paper!Recorded \cup {"idle", "failed"},
                   waits : SUBSET Paper!Venues, lead : Paper!Venues \cup {"both"},
                   res : Paper!PerVenue(0..Price), out : Paper!PerVenue(Int),
                   hold : Paper!PerVenue(0..1), pay : Paper!PerVenue(Nat)]
<1>1. {"K", "P", "both"} = Paper!Venues \cup {"both"}
    BY DEF Paper!Venues
<1> QED
    BY <1>1, Zenon DEF PaperTrades, Paper!Venues, Paper!PerVenue

LEMMA PaperTypes ==
    Paper!TypeOK <=>
        /\ paper \in [Trades -> PaperTrades]
        /\ funds \in [{"K", "P"} -> Int] /\ tied \in [{"K", "P"} -> Int] /\ reserved \in [{"K", "P"} -> Nat]
        /\ realized \in Int /\ deposits \in Deposits /\ failed \in [{"K", "P"} -> Int]
        /\ excused \subseteq {"K", "P"}
BY Zenon, TradesAre DEF Paper!TypeOK, Paper!Venues, Paper!PerVenue

LEMMA PaperTypesNext ==
    Paper!TypeOK' <=>
        /\ paper' \in [Trades -> PaperTrades]
        /\ funds' \in [{"K", "P"} -> Int] /\ tied' \in [{"K", "P"} -> Int] /\ reserved' \in [{"K", "P"} -> Nat]
        /\ realized' \in Int /\ deposits' \in Deposits /\ failed' \in [{"K", "P"} -> Int]
        /\ excused' \subseteq {"K", "P"}
BY Zenon, TradesAre DEF Paper!TypeOK, Paper!Venues, Paper!PerVenue

LEMMA TradeIs ==
    ASSUME NEW t \in PaperTrades
    PROVE  /\ t.phase \in Phases /\ t.waits \subseteq {"K", "P"} /\ t.lead \in {"K", "P", "both"}
           /\ \A v \in {"K", "P"} : /\ t.res[v] \in Nat /\ t.out[v] \in Int /\ t.hold[v] \in 0..1
                                    /\ t.pay[v] \in Nat /\ t.res[v] <= Price
BY PaperConstants DEF PaperTrades, Phases, Paper!Running, Paper!Recorded

(***************************************************************************)
(* What one trade contributes to the account.                              *)
(***************************************************************************)
CashPart(t, v) == IF t.phase \in {"open", "settled", "missed"} THEN t.pay[v] - t.out[v] ELSE 0
TiedPart(t, v) == IF t.phase = "open" THEN t.out[v] ELSE 0
MadePart(t) == IF t.phase = "settled" THEN Paper!Made(t) ELSE 0
ChargedPart(t, v) == IF t.phase \in {"chase", "chased", "unwind"} THEN t.out[v] ELSE 0
ReservedPart(t, v) == IF t.phase \in {"legs", "reply"} THEN t.res[v] ELSE 0

LEMMA PartsInt ==
    ASSUME NEW t \in PaperTrades
    PROVE  /\ \A v \in {"K", "P"} : /\ CashPart(t, v) \in Int /\ TiedPart(t, v) \in Int
                                    /\ ChargedPart(t, v) \in Int /\ ReservedPart(t, v) \in Nat
           /\ Paper!Made(t) \in Int /\ MadePart(t) \in Int
<1>1. \A v \in {"K", "P"} : t.res[v] \in Nat /\ t.out[v] \in Int /\ t.pay[v] \in Nat
    BY TradeIs
<1>2. Paper!Made(t) \in Int
    BY <1>1 DEF Paper!Made
<1> QED
    BY <1>1, <1>2 DEF CashPart, TiedPart, ChargedPart, ReservedPart, MadePart

\* Of the table of trades p, what the trades in the phases of a set add up to.
Of(P, p) == {j \in Trades : p[j].phase \in P}

LEMMA OneChanges ==
    ASSUME NEW p, NEW q, NEW i \in Trades, \A j \in Trades \ {i} : q[j] = p[j],
           NEW f, NEW h, \A j \in Trades : f[j] \in Int /\ h[j] \in Int,
           \A j \in Trades \ {i} : h[j] = f[j], NEW P,
           NEW a \in Int, p[i].phase \in P => a = f[i], p[i].phase \notin P => a = 0,
           NEW b \in Int, q[i].phase \in P => b = h[i], q[i].phase \notin P => b = 0
    PROVE  SumFunctionOnSet(h, Of(P, q)) = SumFunctionOnSet(f, Of(P, p)) - a + b
<1> DEFINE S == {j \in Trades : p[j].phase \in P}
           R == {j \in Trades : q[j].phase \in P}
<1>1. IsFiniteSet(S) /\ IsFiniteSet(R)
    BY PaperConstants, FS_Subset
<1>2. /\ S \ {i} = R \ {i} /\ S \subseteq Trades /\ R \subseteq Trades
      /\ (i \in S <=> p[i].phase \in P) /\ (i \in R <=> q[i].phase \in P)
    OBVIOUS
<1> HIDE DEF S, R
<1>3. /\ (\A y \in S : f[y] \in Int) /\ (\A y \in R : h[y] \in Int)
      /\ \A y \in S \ {i} : f[y] = h[y]
      /\ (i \in S => a = f[i]) /\ (i \notin S => a = 0)
      /\ (i \in R => b = h[i]) /\ (i \notin R => b = 0)
    BY <1>2
<1>4. SumFunctionOnSet(h, R) = SumFunctionOnSet(f, S) - a + b
    BY <1>1, <1>2, <1>3, SumDiffers
<1> QED
    BY <1>4, Zenon DEF S, R, Of

\* The sums the account is, of a table of trades p.
CashSum(p, v) == SumFunctionOnSet([j \in Trades |-> p[j].pay[v] - p[j].out[v]], Of({"open", "settled", "missed"}, p))
TiedSum(p, v) == SumFunctionOnSet([j \in Trades |-> p[j].out[v]], Of({"open"}, p))
MadeSum(p) == SumFunctionOnSet([j \in Trades |-> Paper!Made(p[j])], Of({"settled"}, p))
ChargedSum(p, v) == SumFunctionOnSet([j \in Trades |-> p[j].out[v]], Of({"chase", "chased", "unwind"}, p))
ReservedSum(p, v) == SumFunctionOnSet([j \in Trades |-> p[j].res[v]], Of({"legs", "reply"}, p))

Books(p, c, t, m, d, l, r) ==
    /\ \A v \in {"K", "P"} : /\ c[v] = (d + CashSum(p, v)) - ChargedSum(p, v) - l[v]
                             /\ t[v] = TiedSum(p, v)
                             /\ r[v] = ReservedSum(p, v)
    /\ m = MadeSum(p)

LEMMA RowsSum ==
    ASSUME NEW p
    PROVE  /\ \A v, d : Paper!CashOf(p, d, v) = d + CashSum(p, v)
           /\ \A v : Paper!TiedOf(p, v) = TiedSum(p, v)
           /\ Paper!RealizedOf(p) = MadeSum(p)
<1>1. /\ Paper!Rows(p) = Of({"open", "settled", "missed"}, p)
      /\ {i \in Paper!Rows(p) : p[i].phase = "open"} = Of({"open"}, p)
      /\ {i \in Paper!Rows(p) : p[i].phase = "settled"} = Of({"settled"}, p)
    BY DEF Paper!Rows, Paper!Recorded, Of
<1>2. \A v, d : Paper!CashOf(p, d, v) = d + CashSum(p, v)
    BY <1>1, SameSum, Zenon DEF Paper!CashOf, CashSum
<1>3. \A v : Paper!TiedOf(p, v) = TiedSum(p, v)
    BY <1>1, SameSum, Zenon DEF Paper!TiedOf, TiedSum
<1>4. Paper!RealizedOf(p) = MadeSum(p)
    BY <1>1, SameSum, Zenon DEF Paper!RealizedOf, MadeSum
<1> QED
    BY <1>2, <1>3, <1>4

LEMMA BooksAre ==
    /\ (Paper!AccountAgrees /\ Paper!ReservesHeld)
           <=> Books(paper, funds, tied, realized, deposits, failed, reserved)
    /\ (Paper!AccountAgrees' /\ Paper!ReservesHeld')
           <=> Books(paper', funds', tied', realized', deposits', failed', reserved')
<1>1. \A v : /\ Paper!Charged(v) = ChargedSum(paper, v) /\ Paper!Charged(v)' = ChargedSum(paper', v)
    BY SameSum, Zenon DEF Paper!Charged, ChargedSum, Of
<1>2. (\A v \in {"K", "P"} : reserved[v] = ReservedSum(paper, v)) <=> Paper!ReservesHeld
    BY SameSum, Zenon DEF Paper!ReservesHeld, ReservedSum, Of, Paper!Venues
<1>3. (\A v \in {"K", "P"} : reserved'[v] = ReservedSum(paper', v)) <=> Paper!ReservesHeld'
    BY SameSum, Zenon DEF Paper!ReservesHeld, ReservedSum, Of, Paper!Venues
<1>c. /\ \A v : /\ Paper!CashOf(paper, deposits, v) = deposits + CashSum(paper, v)
                 /\ Paper!CashOf(paper', deposits', v) = deposits' + CashSum(paper', v)
                 /\ Paper!TiedOf(paper, v) = TiedSum(paper, v) /\ Paper!TiedOf(paper', v) = TiedSum(paper', v)
      /\ Paper!RealizedOf(paper) = MadeSum(paper) /\ Paper!RealizedOf(paper') = MadeSum(paper')
    BY RowsSum
<1>4. Paper!AccountAgrees <=>
        /\ \A v \in {"K", "P"} : /\ funds[v] = Paper!CashOf(paper, deposits, v) - Paper!Charged(v) - failed[v]
                                 /\ tied[v] = Paper!TiedOf(paper, v)
        /\ realized = Paper!RealizedOf(paper)
    BY Zenon DEF Paper!AccountAgrees, Paper!Venues
<1>5. Paper!AccountAgrees' <=>
        /\ \A v \in {"K", "P"} : /\ funds'[v] = Paper!CashOf(paper', deposits', v) - Paper!Charged(v)' - failed'[v]
                                 /\ tied'[v] = Paper!TiedOf(paper', v)
        /\ realized' = Paper!RealizedOf(paper')
    BY Zenon DEF Paper!AccountAgrees, Paper!Venues
<1>6. ASSUME NEW v
      PROVE  /\ (funds[v] = Paper!CashOf(paper, deposits, v) - Paper!Charged(v) - failed[v])
                 <=> (funds[v] = (deposits + CashSum(paper, v)) - ChargedSum(paper, v) - failed[v])
             /\ (tied[v] = Paper!TiedOf(paper, v)) <=> (tied[v] = TiedSum(paper, v))
    <2>1. Paper!CashOf(paper, deposits, v) = deposits + CashSum(paper, v)
        BY <1>c
    <2>2. Paper!TiedOf(paper, v) = TiedSum(paper, v)
        BY <1>c
    <2>3. Paper!Charged(v) = ChargedSum(paper, v)
        BY <1>1
    <2>4. Paper!CashOf(paper, deposits, v) - Paper!Charged(v) - failed[v]
          = (deposits + CashSum(paper, v)) - ChargedSum(paper, v) - failed[v]
        BY <2>1, <2>3, Zenon
    <2> QED
        BY <2>2, <2>4, Zenon
<1>7. ASSUME NEW v
      PROVE  /\ (funds'[v] = Paper!CashOf(paper', deposits', v) - Paper!Charged(v)' - failed'[v])
                 <=> (funds'[v] = (deposits' + CashSum(paper', v)) - ChargedSum(paper', v) - failed'[v])
             /\ (tied'[v] = Paper!TiedOf(paper', v)) <=> (tied'[v] = TiedSum(paper', v))
    <2>1. Paper!CashOf(paper', deposits', v) = deposits' + CashSum(paper', v)
        BY <1>c
    <2>2. Paper!TiedOf(paper', v) = TiedSum(paper', v)
        BY <1>c
    <2>3. Paper!Charged(v)' = ChargedSum(paper', v)
        BY <1>1
    <2>4. Paper!CashOf(paper', deposits', v) - Paper!Charged(v)' - failed'[v]
          = (deposits' + CashSum(paper', v)) - ChargedSum(paper', v) - failed'[v]
        BY <2>1, <2>3, Zenon
    <2> QED
        BY <2>2, <2>4, Zenon
<1> QED
    BY <1>c, <1>2, <1>3, <1>4, <1>5, <1>6, <1>7, Zenon DEF Books

\* One trade goes on: what it contributes is taken out and put back in.
LEMMA SumsMove ==
    ASSUME NEW p \in [Trades -> PaperTrades], NEW q \in [Trades -> PaperTrades], NEW i \in Trades,
           \A j \in Trades \ {i} : q[j] = p[j]
    PROVE  /\ \A v \in {"K", "P"} :
                /\ CashSum(q, v) = CashSum(p, v) - CashPart(p[i], v) + CashPart(q[i], v)
                /\ TiedSum(q, v) = TiedSum(p, v) - TiedPart(p[i], v) + TiedPart(q[i], v)
                /\ ChargedSum(q, v) = ChargedSum(p, v) - ChargedPart(p[i], v) + ChargedPart(q[i], v)
                /\ ReservedSum(q, v) = ReservedSum(p, v) - ReservedPart(p[i], v) + ReservedPart(q[i], v)
           /\ MadeSum(q) = MadeSum(p) - MadePart(p[i]) + MadePart(q[i])
<1>1. p[i] \in PaperTrades /\ q[i] \in PaperTrades
    OBVIOUS
<1>2. \A j \in Trades : /\ Paper!Made(p[j]) \in Int /\ Paper!Made(q[j]) \in Int
                        /\ \A v \in {"K", "P"} : /\ p[j].pay[v] - p[j].out[v] \in Int /\ q[j].pay[v] - q[j].out[v] \in Int
                                                 /\ p[j].out[v] \in Int /\ q[j].out[v] \in Int
                                                 /\ p[j].res[v] \in Int /\ q[j].res[v] \in Int
    <2> SUFFICES ASSUME NEW j \in Trades
                 PROVE  /\ Paper!Made(p[j]) \in Int /\ Paper!Made(q[j]) \in Int
                        /\ \A v \in {"K", "P"} : /\ p[j].pay[v] - p[j].out[v] \in Int /\ q[j].pay[v] - q[j].out[v] \in Int
                                                 /\ p[j].out[v] \in Int /\ q[j].out[v] \in Int
                                                 /\ p[j].res[v] \in Int /\ q[j].res[v] \in Int
        OBVIOUS
    <2>1. p[j] \in PaperTrades /\ q[j] \in PaperTrades
        OBVIOUS
    <2> QED
        BY <2>1, TradeIs, PartsInt
<1>3. MadeSum(q) = MadeSum(p) - MadePart(p[i]) + MadePart(q[i])
    <2> DEFINE f == [j \in Trades |-> Paper!Made(p[j])]
               h == [j \in Trades |-> Paper!Made(q[j])]
    <2>1. /\ \A j \in Trades : f[j] \in Int /\ h[j] \in Int
          /\ \A j \in Trades \ {i} : h[j] = f[j]
          /\ f[i] = Paper!Made(p[i]) /\ h[i] = Paper!Made(q[i])
        BY <1>2
    <2>2. MadeSum(p) = SumFunctionOnSet(f, Of({"settled"}, p)) /\ MadeSum(q) = SumFunctionOnSet(h, Of({"settled"}, q))
        BY Zenon DEF MadeSum
    <2> HIDE DEF f, h
    <2>3. PICK a \in Int, b \in Int : a = MadePart(p[i]) /\ b = MadePart(q[i])
        BY <1>1, PartsInt
    <2>4. /\ (p[i].phase \in {"settled"} => a = f[i]) /\ (p[i].phase \notin {"settled"} => a = 0)
          /\ (q[i].phase \in {"settled"} => b = h[i]) /\ (q[i].phase \notin {"settled"} => b = 0)
        BY <2>1, <2>3 DEF MadePart
    <2>5. MadeSum(q) = MadeSum(p) - a + b
        BY <2>1, <2>2, <2>4, OneChanges
    <2> QED
        BY <2>3, <2>5
<1>4. ASSUME NEW v \in {"K", "P"}
      PROVE  CashSum(q, v) = CashSum(p, v) - CashPart(p[i], v) + CashPart(q[i], v)
    <2> DEFINE f == [j \in Trades |-> p[j].pay[v] - p[j].out[v]]
               h == [j \in Trades |-> q[j].pay[v] - q[j].out[v]]
    <2>1. /\ \A j \in Trades : f[j] \in Int /\ h[j] \in Int
          /\ \A j \in Trades \ {i} : h[j] = f[j]
          /\ f[i] = p[i].pay[v] - p[i].out[v] /\ h[i] = q[i].pay[v] - q[i].out[v]
        BY <1>2
    <2>2. CashSum(p, v) = SumFunctionOnSet(f, Of({"open", "settled", "missed"}, p)) /\ CashSum(q, v) = SumFunctionOnSet(h, Of({"open", "settled", "missed"}, q))
        BY Zenon DEF CashSum
    <2> HIDE DEF f, h
    <2>3. PICK a \in Int, b \in Int : a = CashPart(p[i], v) /\ b = CashPart(q[i], v)
        BY <1>1, PartsInt
    <2>4. /\ (p[i].phase \in {"open", "settled", "missed"} => a = f[i]) /\ (p[i].phase \notin {"open", "settled", "missed"} => a = 0)
          /\ (q[i].phase \in {"open", "settled", "missed"} => b = h[i]) /\ (q[i].phase \notin {"open", "settled", "missed"} => b = 0)
        BY <2>1, <2>3 DEF CashPart
    <2>5. CashSum(q, v) = CashSum(p, v) - a + b
        BY <2>1, <2>2, <2>4, OneChanges
    <2> QED
        BY <2>3, <2>5
<1>5. ASSUME NEW v \in {"K", "P"}
      PROVE  TiedSum(q, v) = TiedSum(p, v) - TiedPart(p[i], v) + TiedPart(q[i], v)
    <2> DEFINE f == [j \in Trades |-> p[j].out[v]]
               h == [j \in Trades |-> q[j].out[v]]
    <2>1. /\ \A j \in Trades : f[j] \in Int /\ h[j] \in Int
          /\ \A j \in Trades \ {i} : h[j] = f[j]
          /\ f[i] = p[i].out[v] /\ h[i] = q[i].out[v]
        BY <1>2
    <2>2. TiedSum(p, v) = SumFunctionOnSet(f, Of({"open"}, p)) /\ TiedSum(q, v) = SumFunctionOnSet(h, Of({"open"}, q))
        BY Zenon DEF TiedSum
    <2> HIDE DEF f, h
    <2>3. PICK a \in Int, b \in Int : a = TiedPart(p[i], v) /\ b = TiedPart(q[i], v)
        BY <1>1, PartsInt
    <2>4. /\ (p[i].phase \in {"open"} => a = f[i]) /\ (p[i].phase \notin {"open"} => a = 0)
          /\ (q[i].phase \in {"open"} => b = h[i]) /\ (q[i].phase \notin {"open"} => b = 0)
        BY <2>1, <2>3 DEF TiedPart
    <2>5. TiedSum(q, v) = TiedSum(p, v) - a + b
        BY <2>1, <2>2, <2>4, OneChanges
    <2> QED
        BY <2>3, <2>5
<1>6. ASSUME NEW v \in {"K", "P"}
      PROVE  ChargedSum(q, v) = ChargedSum(p, v) - ChargedPart(p[i], v) + ChargedPart(q[i], v)
    <2> DEFINE f == [j \in Trades |-> p[j].out[v]]
               h == [j \in Trades |-> q[j].out[v]]
    <2>1. /\ \A j \in Trades : f[j] \in Int /\ h[j] \in Int
          /\ \A j \in Trades \ {i} : h[j] = f[j]
          /\ f[i] = p[i].out[v] /\ h[i] = q[i].out[v]
        BY <1>2
    <2>2. ChargedSum(p, v) = SumFunctionOnSet(f, Of({"chase", "chased", "unwind"}, p)) /\ ChargedSum(q, v) = SumFunctionOnSet(h, Of({"chase", "chased", "unwind"}, q))
        BY Zenon DEF ChargedSum
    <2> HIDE DEF f, h
    <2>3. PICK a \in Int, b \in Int : a = ChargedPart(p[i], v) /\ b = ChargedPart(q[i], v)
        BY <1>1, PartsInt
    <2>4. /\ (p[i].phase \in {"chase", "chased", "unwind"} => a = f[i]) /\ (p[i].phase \notin {"chase", "chased", "unwind"} => a = 0)
          /\ (q[i].phase \in {"chase", "chased", "unwind"} => b = h[i]) /\ (q[i].phase \notin {"chase", "chased", "unwind"} => b = 0)
        BY <2>1, <2>3 DEF ChargedPart
    <2>5. ChargedSum(q, v) = ChargedSum(p, v) - a + b
        BY <2>1, <2>2, <2>4, OneChanges
    <2> QED
        BY <2>3, <2>5
<1>7. ASSUME NEW v \in {"K", "P"}
      PROVE  ReservedSum(q, v) = ReservedSum(p, v) - ReservedPart(p[i], v) + ReservedPart(q[i], v)
    <2> DEFINE f == [j \in Trades |-> p[j].res[v]]
               h == [j \in Trades |-> q[j].res[v]]
    <2>1. /\ \A j \in Trades : f[j] \in Int /\ h[j] \in Int
          /\ \A j \in Trades \ {i} : h[j] = f[j]
          /\ f[i] = p[i].res[v] /\ h[i] = q[i].res[v]
        BY <1>2
    <2>2. ReservedSum(p, v) = SumFunctionOnSet(f, Of({"legs", "reply"}, p)) /\ ReservedSum(q, v) = SumFunctionOnSet(h, Of({"legs", "reply"}, q))
        BY Zenon DEF ReservedSum
    <2> HIDE DEF f, h
    <2>3. PICK a \in Int, b \in Int : a = ReservedPart(p[i], v) /\ b = ReservedPart(q[i], v)
        BY <1>1, PartsInt
    <2>4. /\ (p[i].phase \in {"legs", "reply"} => a = f[i]) /\ (p[i].phase \notin {"legs", "reply"} => a = 0)
          /\ (q[i].phase \in {"legs", "reply"} => b = h[i]) /\ (q[i].phase \notin {"legs", "reply"} => b = 0)
        BY <2>1, <2>3 DEF ReservedPart
    <2>5. ReservedSum(q, v) = ReservedSum(p, v) - a + b
        BY <2>1, <2>2, <2>4, OneChanges
    <2> QED
        BY <2>3, <2>5
<1> QED
    BY <1>3, <1>4, <1>5, <1>6, <1>7

LEMMA SumsInt ==
    ASSUME NEW p \in [Trades -> PaperTrades]
    PROVE  /\ \A v \in {"K", "P"} : /\ CashSum(p, v) \in Int /\ TiedSum(p, v) \in Int
                                    /\ ChargedSum(p, v) \in Int /\ ReservedSum(p, v) \in Nat
           /\ MadeSum(p) \in Int
<1>1. \A P : IsFiniteSet(Of(P, p)) /\ Of(P, p) \subseteq Trades
    BY PaperConstants, FS_Subset DEF Of
<1>2. \A j \in Trades : /\ Paper!Made(p[j]) \in Int
                        /\ \A v \in {"K", "P"} : /\ p[j].pay[v] - p[j].out[v] \in Int
                                                 /\ p[j].out[v] \in Int /\ p[j].res[v] \in Nat
    <2> SUFFICES ASSUME NEW j \in Trades
                 PROVE  /\ Paper!Made(p[j]) \in Int
                        /\ \A v \in {"K", "P"} : /\ p[j].pay[v] - p[j].out[v] \in Int
                                                 /\ p[j].out[v] \in Int /\ p[j].res[v] \in Nat
        OBVIOUS
    <2>1. p[j] \in PaperTrades
        OBVIOUS
    <2> QED
        BY <2>1, TradeIs, PartsInt
<1>3. ASSUME NEW f, \A j \in Trades : f[j] \in Int, NEW P PROVE SumFunctionOnSet(f, Of(P, p)) \in Int
    <2>1. \A j \in Of(P, p) : f[j] \in Int
        BY <1>1, <1>3
    <2> QED
        BY <1>1, <2>1, SumInt
<1>4. MadeSum(p) \in Int
    BY <1>2, <1>3 DEF MadeSum
<1>5. ASSUME NEW v \in {"K", "P"}
      PROVE  /\ CashSum(p, v) \in Int /\ TiedSum(p, v) \in Int /\ ChargedSum(p, v) \in Int
             /\ ReservedSum(p, v) \in Nat
    <2> DEFINE f == [j \in Trades |-> p[j].pay[v] - p[j].out[v]]
               g == [j \in Trades |-> p[j].out[v]]
               h == [j \in Trades |-> p[j].res[v]]
    <2>1. \A j \in Trades : f[j] \in Int /\ g[j] \in Int /\ h[j] \in Nat
        BY <1>2
    <2>2. /\ CashSum(p, v) = SumFunctionOnSet(f, Of({"open", "settled", "missed"}, p))
          /\ TiedSum(p, v) = SumFunctionOnSet(g, Of({"open"}, p))
          /\ ChargedSum(p, v) = SumFunctionOnSet(g, Of({"chase", "chased", "unwind"}, p))
          /\ ReservedSum(p, v) = SumFunctionOnSet(h, Of({"legs", "reply"}, p))
        BY Zenon DEF CashSum, TiedSum, ChargedSum, ReservedSum
    <2> HIDE DEF f, g, h
    <2>3. \A j \in Of({"legs", "reply"}, p) : h[j] \in Nat
        BY <1>1, <2>1
    <2> QED
        BY <1>1, <1>3, <2>1, <2>2, <2>3, SumNat
<1> QED
    BY <1>4, <1>5

\* A trade goes from s to t: the account moves by what that changes.
LEMMA PaperMoves ==
    ASSUME PInv, NEW i \in Trades, NEW s, s = paper[i], NEW t \in PaperTrades, Fit(t),
           paper' = [paper EXCEPT ![i] = t], deposits' = deposits,
           funds' \in [{"K", "P"} -> Int], tied' \in [{"K", "P"} -> Int], failed' \in [{"K", "P"} -> Int],
           reserved' \in [{"K", "P"} -> Int], excused' \subseteq {"K", "P"},
           \A v \in {"K", "P"} :
                /\ funds'[v] - funds[v] = (CashPart(t, v) - CashPart(s, v))
                                          - (ChargedPart(t, v) - ChargedPart(s, v)) - (failed'[v] - failed[v])
                /\ tied'[v] - tied[v] = TiedPart(t, v) - TiedPart(s, v)
                /\ reserved'[v] - reserved[v] = ReservedPart(t, v) - ReservedPart(s, v),
           realized' = realized + (MadePart(t) - MadePart(s))
    PROVE  /\ Paper!TypeOK' /\ Paper!AccountAgrees' /\ Paper!ReservesHeld'
           /\ \A j \in Trades : Fit(paper'[j])
           /\ paper' \in [Trades -> PaperTrades] /\ paper'[i] = t
           /\ \A j \in Trades \ {i} : paper'[j] = paper[j]
<1>1. /\ paper \in [Trades -> PaperTrades] /\ s \in PaperTrades
      /\ funds \in [{"K", "P"} -> Int] /\ tied \in [{"K", "P"} -> Int] /\ reserved \in [{"K", "P"} -> Nat]
      /\ realized \in Int /\ deposits \in Int /\ deposits' \in Deposits /\ failed \in [{"K", "P"} -> Int]
    <2>1. /\ paper \in [Trades -> PaperTrades]
          /\ funds \in [{"K", "P"} -> Int] /\ tied \in [{"K", "P"} -> Int] /\ reserved \in [{"K", "P"} -> Nat]
          /\ realized \in Int /\ deposits \in Deposits /\ failed \in [{"K", "P"} -> Int]
        BY PaperTypes, Zenon DEF PInv
    <2> QED
        BY <2>1, PaperConstants
<1>2. /\ paper' \in [Trades -> PaperTrades] /\ paper'[i] = t
      /\ \A j \in Trades \ {i} : paper'[j] = paper[j]
    BY <1>1
<1>3. \A j \in Trades : Fit(paper'[j])
    BY <1>2 DEF PInv
<1>4. /\ \A v \in {"K", "P"} :
           /\ CashSum(paper', v) = CashSum(paper, v) - CashPart(s, v) + CashPart(t, v)
           /\ TiedSum(paper', v) = TiedSum(paper, v) - TiedPart(s, v) + TiedPart(t, v)
           /\ ChargedSum(paper', v) = ChargedSum(paper, v) - ChargedPart(s, v) + ChargedPart(t, v)
           /\ ReservedSum(paper', v) = ReservedSum(paper, v) - ReservedPart(s, v) + ReservedPart(t, v)
      /\ MadeSum(paper') = MadeSum(paper) - MadePart(s) + MadePart(t)
    <2>1. /\ \A v \in {"K", "P"} :
               /\ CashSum(paper', v) = CashSum(paper, v) - CashPart(paper[i], v) + CashPart(paper'[i], v)
               /\ TiedSum(paper', v) = TiedSum(paper, v) - TiedPart(paper[i], v) + TiedPart(paper'[i], v)
               /\ ChargedSum(paper', v) = ChargedSum(paper, v) - ChargedPart(paper[i], v) + ChargedPart(paper'[i], v)
               /\ ReservedSum(paper', v) = ReservedSum(paper, v) - ReservedPart(paper[i], v) + ReservedPart(paper'[i], v)
          /\ MadeSum(paper') = MadeSum(paper) - MadePart(paper[i]) + MadePart(paper'[i])
        BY <1>1, <1>2, SumsMove, Zenon
    <2> QED
        BY <1>2, <2>1, Zenon
<1>5. /\ \A v \in {"K", "P"} : /\ CashSum(paper, v) \in Int /\ TiedSum(paper, v) \in Int
                               /\ ChargedSum(paper, v) \in Int /\ ReservedSum(paper, v) \in Int
                               /\ ReservedSum(paper', v) \in Nat
      /\ MadeSum(paper) \in Int
    <2>1. /\ \A v \in {"K", "P"} : /\ CashSum(paper, v) \in Int /\ TiedSum(paper, v) \in Int
                                   /\ ChargedSum(paper, v) \in Int /\ ReservedSum(paper, v) \in Nat
          /\ MadeSum(paper) \in Int
        BY <1>1, SumsInt, Zenon
    <2>2. \A v \in {"K", "P"} : ReservedSum(paper', v) \in Nat
        BY <1>2, SumsInt, Zenon
    <2> QED
        BY <2>1, <2>2
<1>6. /\ MadePart(s) \in Int /\ MadePart(t) \in Int
      /\ \A v \in {"K", "P"} :
           /\ CashPart(s, v) \in Int /\ TiedPart(s, v) \in Int /\ ChargedPart(s, v) \in Int /\ ReservedPart(s, v) \in Int
           /\ CashPart(t, v) \in Int /\ TiedPart(t, v) \in Int /\ ChargedPart(t, v) \in Int /\ ReservedPart(t, v) \in Int
    BY <1>1, PartsInt
<1>7. Books(paper, funds, tied, realized, deposits, failed, reserved)
    BY BooksAre DEF PInv
<1>8. Books(paper', funds', tied', realized', deposits', failed', reserved')
    <2>1. realized' = MadeSum(paper')
        BY <1>4, <1>5, <1>6, <1>7 DEF Books
    <2>2. ASSUME NEW v \in {"K", "P"}
          PROVE  /\ funds'[v] = (deposits' + CashSum(paper', v)) - ChargedSum(paper', v) - failed'[v]
                 /\ tied'[v] = TiedSum(paper', v)
                 /\ reserved'[v] = ReservedSum(paper', v)
        <3>1. /\ funds[v] = (deposits + CashSum(paper, v)) - ChargedSum(paper, v) - failed[v]
              /\ tied[v] = TiedSum(paper, v) /\ reserved[v] = ReservedSum(paper, v)
            BY <1>7 DEF Books
        <3>2. /\ funds[v] \in Int /\ funds'[v] \in Int /\ tied[v] \in Int /\ tied'[v] \in Int /\ reserved[v] \in Int
              /\ reserved'[v] \in Int /\ failed[v] \in Int /\ failed'[v] \in Int
            BY <1>1
        <3>3. /\ CashSum(paper', v) = CashSum(paper, v) - CashPart(s, v) + CashPart(t, v)
              /\ TiedSum(paper', v) = TiedSum(paper, v) - TiedPart(s, v) + TiedPart(t, v)
              /\ ChargedSum(paper', v) = ChargedSum(paper, v) - ChargedPart(s, v) + ChargedPart(t, v)
              /\ ReservedSum(paper', v) = ReservedSum(paper, v) - ReservedPart(s, v) + ReservedPart(t, v)
            BY <1>4
        <3>4. /\ funds'[v] - funds[v] = (CashPart(t, v) - CashPart(s, v))
                                        - (ChargedPart(t, v) - ChargedPart(s, v)) - (failed'[v] - failed[v])
              /\ tied'[v] - tied[v] = TiedPart(t, v) - TiedPart(s, v)
              /\ reserved'[v] - reserved[v] = ReservedPart(t, v) - ReservedPart(s, v)
            OBVIOUS
        <3>5. /\ CashSum(paper, v) \in Int /\ TiedSum(paper, v) \in Int
              /\ ChargedSum(paper, v) \in Int /\ ReservedSum(paper, v) \in Int
              /\ CashPart(s, v) \in Int /\ TiedPart(s, v) \in Int /\ ChargedPart(s, v) \in Int
              /\ ReservedPart(s, v) \in Int
              /\ CashPart(t, v) \in Int /\ TiedPart(t, v) \in Int /\ ChargedPart(t, v) \in Int
              /\ ReservedPart(t, v) \in Int
            BY <1>5, <1>6
        <3>6. tied'[v] = TiedSum(paper', v) /\ reserved'[v] = ReservedSum(paper', v)
            BY <3>1, <3>2, <3>3, <3>4, <3>5
        <3>7. funds'[v] = (deposits' + CashSum(paper', v)) - ChargedSum(paper', v) - failed'[v]
            <4>1. deposits \in Int /\ deposits' = deposits
                BY <1>1
            <4> QED
                BY <3>1, <3>2, <3>3, <3>4, <3>5, <4>1
        <3> QED
            BY <3>6, <3>7
    <2> QED
        BY <2>1, <2>2, Zenon DEF Books
<1>9. /\ reserved' \in [{"K", "P"} -> Nat] /\ realized' \in Int
    BY <1>1, <1>5, <1>6, <1>8 DEF Books
<1>10. Paper!TypeOK'
    BY <1>1, <1>2, <1>9, PaperTypesNext, Zenon
<1> QED
    BY <1>2, <1>3, <1>8, <1>10, BooksAre

\* A running trade goes on, and is not then waiting for a missing leg's report: nothing
\* else is promised more than there is.
LEMMA PaperCovers ==
    ASSUME PInv, NEW i \in Trades, paper[i].phase \in Paper!Running, paper'[i].phase # "chased",
           \A j \in Trades \ {i} : paper'[j] = paper[j], excused \subseteq excused',
           \A v \in {"K", "P"} \ excused : funds'[v] - reserved'[v] >= 0
    PROVE  PaidFor'
<1> SUFFICES ASSUME NEW v \in {"K", "P"} \ excused'
             PROVE  \A j \in Trades : ~(paper'[j].phase = "chased" /\ v \in paper'[j].waits)
    BY DEF PaidFor
<1> QED
    BY DEF PInv, PaidFor

\* What is known of a trade and of the account's figures.
LEMMA PaperKnown ==
    ASSUME PInv, NEW i \in Trades
    PROVE  /\ paper \in [Trades -> PaperTrades] /\ paper[i] \in PaperTrades /\ Fit(paper[i])
           /\ funds \in [{"K", "P"} -> Int] /\ tied \in [{"K", "P"} -> Int] /\ reserved \in [{"K", "P"} -> Nat]
           /\ realized \in Int /\ deposits \in Deposits /\ failed \in [{"K", "P"} -> Int]
           /\ excused \subseteq {"K", "P"}
           /\ \A v \in {"K", "P"} : /\ funds[v] \in Int /\ tied[v] \in Int /\ reserved[v] \in Nat /\ failed[v] \in Int
                                    /\ v \notin excused => funds[v] - reserved[v] >= 0
<1>1. /\ paper \in [Trades -> PaperTrades]
      /\ funds \in [{"K", "P"} -> Int] /\ tied \in [{"K", "P"} -> Int] /\ reserved \in [{"K", "P"} -> Nat]
      /\ realized \in Int /\ deposits \in Deposits /\ failed \in [{"K", "P"} -> Int]
      /\ excused \subseteq {"K", "P"}
    BY PaperTypes, Zenon DEF PInv
<1>2. Fit(paper[i]) /\ \A v \in {"K", "P"} : v \notin excused => funds[v] - reserved[v] >= 0
    BY DEF PInv, PaidFor
<1>3. paper[i] \in PaperTrades
    BY <1>1
<1>4. \A v \in {"K", "P"} : funds[v] \in Int /\ tied[v] \in Int /\ reserved[v] \in Nat /\ failed[v] \in Int
    BY <1>1
<1> QED
    BY <1>1, <1>2, <1>3, <1>4

LEMMA IdleIs ==
    /\ Paper!Idle \in PaperTrades /\ Paper!Idle.phase = "idle" /\ Paper!Idle.waits = {}
    /\ \A v \in {"K", "P"} : /\ Paper!Idle.res[v] = 0 /\ Paper!Idle.out[v] = 0
                             /\ Paper!Idle.hold[v] = 0 /\ Paper!Idle.pay[v] = 0
BY PaperConstants DEF Paper!Idle, Paper!Zero, Paper!Venues, PaperTrades, Paper!Running

\* Money is put aside.
LEMMA PaperDecides == ASSUME PInv, NEW i \in Trades, Paper!Decides(i) PROVE PInv'
<1> DEFINE res == [v \in {"K", "P"} |-> IF Paper!Available(v) < Price THEN Paper!Available(v) ELSE Price]
<1>1. PICK lead \in {"K", "P", "both"}, ws \in SUBSET {"K", "P"} :
        paper' = [paper EXCEPT ![i] = [Paper!Idle EXCEPT !.phase = "legs", !.res = res, !.lead = lead, !.waits = ws]]
    BY DEF Paper!Decides, Paper!Venues
<1>2. /\ paper[i].phase = "idle" /\ \A v \in {"K", "P"} : Paper!Available(v) >= 1
      /\ reserved' = [v \in {"K", "P"} |-> reserved[v] + res[v]]
      /\ excused' = excused \cup {v \in {"K", "P"} : \E j \in Trades : paper[j].phase = "chased" /\ v \in paper[j].waits}
      /\ UNCHANGED <<funds, tied, realized, deposits, failed>>
    BY DEF Paper!Decides, Paper!Is, Paper!Plus, Paper!Venues
<1>3. \A v \in {"K", "P"} : Paper!Available(v) = funds[v] - reserved[v]
    BY DEF Paper!Available
<1>4. /\ res \in [{"K", "P"} -> 0..Price]
      /\ \A v \in {"K", "P"} : res[v] \in 0..Price /\ res[v] <= funds[v] - reserved[v]
    BY <1>2, <1>3, PaperKnown, PaperConstants
<1> HIDE DEF res
<1> DEFINE t == [Paper!Idle EXCEPT !.phase = "legs", !.res = res, !.lead = lead, !.waits = ws]
<1>5. t \in PaperTrades
    BY <1>4, IdleIs DEF PaperTrades, Paper!Running
<1>6. t.phase = "legs" /\ t.res = res /\ t.out = Paper!Idle.out /\ t.pay = Paper!Idle.pay
    BY IdleIs DEF PaperTrades
<1> HIDE DEF t
<1>7. \A v \in {"K", "P"} : t.res[v] = res[v] /\ t.out[v] = 0 /\ t.pay[v] = 0
    BY <1>6, IdleIs
<1>8. Fit(t)
    BY <1>4, <1>6, <1>7 DEF Fit
<1>9. /\ \A v \in {"K", "P"} : /\ CashPart(t, v) = 0 /\ TiedPart(t, v) = 0 /\ ChargedPart(t, v) = 0
                               /\ ReservedPart(t, v) = res[v]
                               /\ CashPart(paper[i], v) = 0 /\ TiedPart(paper[i], v) = 0
                               /\ ChargedPart(paper[i], v) = 0 /\ ReservedPart(paper[i], v) = 0
      /\ MadePart(t) = 0 /\ MadePart(paper[i]) = 0
    BY <1>2, <1>6, <1>7 DEF CashPart, TiedPart, ChargedPart, ReservedPart, MadePart
<1>10. /\ paper' = [paper EXCEPT ![i] = t]
       /\ funds' \in [{"K", "P"} -> Int] /\ tied' \in [{"K", "P"} -> Int] /\ failed' \in [{"K", "P"} -> Int]
       /\ reserved' \in [{"K", "P"} -> Int] /\ excused' \subseteq {"K", "P"} /\ deposits' = deposits
       /\ realized' = realized + (MadePart(t) - MadePart(paper[i]))
    <2>1. paper' = [paper EXCEPT ![i] = t]
        BY <1>1, Zenon DEF t
    <2>2. /\ funds \in [{"K", "P"} -> Int] /\ tied \in [{"K", "P"} -> Int] /\ failed \in [{"K", "P"} -> Int]
          /\ reserved \in [{"K", "P"} -> Nat] /\ excused \subseteq {"K", "P"} /\ realized \in Int
        BY PaperKnown
    <2>3. reserved' \in [{"K", "P"} -> Int]
        BY <1>2, <1>4, <2>2
    <2>4. excused' \subseteq {"K", "P"}
        BY <1>2, <2>2
    <2> QED
        BY <1>2, <1>9, <2>1, <2>2, <2>3, <2>4
<1>11. \A v \in {"K", "P"} :
        /\ funds'[v] - funds[v] = (CashPart(t, v) - CashPart(paper[i], v))
                                  - (ChargedPart(t, v) - ChargedPart(paper[i], v)) - (failed'[v] - failed[v])
        /\ tied'[v] - tied[v] = TiedPart(t, v) - TiedPart(paper[i], v)
        /\ reserved'[v] - reserved[v] = ReservedPart(t, v) - ReservedPart(paper[i], v)
    BY <1>2, <1>4, <1>9, PaperKnown
<1>12. /\ Paper!TypeOK' /\ Paper!AccountAgrees' /\ Paper!ReservesHeld'
       /\ \A j \in Trades : Fit(paper'[j])
       /\ paper'[i] = t /\ \A j \in Trades \ {i} : paper'[j] = paper[j]
    BY <1>5, <1>8, <1>10, <1>11, PaperMoves
<1>13. PaidFor'
    <2> SUFFICES ASSUME NEW v \in {"K", "P"} \ excused'
                 PROVE  /\ funds'[v] - reserved'[v] >= 0
                        /\ \A j \in Trades : ~(paper'[j].phase = "chased" /\ v \in paper'[j].waits)
        BY DEF PaidFor
    <2>1. funds'[v] - reserved'[v] >= 0
        BY <1>2, <1>4, PaperKnown
    <2> QED
        BY <1>2, <1>6, <1>12, <2>1
<1> QED
    BY <1>12, <1>13 DEF PInv

\* A leg's order arrives.
LEMMA PaperFills == ASSUME PInv, NEW i \in Trades, Paper!Fills(i) PROVE PInv'
<1>1. PICK v \in {"K", "P"}, spent \in Nat, ws \in SUBSET {"K", "P"}, h \in 0..1, ph \in {"legs", "reply"} :
        /\ paper' = [paper EXCEPT ![i].out[v] = spent, ![i].hold[v] = h, ![i].waits = ws, ![i].phase = ph]
        /\ spent <= paper[i].res[v]
    <2>1. PICK v \in paper[i].waits : \E spent \in Paper!Filled(paper[i].res[v]) :
            LET next == IF paper[i].lead = v /\ spent > 0 THEN {Paper!Other(v)} ELSE paper[i].waits \ {v}
            IN  paper' = [paper EXCEPT ![i].out[v] = spent, ![i].hold[v] = IF spent > 0 THEN 1 ELSE 0,
                                       ![i].waits = next,
                                       ![i].phase = IF next = {} THEN "reply" ELSE "legs"]
        BY Zenon DEF Paper!Fills
    <2>0. PICK spent \in Paper!Filled(paper[i].res[v]) :
            LET next == IF paper[i].lead = v /\ spent > 0 THEN {Paper!Other(v)} ELSE paper[i].waits \ {v}
            IN  paper' = [paper EXCEPT ![i].out[v] = spent, ![i].hold[v] = IF spent > 0 THEN 1 ELSE 0,
                                       ![i].waits = next,
                                       ![i].phase = IF next = {} THEN "reply" ELSE "legs"]
        BY <2>1, Zenon
    <2>2. v \in {"K", "P"} /\ paper[i].waits \subseteq {"K", "P"} /\ paper[i].res[v] \in Nat
        BY PaperKnown, TradeIs
    <2>3. spent \in Nat /\ spent <= paper[i].res[v]
        BY <2>2 DEF Paper!Filled
    <2> DEFINE h == IF spent > 0 THEN 1 ELSE 0
               ws == IF paper[i].lead = v /\ spent > 0 THEN {Paper!Other(v)} ELSE paper[i].waits \ {v}
               ph == IF ws = {} THEN "reply" ELSE "legs"
    <2>4. h \in 0..1 /\ ws \in SUBSET {"K", "P"}
        BY <2>2 DEF Paper!Other
    <2>5. ph \in {"legs", "reply"}
        OBVIOUS
    <2>6. paper' = [paper EXCEPT ![i].out[v] = spent, ![i].hold[v] = h, ![i].waits = ws, ![i].phase = ph]
        BY <2>0, Zenon
    <2> HIDE DEF h, ws, ph
    <2> QED
        BY <2>2, <2>3, <2>4, <2>5, <2>6
<1>2. paper[i].phase = "legs" /\ UNCHANGED <<funds, tied, reserved, realized, deposits, failed, excused>>
    BY DEF Paper!Fills, Paper!Is
<1>3. /\ paper \in [Trades -> PaperTrades] /\ paper[i] \in PaperTrades /\ Fit(paper[i])
      /\ paper[i].res[v] \in Nat
    BY PaperKnown, TradeIs
<1> DEFINE t == [paper[i] EXCEPT !.out[v] = spent, !.hold[v] = h, !.waits = ws, !.phase = ph]
<1>4. paper' = [paper EXCEPT ![i] = t]
    BY <1>1, <1>3 DEF PaperTrades
<1>5. t \in PaperTrades
    <2>1. spent \in Int /\ ph \in Paper!Running \cup Paper!Recorded \cup {"idle", "failed"}
        BY <1>3 DEF Paper!Running
    <2> QED
        BY <1>3, <2>1 DEF PaperTrades
<1>6. /\ t.phase = ph /\ t.res = paper[i].res /\ t.pay = paper[i].pay
      /\ \A w \in {"K", "P"} : t.out[w] = IF w = v THEN spent ELSE paper[i].out[w]
    BY <1>3 DEF PaperTrades
<1> HIDE DEF t
<1>7. Fit(t)
    BY <1>1, <1>2, <1>3, <1>6 DEF Fit
<1>8. /\ \A w \in {"K", "P"} : /\ CashPart(t, w) = 0 /\ TiedPart(t, w) = 0 /\ ChargedPart(t, w) = 0
                               /\ ReservedPart(t, w) = paper[i].res[w]
                               /\ CashPart(paper[i], w) = 0 /\ TiedPart(paper[i], w) = 0
                               /\ ChargedPart(paper[i], w) = 0 /\ ReservedPart(paper[i], w) = paper[i].res[w]
      /\ MadePart(t) = 0 /\ MadePart(paper[i]) = 0
    BY <1>2, <1>6 DEF CashPart, TiedPart, ChargedPart, ReservedPart, MadePart
<1>9. /\ funds' \in [{"K", "P"} -> Int] /\ tied' \in [{"K", "P"} -> Int] /\ failed' \in [{"K", "P"} -> Int]
      /\ reserved' \in [{"K", "P"} -> Int] /\ excused' \subseteq {"K", "P"}
      /\ realized' = realized + (MadePart(t) - MadePart(paper[i]))
    BY <1>2, <1>8, PaperKnown
<1>10. \A w \in {"K", "P"} :
        /\ funds'[w] - funds[w] = (CashPart(t, w) - CashPart(paper[i], w))
                                  - (ChargedPart(t, w) - ChargedPart(paper[i], w)) - (failed'[w] - failed[w])
        /\ tied'[w] - tied[w] = TiedPart(t, w) - TiedPart(paper[i], w)
        /\ reserved'[w] - reserved[w] = ReservedPart(t, w) - ReservedPart(paper[i], w)
    <2>1. \A w \in {"K", "P"} : paper[i].res[w] \in Int
        BY <1>3, TradeIs
    <2> QED
        BY <1>2, <1>8, <2>1, PaperKnown
<1>11. /\ Paper!TypeOK' /\ Paper!AccountAgrees' /\ Paper!ReservesHeld'
       /\ \A j \in Trades : Fit(paper'[j])
       /\ paper'[i] = t /\ \A j \in Trades \ {i} : paper'[j] = paper[j]
    BY <1>2, <1>4, <1>5, <1>7, <1>9, <1>10, PaperMoves
<1>12. PaidFor'
    <2>1. paper[i].phase \in Paper!Running /\ paper'[i].phase # "chased"
        BY <1>2, <1>6, <1>11 DEF Paper!Running
    <2>2. \A w \in {"K", "P"} \ excused : funds'[w] - reserved'[w] >= 0
        BY <1>2, PaperKnown
    <2> QED
        BY <1>2, <1>11, <2>1, <2>2, PaperCovers
<1> QED
    BY <1>11, <1>12 DEF PInv

\* The trade's row: what it leaves, open or closed.
LEMMA PaperFinishes ==
    ASSUME PInv, NEW i \in Trades, NEW t \in PaperTrades, Paper!Finish(i, t),
           \A v \in {"K", "P"} : t.res[v] = 0 /\ t.pay[v] = 0
    PROVE  \E u \in PaperTrades :
              /\ paper' = [paper EXCEPT ![i] = u] /\ u.phase \in {"open", "settled", "missed"} /\ Fit(u)
              /\ \A v \in {"K", "P"} : /\ CashPart(u, v) = -t.out[v] /\ ChargedPart(u, v) = 0 /\ ReservedPart(u, v) = 0
                                       /\ tied'[v] - tied[v] = TiedPart(u, v)
              /\ tied' \in [{"K", "P"} -> Int] /\ realized' = realized + MadePart(u)
<1>1. PICK ph \in {"open", "settled", "missed"} :
        /\ paper' = [paper EXCEPT ![i] = [t EXCEPT !.phase = ph]]
        /\ ph = "open" => tied' = [v \in {"K", "P"} |-> tied[v] + t.out[v]] /\ realized' = realized
        /\ ph # "open" => tied' = tied /\ realized' = realized - t.out["K"] - t.out["P"]
        /\ ph = "missed" => \A v \in {"K", "P"} : t.out[v] = 0
    <2> DEFINE open == \E v \in {"K", "P"} : t.hold[v] > 0
               moved == \E v \in {"K", "P"} : t.out[v] # 0
               ph == IF open THEN "open" ELSE IF moved THEN "settled" ELSE "missed"
    <2>1. /\ paper' = [paper EXCEPT ![i] = [t EXCEPT !.phase = ph]]
          /\ tied' = IF open THEN Paper!Plus(tied, t.out) ELSE tied
          /\ realized' = IF open THEN realized ELSE realized - t.out["K"] - t.out["P"]
        BY Zenon DEF Paper!Finish, Paper!Venues
    <2>2. Paper!Plus(tied, t.out) = [v \in {"K", "P"} |-> tied[v] + t.out[v]]
        BY DEF Paper!Plus, Paper!Venues
    <2>3. /\ ph \in {"open", "settled", "missed"} /\ (ph = "open" <=> open)
          /\ ph = "missed" => \A v \in {"K", "P"} : t.out[v] = 0
        OBVIOUS
    <2> HIDE DEF open, moved, ph
    <2> QED
        BY <2>1, <2>2, <2>3
<1> DEFINE u == [t EXCEPT !.phase = ph]
<1>2. u \in PaperTrades
    <2>1. ph \in Paper!Running \cup Paper!Recorded \cup {"idle", "failed"}
        BY DEF Paper!Recorded
    <2> QED
        BY <2>1 DEF PaperTrades
<1>3. u.phase = ph /\ u.res = t.res /\ u.pay = t.pay /\ u.out = t.out
    BY DEF PaperTrades
<1>4. paper' = [paper EXCEPT ![i] = u]
    BY <1>1
<1> HIDE DEF u
<1>5. Fit(u)
    BY <1>1, <1>3 DEF Fit
<1>6. /\ \A v \in {"K", "P"} : t.out[v] \in Int /\ t.pay[v] = 0
      /\ tied \in [{"K", "P"} -> Int] /\ realized \in Int
      /\ \A v \in {"K", "P"} : tied[v] \in Int
    BY TradeIs, PaperKnown
<1>7. \A v \in {"K", "P"} : CashPart(u, v) = -t.out[v] /\ ChargedPart(u, v) = 0 /\ ReservedPart(u, v) = 0
    BY <1>3, <1>6 DEF CashPart, ChargedPart, ReservedPart
<1>8. /\ tied' \in [{"K", "P"} -> Int]
      /\ \A v \in {"K", "P"} : tied'[v] - tied[v] = TiedPart(u, v)
    BY <1>1, <1>3, <1>6 DEF TiedPart
<1>9. realized' = realized + MadePart(u)
    <2>1. CASE ph = "settled"
        <3>1. MadePart(u) = 0 + 0 - t.out["K"] - t.out["P"]
            BY <1>3, <1>6, <2>1 DEF MadePart, Paper!Made
        <3> QED
            BY <1>1, <1>6, <2>1, <3>1
    <2>2. CASE ph = "missed"
        BY <1>1, <1>3, <1>6, <2>2 DEF MadePart
    <2>3. CASE ph = "open"
        BY <1>1, <1>3, <1>6, <2>3 DEF MadePart
    <2> QED
        BY <2>1, <2>2, <2>3
<1> QED
    BY <1>2, <1>3, <1>4, <1>5, <1>7, <1>8, <1>9

\* A running trade comes to its row.
LEMMA PaperEnds ==
    ASSUME PInv, NEW i \in Trades, NEW t \in PaperTrades, Paper!Finish(i, t),
           \A v \in {"K", "P"} : t.res[v] = 0 /\ t.pay[v] = 0,
           paper[i].phase \in {"reply", "chased", "unwind"},
           UNCHANGED <<deposits, failed, excused>>,
           funds' \in [{"K", "P"} -> Int], reserved' \in [{"K", "P"} -> Int],
           \A v \in {"K", "P"} :
                /\ funds'[v] - funds[v] = -t.out[v] + ChargedPart(paper[i], v)
                /\ reserved'[v] - reserved[v] = -ReservedPart(paper[i], v)
                /\ v \notin excused => funds'[v] - reserved'[v] >= 0
    PROVE  PInv'
<1>1. PICK u \in PaperTrades :
        /\ paper' = [paper EXCEPT ![i] = u] /\ u.phase \in {"open", "settled", "missed"} /\ Fit(u)
        /\ \A v \in {"K", "P"} : /\ CashPart(u, v) = -t.out[v] /\ ChargedPart(u, v) = 0 /\ ReservedPart(u, v) = 0
                                 /\ tied'[v] - tied[v] = TiedPart(u, v)
        /\ tied' \in [{"K", "P"} -> Int] /\ realized' = realized + MadePart(u)
    BY PaperFinishes
<1>2. /\ \A v \in {"K", "P"} : CashPart(paper[i], v) = 0 /\ TiedPart(paper[i], v) = 0
      /\ MadePart(paper[i]) = 0
    BY DEF CashPart, TiedPart, MadePart
<1>3. failed' \in [{"K", "P"} -> Int] /\ excused' \subseteq {"K", "P"}
    BY PaperKnown
<1>4. realized' = realized + (MadePart(u) - MadePart(paper[i]))
    BY <1>1, <1>2, PartsInt
<1>5. \A v \in {"K", "P"} :
        /\ funds'[v] - funds[v] = (CashPart(u, v) - CashPart(paper[i], v))
                                  - (ChargedPart(u, v) - ChargedPart(paper[i], v)) - (failed'[v] - failed[v])
        /\ tied'[v] - tied[v] = TiedPart(u, v) - TiedPart(paper[i], v)
        /\ reserved'[v] - reserved[v] = ReservedPart(u, v) - ReservedPart(paper[i], v)
    <2> SUFFICES ASSUME NEW v \in {"K", "P"}
                 PROVE  /\ funds'[v] - funds[v] = (CashPart(u, v) - CashPart(paper[i], v))
                                  - (ChargedPart(u, v) - ChargedPart(paper[i], v)) - (failed'[v] - failed[v])
                        /\ tied'[v] - tied[v] = TiedPart(u, v) - TiedPart(paper[i], v)
                        /\ reserved'[v] - reserved[v] = ReservedPart(u, v) - ReservedPart(paper[i], v)
        OBVIOUS
    <2>1. /\ t.out[v] \in Int /\ TiedPart(u, v) \in Int /\ failed[v] \in Int /\ failed'[v] = failed[v]
          /\ ChargedPart(paper[i], v) \in Int /\ ReservedPart(paper[i], v) \in Int
        BY TradeIs, PartsInt, PaperKnown
    <2> QED
        BY <1>1, <1>2, <2>1
<1>6. /\ Paper!TypeOK' /\ Paper!AccountAgrees' /\ Paper!ReservesHeld'
      /\ \A j \in Trades : Fit(paper'[j])
      /\ paper'[i] = u /\ \A j \in Trades \ {i} : paper'[j] = paper[j]
    BY <1>1, <1>3, <1>4, <1>5, PaperMoves
<1>7. PaidFor'
    <2>1. paper[i].phase \in Paper!Running /\ paper'[i].phase # "chased"
        BY <1>1, <1>6 DEF Paper!Running
    <2> QED
        BY <1>6, <2>1, PaperCovers
<1> QED
    BY <1>6, <1>7 DEF PInv

\* A running trade goes on to a step it does not wait in.
LEMMA PaperGoesOn ==
    ASSUME PInv, NEW i \in Trades, NEW t \in PaperTrades, Fit(t), paper' = [paper EXCEPT ![i] = t],
           paper[i].phase \in {"reply", "chased"}, t.phase \in {"chase", "unwind"},
           UNCHANGED <<tied, realized, deposits, failed, excused>>,
           funds' \in [{"K", "P"} -> Int], reserved' \in [{"K", "P"} -> Int],
           \A v \in {"K", "P"} :
                /\ funds'[v] - funds[v] = -t.out[v] + ChargedPart(paper[i], v)
                /\ reserved'[v] - reserved[v] = -ReservedPart(paper[i], v)
                /\ v \notin excused => funds'[v] - reserved'[v] >= 0
    PROVE  PInv'
<1>1. /\ \A v \in {"K", "P"} : /\ CashPart(paper[i], v) = 0 /\ TiedPart(paper[i], v) = 0
                               /\ CashPart(t, v) = 0 /\ TiedPart(t, v) = 0
                               /\ ChargedPart(t, v) = t.out[v] /\ ReservedPart(t, v) = 0
      /\ MadePart(paper[i]) = 0 /\ MadePart(t) = 0
    BY DEF CashPart, TiedPart, MadePart, ChargedPart, ReservedPart
<1>2. /\ failed' \in [{"K", "P"} -> Int] /\ tied' \in [{"K", "P"} -> Int] /\ excused' \subseteq {"K", "P"}
    BY PaperKnown
<1>3. realized' = realized + (MadePart(t) - MadePart(paper[i]))
    BY <1>1, PaperKnown
<1>4. \A v \in {"K", "P"} :
        /\ funds'[v] - funds[v] = (CashPart(t, v) - CashPart(paper[i], v))
                                  - (ChargedPart(t, v) - ChargedPart(paper[i], v)) - (failed'[v] - failed[v])
        /\ tied'[v] - tied[v] = TiedPart(t, v) - TiedPart(paper[i], v)
        /\ reserved'[v] - reserved[v] = ReservedPart(t, v) - ReservedPart(paper[i], v)
    <2> SUFFICES ASSUME NEW v \in {"K", "P"}
                 PROVE  /\ funds'[v] - funds[v] = (CashPart(t, v) - CashPart(paper[i], v))
                                  - (ChargedPart(t, v) - ChargedPart(paper[i], v)) - (failed'[v] - failed[v])
                        /\ tied'[v] - tied[v] = TiedPart(t, v) - TiedPart(paper[i], v)
                        /\ reserved'[v] - reserved[v] = ReservedPart(t, v) - ReservedPart(paper[i], v)
        OBVIOUS
    <2>1. /\ t.out[v] \in Int /\ failed[v] \in Int /\ failed'[v] = failed[v] /\ tied[v] \in Int /\ tied'[v] = tied[v]
          /\ ChargedPart(paper[i], v) \in Int /\ ReservedPart(paper[i], v) \in Int
        BY TradeIs, PartsInt, PaperKnown
    <2> QED
        BY <1>1, <2>1
<1>5. /\ Paper!TypeOK' /\ Paper!AccountAgrees' /\ Paper!ReservesHeld'
      /\ \A j \in Trades : Fit(paper'[j])
      /\ paper'[i] = t /\ \A j \in Trades \ {i} : paper'[j] = paper[j]
    BY <1>2, <1>3, <1>4, PaperMoves
<1>6. PaidFor'
    <2>1. paper[i].phase \in Paper!Running /\ paper'[i].phase # "chased"
        BY <1>5 DEF Paper!Running
    <2> QED
        BY <1>5, <2>1, PaperCovers
<1> QED
    BY <1>5, <1>6 DEF PInv

\* Both reports are back.
LEMMA PaperReports == ASSUME PInv, NEW i \in Trades, Paper!Reports(i) PROVE PInv'
<1> DEFINE t == [paper[i] EXCEPT !.res = Paper!Zero]
           u == [t EXCEPT !.phase = "chase"]
<1>1. /\ paper[i].phase = "reply"
      /\ reserved' = [v \in {"K", "P"} |-> reserved[v] - paper[i].res[v]]
      /\ funds' = [v \in {"K", "P"} |-> funds[v] - paper[i].out[v]]
      /\ UNCHANGED <<deposits, failed, excused>>
      /\ IF t.hold["K"] = t.hold["P"] THEN Paper!Finish(i, t)
         ELSE paper' = [paper EXCEPT ![i] = u] /\ UNCHANGED <<tied, realized>>
    BY DEF Paper!Reports, Paper!Is, Paper!Minus, Paper!Venues, Paper!Released
<1>2. /\ paper[i] \in PaperTrades /\ Fit(paper[i])
      /\ \A v \in {"K", "P"} : paper[i].res[v] \in Nat /\ paper[i].out[v] \in Int
    BY PaperKnown, TradeIs
<1>3. Paper!Zero \in [{"K", "P"} -> 0..Price] /\ \A v \in {"K", "P"} : Paper!Zero[v] = 0
    BY PaperConstants DEF Paper!Zero, Paper!Venues
<1>4. /\ t \in PaperTrades
      /\ t.res = Paper!Zero /\ t.out = paper[i].out /\ t.pay = paper[i].pay /\ t.hold = paper[i].hold
      /\ t.phase = "reply"
    BY <1>1, <1>2, <1>3 DEF PaperTrades
<1>5. /\ u \in PaperTrades
      /\ u.res = t.res /\ u.out = t.out /\ u.pay = t.pay /\ u.hold = t.hold /\ u.phase = "chase"
    <2> HIDE DEF t
    <2>1. "chase" \in Paper!Running \cup Paper!Recorded \cup {"idle", "failed"}
        BY DEF Paper!Running
    <2> QED
        BY <1>4, <2>1 DEF PaperTrades
<1> HIDE DEF t, u
<1>6. \A v \in {"K", "P"} : t.res[v] = 0 /\ t.pay[v] = 0 /\ t.out[v] = paper[i].out[v]
    BY <1>1, <1>2, <1>3, <1>4 DEF Fit
<1>7. /\ funds' \in [{"K", "P"} -> Int] /\ reserved' \in [{"K", "P"} -> Int]
      /\ \A v \in {"K", "P"} :
           /\ funds'[v] - funds[v] = -t.out[v] + ChargedPart(paper[i], v)
           /\ reserved'[v] - reserved[v] = -ReservedPart(paper[i], v)
           /\ v \notin excused => funds'[v] - reserved'[v] >= 0
    <2>1. \A v \in {"K", "P"} : /\ funds[v] \in Int /\ reserved[v] \in Nat
                                /\ v \notin excused => funds[v] - reserved[v] >= 0
                                /\ paper[i].out[v] <= paper[i].res[v]
                                /\ ChargedPart(paper[i], v) = 0 /\ ReservedPart(paper[i], v) = paper[i].res[v]
        BY <1>1, <1>2, PaperKnown DEF Fit, ChargedPart, ReservedPart
    <2> QED
        BY <1>1, <1>2, <1>6, <2>1
<1>8. CASE t.hold["K"] = t.hold["P"]
    BY <1>1, <1>4, <1>6, <1>7, <1>8, PaperEnds
<1>9. CASE t.hold["K"] # t.hold["P"]
    <2>1. Fit(u)
        BY <1>5, <1>6, <1>9 DEF Fit
    <2> QED
        BY <1>1, <1>5, <1>7, <1>9, <2>1, PaperGoesOn
<1> QED
    BY <1>8, <1>9

\* The missing leg is the one that holds nothing.
LEMMA ShortIs ==
    ASSUME NEW i \in Trades, paper[i] \in PaperTrades, paper[i].hold["K"] # paper[i].hold["P"]
    PROVE  /\ Paper!Short(i) \in {"K", "P"} /\ paper[i].hold[Paper!Short(i)] = 0
           /\ Paper!Other(Paper!Short(i)) \in {"K", "P"}
           /\ paper[i].hold[Paper!Other(Paper!Short(i))] = 1
           /\ Paper!Other(Paper!Short(i)) # Paper!Short(i)
<1>1. paper[i].hold["K"] \in 0..1 /\ paper[i].hold["P"] \in 0..1
    BY TradeIs
<1>2. \E v \in {"K", "P"} : paper[i].hold[v] = 0
    BY <1>1
<1>3. Paper!Short(i) \in {"K", "P"} /\ paper[i].hold[Paper!Short(i)] = 0
    BY <1>2, Zenon DEF Paper!Short, Paper!Venues
<1> QED
    BY <1>1, <1>3 DEF Paper!Other

\* The missing leg's order arrives.
LEMMA PaperChases == ASSUME PInv, NEW i \in Trades, Paper!Chases(i) PROVE PInv'
<1> DEFINE v == Paper!Short(i)
<1>1. /\ paper[i] \in PaperTrades /\ Fit(paper[i]) /\ paper \in [Trades -> PaperTrades]
      /\ paper[i].phase = "chase" /\ paper[i].hold["K"] # paper[i].hold["P"]
      /\ \A w \in {"K", "P"} : paper[i].res[w] = 0 /\ paper[i].pay[w] = 0
    BY PaperKnown DEF Paper!Chases, Paper!Is, Fit
<1>2. v \in {"K", "P"} /\ paper[i].hold[v] = 0
    BY <1>1, ShortIs
<1>3. PICK spent \in Paper!Filled(IF Paper!Available(v) < Price THEN Paper!Available(v) ELSE Price) :
        /\ paper' = [paper EXCEPT ![i].phase = "chased", ![i].waits = IF spent > 0 THEN {v} ELSE {},
                                  ![i].pay[v] = spent]
        /\ excused' = IF spent > 0 /\ \E j \in Trades \ {i} : paper[j].phase \in Paper!Running
                      THEN excused \cup {v} ELSE excused
    BY Zenon DEF Paper!Chases
<1>4. UNCHANGED <<funds, tied, reserved, realized, deposits, failed>>
    BY DEF Paper!Chases
<1> HIDE DEF v
<1>5. spent \in Nat /\ (spent > 0 => spent <= funds[v] - reserved[v])
    <2>1. funds[v] \in Int /\ reserved[v] \in Nat
        BY <1>2, PaperKnown
    <2> QED
        BY <2>1, PaperConstants DEF Paper!Filled, Paper!Available
<1> DEFINE ws == IF spent > 0 THEN {v} ELSE {}
           t == [paper[i] EXCEPT !.phase = "chased", !.waits = ws, !.pay[v] = spent]
<1>6. ws \in SUBSET {"K", "P"} /\ \A w : w \in ws <=> (w = v /\ spent > 0)
    BY <1>2
<1>7. paper' = [paper EXCEPT ![i].phase = "chased", ![i].waits = ws, ![i].pay[v] = spent]
    BY <1>3
<1> HIDE DEF ws
<1>8. paper' = [paper EXCEPT ![i] = t]
    BY <1>1, <1>2, <1>7 DEF PaperTrades
<1>9. t \in PaperTrades
    <2>1. "chased" \in Paper!Running \cup Paper!Recorded \cup {"idle", "failed"}
        BY DEF Paper!Running
    <2> QED
        BY <1>1, <1>2, <1>5, <1>6, <2>1 DEF PaperTrades
<1>10. /\ t.phase = "chased" /\ t.waits = ws /\ t.res = paper[i].res /\ t.out = paper[i].out /\ t.hold = paper[i].hold
       /\ \A w \in {"K", "P"} : t.pay[w] = IF w = v THEN spent ELSE paper[i].pay[w]
    BY <1>1, <1>2 DEF PaperTrades
<1> HIDE DEF t
<1>11. Fit(t)
    BY <1>1, <1>2, <1>5, <1>6, <1>10 DEF Fit
<1>12. /\ \A w \in {"K", "P"} : /\ CashPart(paper[i], w) = 0 /\ TiedPart(paper[i], w) = 0
                                /\ CashPart(t, w) = 0 /\ TiedPart(t, w) = 0
                                /\ ChargedPart(t, w) = paper[i].out[w] /\ ReservedPart(t, w) = 0
                                /\ ChargedPart(paper[i], w) = paper[i].out[w] /\ ReservedPart(paper[i], w) = 0
       /\ MadePart(paper[i]) = 0 /\ MadePart(t) = 0
    BY <1>1, <1>10 DEF CashPart, TiedPart, MadePart, ChargedPart, ReservedPart
<1>13. /\ failed' \in [{"K", "P"} -> Int] /\ tied' \in [{"K", "P"} -> Int] /\ funds' \in [{"K", "P"} -> Int]
       /\ reserved' \in [{"K", "P"} -> Int] /\ realized' = realized + (MadePart(t) - MadePart(paper[i]))
    BY <1>4, <1>12, PaperKnown
<1>14. excused' \subseteq {"K", "P"} /\ excused \subseteq excused'
    BY <1>2, <1>3, PaperKnown
<1>15. \A w \in {"K", "P"} :
        /\ funds'[w] - funds[w] = (CashPart(t, w) - CashPart(paper[i], w))
                                  - (ChargedPart(t, w) - ChargedPart(paper[i], w)) - (failed'[w] - failed[w])
        /\ tied'[w] - tied[w] = TiedPart(t, w) - TiedPart(paper[i], w)
        /\ reserved'[w] - reserved[w] = ReservedPart(t, w) - ReservedPart(paper[i], w)
    <2>1. \A w \in {"K", "P"} : paper[i].out[w] \in Int
        BY <1>1, TradeIs
    <2> QED
        BY <1>4, <1>12, <2>1, PaperKnown
<1>16. /\ Paper!TypeOK' /\ Paper!AccountAgrees' /\ Paper!ReservesHeld'
       /\ \A j \in Trades : Fit(paper'[j])
       /\ paper'[i] = t /\ \A j \in Trades \ {i} : paper'[j] = paper[j]
    BY <1>4, <1>8, <1>9, <1>11, <1>13, <1>14, <1>15, PaperMoves
<1>17. PaidFor'
    <2> SUFFICES ASSUME NEW w \in {"K", "P"} \ excused'
                 PROVE  /\ funds'[w] - reserved'[w] >= 0
                        /\ \A k \in Trades : paper'[k].phase = "chased" /\ w \in paper'[k].waits =>
                              /\ funds'[w] - reserved'[w] >= paper'[k].pay[w]
                              /\ \A j \in Trades \ {k} : paper'[j].phase \notin Paper!Running
        BY DEF PaidFor
    <2>1. funds'[w] - reserved'[w] >= 0
        BY <1>4, <1>14, PaperKnown
    <2>2. ASSUME NEW k \in Trades \ {i}, paper'[k].phase = "chased", w \in paper'[k].waits PROVE FALSE
        <3>1. paper[k].phase = "chased" /\ w \in paper[k].waits /\ w \notin excused /\ paper[i].phase \in Paper!Running
            BY <1>1, <1>14, <1>16, <2>2 DEF Paper!Running
        <3> QED
            BY <3>1 DEF PInv, PaidFor
    <2>3. ASSUME w \in t.waits
          PROVE  /\ funds'[w] - reserved'[w] >= t.pay[w]
                 /\ \A j \in Trades \ {i} : paper'[j].phase \notin Paper!Running
        <3>1. w = v /\ spent > 0 /\ t.pay[w] = spent
            BY <1>6, <1>10, <2>3
        <3>2. funds'[w] - reserved'[w] >= t.pay[w]
            BY <1>4, <1>5, <3>1, PaperKnown
        <3>3. \A j \in Trades \ {i} : paper[j].phase \notin Paper!Running
            BY <1>3, <3>1
        <3> QED
            BY <1>16, <3>2, <3>3
    <2> QED
        BY <1>16, <2>1, <2>2, <2>3
<1> QED
    BY <1>16, <1>17 DEF PInv

\* The missing leg's report is back.
LEMMA PaperChaseReports == ASSUME PInv, NEW i \in Trades, Paper!ChaseReports(i) PROVE PInv'
<1> DEFINE v == Paper!Short(i)
           spent == paper[i].pay[v]
           h == IF spent > 0 THEN 1 ELSE 0
           t == [paper[i] EXCEPT !.waits = {}, !.pay = Paper!Zero, !.out[v] = @ + spent, !.hold[v] = h]
           u == [t EXCEPT !.phase = "unwind"]
<1>1. /\ paper[i] \in PaperTrades /\ Fit(paper[i])
      /\ paper[i].phase = "chased" /\ paper[i].hold["K"] # paper[i].hold["P"]
      /\ \A w \in {"K", "P"} : /\ paper[i].res[w] = 0 /\ paper[i].out[w] \in Int /\ paper[i].pay[w] \in Nat
                               /\ (w \in paper[i].waits <=> paper[i].pay[w] > 0)
    BY PaperKnown, TradeIs DEF Paper!ChaseReports, Paper!Is, Fit
<1>2. v \in {"K", "P"} /\ paper[i].hold[v] = 0
    BY <1>1, ShortIs
<1>3. /\ funds' = [funds EXCEPT ![v] = @ - spent]
      /\ IF spent > 0 THEN Paper!Finish(i, t)
         ELSE paper' = [paper EXCEPT ![i] = u] /\ UNCHANGED <<tied, realized>>
      /\ UNCHANGED <<reserved, deposits, failed, excused>>
    BY Zenon DEF Paper!ChaseReports
<1> HIDE DEF v
<1>4. Paper!Zero \in [{"K", "P"} -> Nat] /\ \A w \in {"K", "P"} : Paper!Zero[w] = 0
    BY DEF Paper!Zero, Paper!Venues
<1>5. spent \in Nat /\ h \in 0..1
    BY <1>1, <1>2
<1>6. t \in PaperTrades
    <2> DEFINE o == [paper[i].out EXCEPT ![v] = @ + spent]
               q == [paper[i].hold EXCEPT ![v] = h]
    <2>1. o \in [{"K", "P"} -> Int] /\ q \in [{"K", "P"} -> 0..1]
        BY <1>1, <1>2, <1>5 DEF PaperTrades
    <2>2. t = [paper[i] EXCEPT !.waits = {}, !.pay = Paper!Zero, !.out = o, !.hold = q]
        BY <1>1 DEF PaperTrades
    <2>3. {} \in SUBSET {"K", "P"}
        OBVIOUS
    <2> HIDE DEF o, q, t
    <2> QED
        BY <1>1, <1>4, <2>1, <2>2, <2>3 DEF PaperTrades
<1>7. /\ t.phase = "chased" /\ t.res = paper[i].res /\ t.pay = Paper!Zero
      /\ \A w \in {"K", "P"} : /\ t.out[w] = IF w = v THEN paper[i].out[w] + spent ELSE paper[i].out[w]
                               /\ t.hold[w] = IF w = v THEN h ELSE paper[i].hold[w]
    <2> HIDE DEF spent, h
    <2> QED
        BY <1>1, <1>2 DEF PaperTrades
<1> HIDE DEF t
<1>8. /\ u \in PaperTrades
      /\ u.res = t.res /\ u.out = t.out /\ u.pay = t.pay /\ u.hold = t.hold /\ u.phase = "unwind"
    <2>1. "unwind" \in Paper!Running \cup Paper!Recorded \cup {"idle", "failed"}
        BY DEF Paper!Running
    <2> QED
        BY <1>6, <2>1 DEF PaperTrades
<1> HIDE DEF u
<1>9. \A w \in {"K", "P"} : t.res[w] = 0 /\ t.pay[w] = 0
    BY <1>1, <1>4, <1>7
<1>10. /\ funds' \in [{"K", "P"} -> Int] /\ reserved' \in [{"K", "P"} -> Int]
       /\ \A w \in {"K", "P"} : funds'[w] = IF w = v THEN funds[w] - spent ELSE funds[w]
    BY <1>2, <1>3, <1>5, PaperKnown
<1>11. \A w \in {"K", "P"} :
           /\ funds'[w] - funds[w] = -t.out[w] + ChargedPart(paper[i], w)
           /\ reserved'[w] - reserved[w] = -ReservedPart(paper[i], w)
           /\ w \notin excused => funds'[w] - reserved'[w] >= 0
    <2> SUFFICES ASSUME NEW w \in {"K", "P"}
                 PROVE  /\ funds'[w] - funds[w] = -t.out[w] + ChargedPart(paper[i], w)
                        /\ reserved'[w] - reserved[w] = -ReservedPart(paper[i], w)
                        /\ w \notin excused => funds'[w] - reserved'[w] >= 0
        OBVIOUS
    <2>1. /\ ChargedPart(paper[i], w) = paper[i].out[w] /\ ReservedPart(paper[i], w) = 0
          /\ funds[w] \in Int /\ reserved[w] \in Nat /\ reserved'[w] = reserved[w] /\ paper[i].out[w] \in Int
          /\ w \notin excused => funds[w] - reserved[w] >= 0
        BY <1>1, <1>3, PaperKnown DEF ChargedPart, ReservedPart
    <2>2. w = v /\ spent > 0 /\ w \notin excused => funds[w] - reserved[w] >= spent
        <3>1. paper[i].pay[w] > 0 => w \in paper[i].waits
            BY <1>1
        <3>2. w \notin excused /\ w \in paper[i].waits => funds[w] - reserved[w] >= paper[i].pay[w]
            BY <1>1 DEF PInv, PaidFor
        <3> QED
            BY <3>1, <3>2
    <2>3. funds'[w] - funds[w] = -t.out[w] + ChargedPart(paper[i], w)
        <3> HIDE DEF spent, h
        <3>1. /\ funds'[w] = IF w = v THEN funds[w] - spent ELSE funds[w]
              /\ t.out[w] = IF w = v THEN paper[i].out[w] + spent ELSE paper[i].out[w]
            BY <1>7, <1>10
        <3>2. CASE w = v
            <4>1. funds'[w] = funds[w] - spent /\ t.out[w] = paper[i].out[w] + spent
                BY <3>1, <3>2
            <4> QED
                BY <1>5, <2>1, <4>1
        <3>3. CASE w # v
            BY <2>1, <3>1, <3>3
        <3> QED
            BY <3>2, <3>3
    <2>4. w \notin excused => funds'[w] - reserved'[w] >= 0
        <3> HIDE DEF spent, h
        <3>1. funds'[w] = IF w = v THEN funds[w] - spent ELSE funds[w]
            BY <1>10
        <3> QED
            BY <1>5, <2>1, <2>2, <3>1
    <2> QED
        BY <2>1, <2>3, <2>4
<1>12. CASE spent > 0
    BY <1>1, <1>3, <1>6, <1>9, <1>10, <1>11, <1>12, PaperEnds
<1>13. CASE ~(spent > 0)
    <2>1. u.hold["K"] # u.hold["P"]
        BY <1>1, <1>2, <1>7, <1>8, <1>13
    <2>2. Fit(u)
        BY <1>8, <1>9, <2>1 DEF Fit
    <2> QED
        BY <1>1, <1>3, <1>8, <1>10, <1>11, <1>13, <2>2, PaperGoesOn
<1> QED
    BY <1>12, <1>13

\* The lone leg is sold back, or finds no buyer.
LEMMA PaperUnwinds == ASSUME PInv, NEW i \in Trades, Paper!Unwinds(i) PROVE PInv'
<1> DEFINE v == Paper!Other(Paper!Short(i))
<1>1. /\ paper[i] \in PaperTrades /\ Fit(paper[i])
      /\ paper[i].phase = "unwind" /\ paper[i].hold["K"] # paper[i].hold["P"]
      /\ \A w \in {"K", "P"} : paper[i].res[w] = 0 /\ paper[i].pay[w] = 0 /\ paper[i].out[w] \in Int
    BY PaperKnown, TradeIs DEF Paper!Unwinds, Paper!Is, Fit
<1>2. v \in {"K", "P"}
    BY <1>1, ShortIs
<1>3. /\ UNCHANGED <<reserved, deposits, failed, excused>>
      /\ \/ \E spent \in 1..2 :
              /\ funds' = [funds EXCEPT ![v] = @ + 2 - spent]
              /\ Paper!Finish(i, [paper[i] EXCEPT !.out[v] = @ + spent - 2, !.hold[v] = 0])
         \/ funds' = funds /\ Paper!Finish(i, paper[i])
    BY Zenon DEF Paper!Unwinds, Paper!Dollar
<1> HIDE DEF v
<1>4. \A w \in {"K", "P"} :
        /\ ChargedPart(paper[i], w) = paper[i].out[w] /\ ReservedPart(paper[i], w) = 0
        /\ funds[w] \in Int /\ reserved[w] \in Nat
        /\ w \notin excused => funds[w] - reserved[w] >= 0
    BY <1>1, PaperKnown DEF ChargedPart, ReservedPart
<1>5. reserved' \in [{"K", "P"} -> Int] /\ funds \in [{"K", "P"} -> Int]
    BY <1>3, PaperKnown
<1>6. CASE funds' = funds /\ Paper!Finish(i, paper[i])
    <2>1. \A w \in {"K", "P"} :
            /\ funds'[w] - funds[w] = -paper[i].out[w] + ChargedPart(paper[i], w)
            /\ reserved'[w] - reserved[w] = -ReservedPart(paper[i], w)
            /\ w \notin excused => funds'[w] - reserved'[w] >= 0
        BY <1>1, <1>3, <1>4, <1>6
    <2> QED
        BY <1>1, <1>3, <1>5, <1>6, <2>1, PaperEnds
<1>7. ASSUME NEW spent \in 1..2, funds' = [funds EXCEPT ![v] = @ + 2 - spent],
             Paper!Finish(i, [paper[i] EXCEPT !.out[v] = @ + spent - 2, !.hold[v] = 0])
      PROVE  PInv'
    <2> DEFINE t == [paper[i] EXCEPT !.out[v] = @ + spent - 2, !.hold[v] = 0]
               o == [paper[i].out EXCEPT ![v] = @ + spent - 2]
               q == [paper[i].hold EXCEPT ![v] = 0]
    <2>1. o \in [{"K", "P"} -> Int] /\ q \in [{"K", "P"} -> 0..1]
        BY <1>1, <1>2 DEF PaperTrades
    <2>2. t = [paper[i] EXCEPT !.out = o, !.hold = q]
        BY <1>1 DEF PaperTrades
    <2>3. \A w \in {"K", "P"} : o[w] = IF w = v THEN paper[i].out[w] + (spent - 2) ELSE paper[i].out[w]
        BY <1>1, <1>2 DEF PaperTrades
    <2>4. Paper!Finish(i, t)
        BY <1>7
    <2> HIDE DEF o, q, t
    <2>5. t \in PaperTrades
        BY <1>1, <2>1, <2>2 DEF PaperTrades
    <2>6. t.res = paper[i].res /\ t.pay = paper[i].pay /\ t.out = o
        BY <1>1, <2>2 DEF PaperTrades
    <2>7. \A w \in {"K", "P"} : t.res[w] = 0 /\ t.pay[w] = 0
        BY <1>1, <2>6
    <2>8. /\ funds' \in [{"K", "P"} -> Int]
          /\ \A w \in {"K", "P"} : funds'[w] = IF w = v THEN funds[w] + (2 - spent) ELSE funds[w]
        BY <1>2, <1>4, <1>5, <1>7
    <2>9. ASSUME NEW w \in {"K", "P"}
          PROVE  /\ funds'[w] - funds[w] = -t.out[w] + ChargedPart(paper[i], w)
                 /\ reserved'[w] - reserved[w] = -ReservedPart(paper[i], w)
                 /\ w \notin excused => funds'[w] - reserved'[w] >= 0
        <3>1. paper[i].out[w] \in Int /\ reserved'[w] = reserved[w]
            BY <1>1, <1>3
        <3>2. CASE w = v
            <4>1. funds'[w] = funds[w] + (2 - spent) /\ t.out[w] = paper[i].out[w] + (spent - 2)
                BY <2>3, <2>6, <2>8, <3>2
            <4> QED
                BY <1>4, <3>1, <4>1
        <3>3. CASE w # v
            <4>1. funds'[w] = funds[w] /\ t.out[w] = paper[i].out[w]
                BY <2>3, <2>6, <2>8, <3>3
            <4> QED
                BY <1>4, <3>1, <4>1
        <3> QED
            BY <3>2, <3>3
    <2> QED
        BY <1>1, <1>3, <1>5, <2>4, <2>5, <2>7, <2>8, <2>9, PaperEnds
<1> QED
    BY <1>3, <1>6, <1>7

\* A task fails.
LEMMA PaperFails == ASSUME PInv, NEW i \in Trades, Paper!Fails(i) PROVE PInv'
<1> DEFINE t == [Paper!Idle EXCEPT !.phase = "failed"]
<1>1. /\ paper[i].phase \in {"legs", "reply", "chase", "chased", "unwind"}
      /\ reserved' = [v \in {"K", "P"} |-> reserved[v] - paper[i].res[v]]
      /\ failed' = IF paper[i].phase \in {"legs", "reply"} THEN failed
                   ELSE [v \in {"K", "P"} |-> failed[v] + paper[i].out[v]]
      /\ paper' = [paper EXCEPT ![i] = t]
      /\ UNCHANGED <<funds, tied, realized, deposits, excused>>
    BY DEF Paper!Fails, Paper!Minus, Paper!Plus, Paper!Venues, Paper!Running
<1>2. /\ paper[i] \in PaperTrades /\ Fit(paper[i])
      /\ \A v \in {"K", "P"} : paper[i].res[v] \in Nat /\ paper[i].out[v] \in Int
    BY PaperKnown, TradeIs
<1>3. t \in PaperTrades /\ t.phase = "failed" /\ t.res = Paper!Idle.res /\ t.out = Paper!Idle.out /\ t.pay = Paper!Idle.pay
    BY IdleIs DEF PaperTrades
<1> HIDE DEF t
<1>4. \A v \in {"K", "P"} : t.res[v] = 0 /\ t.out[v] = 0 /\ t.pay[v] = 0
    BY <1>3, IdleIs
<1>5. Fit(t)
    BY <1>3, <1>4 DEF Fit
<1>6. /\ \A v \in {"K", "P"} : /\ CashPart(t, v) = 0 /\ TiedPart(t, v) = 0 /\ ChargedPart(t, v) = 0
                               /\ ReservedPart(t, v) = 0
                               /\ CashPart(paper[i], v) = 0 /\ TiedPart(paper[i], v) = 0
      /\ MadePart(t) = 0 /\ MadePart(paper[i]) = 0
    BY <1>1, <1>3, <1>4 DEF CashPart, TiedPart, ChargedPart, ReservedPart, MadePart
<1>7. /\ funds \in [{"K", "P"} -> Int] /\ tied \in [{"K", "P"} -> Int] /\ failed \in [{"K", "P"} -> Int]
      /\ reserved \in [{"K", "P"} -> Nat] /\ excused \subseteq {"K", "P"} /\ realized \in Int
    BY PaperKnown
<1>8. /\ failed' \in [{"K", "P"} -> Int] /\ reserved' \in [{"K", "P"} -> Int]
      /\ realized' = realized + (MadePart(t) - MadePart(paper[i]))
    BY <1>1, <1>2, <1>6, <1>7
<1>9. ASSUME NEW v \in {"K", "P"}
      PROVE  /\ funds'[v] - funds[v] = (CashPart(t, v) - CashPart(paper[i], v))
                                  - (ChargedPart(t, v) - ChargedPart(paper[i], v)) - (failed'[v] - failed[v])
             /\ tied'[v] - tied[v] = TiedPart(t, v) - TiedPart(paper[i], v)
             /\ reserved'[v] - reserved[v] = ReservedPart(t, v) - ReservedPart(paper[i], v)
             /\ v \notin excused => funds'[v] - reserved'[v] >= 0
    <2>1. /\ funds[v] \in Int /\ tied[v] \in Int /\ failed[v] \in Int /\ reserved[v] \in Nat
          /\ paper[i].res[v] \in Nat /\ paper[i].out[v] \in Int
          /\ funds'[v] = funds[v] /\ tied'[v] = tied[v] /\ reserved'[v] = reserved[v] - paper[i].res[v]
          /\ v \notin excused => funds[v] - reserved[v] >= 0
        BY <1>1, <1>2, PaperKnown
    <2>2. CASE paper[i].phase \in {"legs", "reply"}
        <3>1. /\ failed'[v] = failed[v] /\ ChargedPart(paper[i], v) = 0
              /\ ReservedPart(paper[i], v) = paper[i].res[v]
            BY <1>1, <2>2 DEF ChargedPart, ReservedPart
        <3> QED
            BY <1>6, <2>1, <3>1
    <2>3. CASE paper[i].phase \notin {"legs", "reply"}
        <3>1. /\ failed'[v] = failed[v] + paper[i].out[v] /\ ChargedPart(paper[i], v) = paper[i].out[v]
              /\ ReservedPart(paper[i], v) = 0 /\ paper[i].res[v] = 0
            BY <1>1, <1>2, <2>3 DEF ChargedPart, ReservedPart, Fit
        <3> QED
            BY <1>6, <2>1, <3>1
    <2> QED
        BY <2>2, <2>3
<1>10. /\ Paper!TypeOK' /\ Paper!AccountAgrees' /\ Paper!ReservesHeld'
       /\ \A j \in Trades : Fit(paper'[j])
       /\ paper'[i] = t /\ \A j \in Trades \ {i} : paper'[j] = paper[j]
    BY <1>1, <1>3, <1>5, <1>7, <1>8, <1>9, PaperMoves, ZenonT(40)
<1>11. PaidFor'
    <2>1. paper[i].phase \in Paper!Running /\ paper'[i].phase # "chased"
        BY <1>1, <1>3, <1>10 DEF Paper!Running
    <2> QED
        BY <1>1, <1>9, <1>10, <2>1, PaperCovers
<1> QED
    BY <1>10, <1>11 DEF PInv

\* An open trade is settled.
LEMMA PaperSettles == ASSUME PInv, NEW i \in Trades, Paper!Settles(i) PROVE PInv'
<1>1. PICK won \in SUBSET {"K", "P"} :
        LET pay == [v \in {"K", "P"} |-> IF v \in won THEN 2 * paper[i].hold[v] ELSE 0]
            t == [paper[i] EXCEPT !.pay = pay, !.phase = "settled"]
        IN  /\ paper' = [paper EXCEPT ![i] = t]
            /\ funds' = [v \in {"K", "P"} |-> funds[v] + pay[v]]
            /\ realized' = realized + pay["K"] + pay["P"] - t.out["K"] - t.out["P"]
    BY Zenon DEF Paper!Settles, Paper!Plus, Paper!Venues, Paper!Dollar
<1> DEFINE pay == [v \in {"K", "P"} |-> IF v \in won THEN 2 * paper[i].hold[v] ELSE 0]
           t == [paper[i] EXCEPT !.pay = pay, !.phase = "settled"]
<1>2. /\ paper' = [paper EXCEPT ![i] = t]
      /\ funds' = [v \in {"K", "P"} |-> funds[v] + pay[v]]
      /\ realized' = realized + pay["K"] + pay["P"] - t.out["K"] - t.out["P"]
    BY <1>1, Zenon
<1>3. /\ paper[i].phase = "open" /\ tied' = [v \in {"K", "P"} |-> tied[v] - paper[i].out[v]]
      /\ UNCHANGED <<reserved, deposits, failed, excused>>
    BY DEF Paper!Settles, Paper!Is, Paper!Untied, Paper!Minus, Paper!Venues
<1>4. /\ paper[i] \in PaperTrades /\ Fit(paper[i])
      /\ \A v \in {"K", "P"} : /\ paper[i].res[v] \in Nat /\ paper[i].out[v] \in Int /\ paper[i].hold[v] \in 0..1
                               /\ paper[i].res[v] = 0 /\ paper[i].pay[v] = 0
    BY <1>3, PaperKnown, TradeIs DEF Fit
<1>5. pay \in [{"K", "P"} -> Nat]
    BY <1>4
<1> HIDE DEF pay
<1>6. t \in PaperTrades /\ t.phase = "settled" /\ t.pay = pay /\ t.out = paper[i].out /\ t.res = paper[i].res
    <2>1. "settled" \in Paper!Running \cup Paper!Recorded \cup {"idle", "failed"}
        BY DEF Paper!Recorded
    <2> QED
        BY <1>4, <1>5, <2>1 DEF PaperTrades
<1> HIDE DEF t
<1>7. Fit(t)
    BY <1>4, <1>6 DEF Fit
<1>8. /\ \A v \in {"K", "P"} : /\ CashPart(t, v) = pay[v] - paper[i].out[v] /\ TiedPart(t, v) = 0
                               /\ ChargedPart(t, v) = 0 /\ ReservedPart(t, v) = 0
                               /\ CashPart(paper[i], v) = -paper[i].out[v] /\ TiedPart(paper[i], v) = paper[i].out[v]
                               /\ ChargedPart(paper[i], v) = 0 /\ ReservedPart(paper[i], v) = 0
      /\ MadePart(t) = pay["K"] + pay["P"] - t.out["K"] - t.out["P"] /\ MadePart(paper[i]) = 0
    BY <1>3, <1>4, <1>6 DEF CashPart, TiedPart, ChargedPart, ReservedPart, MadePart, Paper!Made
<1>9. /\ funds \in [{"K", "P"} -> Int] /\ tied \in [{"K", "P"} -> Int] /\ failed \in [{"K", "P"} -> Int]
      /\ reserved \in [{"K", "P"} -> Nat] /\ excused \subseteq {"K", "P"} /\ realized \in Int
    BY PaperKnown
<1>10. /\ failed' \in [{"K", "P"} -> Int] /\ reserved' \in [{"K", "P"} -> Int] /\ tied' \in [{"K", "P"} -> Int]
       /\ funds' \in [{"K", "P"} -> Int]
    BY <1>2, <1>3, <1>4, <1>5, <1>9
<1>11. realized' = realized + (MadePart(t) - MadePart(paper[i]))
    BY <1>2, <1>4, <1>5, <1>6, <1>8, <1>9
<1>12. ASSUME NEW v \in {"K", "P"}
      PROVE  /\ funds'[v] - funds[v] = (CashPart(t, v) - CashPart(paper[i], v))
                                  - (ChargedPart(t, v) - ChargedPart(paper[i], v)) - (failed'[v] - failed[v])
             /\ tied'[v] - tied[v] = TiedPart(t, v) - TiedPart(paper[i], v)
             /\ reserved'[v] - reserved[v] = ReservedPart(t, v) - ReservedPart(paper[i], v)
             /\ funds[v] \in Int /\ funds'[v] \in Int /\ reserved[v] \in Nat
             /\ funds'[v] >= funds[v] /\ reserved'[v] = reserved[v]
    <2>1. /\ funds[v] \in Int /\ tied[v] \in Int /\ failed[v] \in Int /\ reserved[v] \in Nat
          /\ pay[v] \in Nat /\ paper[i].out[v] \in Int
        BY <1>4, <1>5, PaperKnown
    <2>2. /\ funds'[v] = funds[v] + pay[v] /\ tied'[v] = tied[v] - paper[i].out[v]
          /\ reserved'[v] = reserved[v] /\ failed'[v] = failed[v]
        BY <1>2, <1>3
    <2> QED
        BY <1>8, <2>1, <2>2
<1>13. /\ Paper!TypeOK' /\ Paper!AccountAgrees' /\ Paper!ReservesHeld'
       /\ \A j \in Trades : Fit(paper'[j])
       /\ paper'[i] = t /\ \A j \in Trades \ {i} : paper'[j] = paper[j]
    BY <1>2, <1>3, <1>6, <1>7, <1>9, <1>10, <1>11, <1>12, PaperMoves, ZenonT(40)
<1>14. PaidFor'
    <2> SUFFICES ASSUME NEW w \in {"K", "P"} \ excused
                 PROVE  /\ funds'[w] - reserved'[w] >= 0
                        /\ \A k \in Trades : paper'[k].phase = "chased" /\ w \in paper'[k].waits =>
                              /\ funds'[w] - reserved'[w] >= paper'[k].pay[w]
                              /\ \A j \in Trades \ {k} : paper'[j].phase \notin Paper!Running
        BY <1>3 DEF PaidFor
    <2>1. /\ funds[w] \in Int /\ funds'[w] \in Int /\ reserved[w] \in Nat
          /\ funds'[w] >= funds[w] /\ reserved'[w] = reserved[w]
          /\ funds[w] - reserved[w] >= 0
        BY <1>12, PaperKnown
    <2>2. ASSUME NEW k \in Trades, paper'[k].phase = "chased", w \in paper'[k].waits
          PROVE  /\ funds'[w] - reserved'[w] >= paper'[k].pay[w]
                 /\ \A j \in Trades \ {k} : paper'[j].phase \notin Paper!Running
        <3>1. k # i /\ paper'[k] = paper[k]
            BY <1>6, <1>13, <2>2
        <3>2. /\ funds[w] - reserved[w] >= paper[k].pay[w]
              /\ \A j \in Trades \ {k} : paper[j].phase \notin Paper!Running
            BY <2>2, <3>1 DEF PInv, PaidFor
        <3>3. paper[k].pay[w] \in Nat
            BY PaperKnown, TradeIs
        <3>4. \A j \in Trades \ {k} : paper'[j].phase \notin Paper!Running
            BY <1>6, <1>13, <3>2 DEF Paper!Running
        <3>5. PICK n \in Nat : paper[k].pay[w] = n /\ paper'[k].pay[w] = n
            BY <3>1, <3>3
        <3>6. funds'[w] - reserved'[w] >= n
            BY <2>1, <3>2, <3>5
        <3> QED
            BY <3>4, <3>5, <3>6
    <2>3. funds'[w] - reserved'[w] >= 0
        BY <2>1
    <2> QED
        BY <2>2, <2>3, Zenon
<1> QED
    BY <1>13, <1>14 DEF PInv

LEMMA PaperInit == Paper!Init => PInv
<1> SUFFICES ASSUME Paper!Init PROVE PInv
    OBVIOUS
<1>1. /\ paper = [i \in Trades |-> Paper!Idle] /\ deposits \in Deposits
      /\ funds = [v \in {"K", "P"} |-> deposits]
      /\ tied = Paper!Zero /\ reserved = Paper!Zero /\ realized = 0 /\ failed = Paper!Zero /\ excused = {}
    BY DEF Paper!Init, Paper!Venues
<1>2. /\ Paper!Zero \in [{"K", "P"} -> Nat] /\ Paper!Zero \in [{"K", "P"} -> Int]
      /\ \A v \in {"K", "P"} : Paper!Zero[v] = 0
    BY DEF Paper!Zero, Paper!Venues
<1>3. /\ paper \in [Trades -> PaperTrades] /\ \A i \in Trades : paper[i] = Paper!Idle
      /\ funds \in [{"K", "P"} -> Int]
    BY <1>1, IdleIs, PaperConstants
<1>4. Paper!TypeOK
    BY <1>1, <1>2, <1>3, PaperTypes
<1>5. \A i \in Trades : Fit(paper[i])
    BY <1>3, IdleIs DEF Fit
<1>6. Books(paper, funds, tied, realized, deposits, failed, reserved)
    <2>1. \A P : "idle" \notin P => Of(P, paper) = {}
        BY <1>3, IdleIs DEF Of
    <2>2. /\ \A v \in {"K", "P"} : /\ CashSum(paper, v) = 0 /\ TiedSum(paper, v) = 0
                                   /\ ChargedSum(paper, v) = 0 /\ ReservedSum(paper, v) = 0
          /\ MadeSum(paper) = 0
        BY <2>1, SumNothing DEF CashSum, TiedSum, ChargedSum, ReservedSum, MadeSum
    <2> QED
        BY <1>1, <1>2, <2>2, PaperConstants DEF Books
<1>7. PaidFor
    BY <1>1, <1>2, <1>3, IdleIs, PaperConstants DEF PaidFor
<1> QED
    BY <1>4, <1>5, <1>6, <1>7, BooksAre DEF PInv

\* A restart works it all out from the rows.
LEMMA PaperRestarts == ASSUME PInv, Paper!Restarts PROVE PInv'
<1>1. /\ paper' = [i \in Trades |-> IF paper[i].phase \in {"open", "settled", "missed"} THEN paper[i]
                                    ELSE IF paper[i].phase = "idle" THEN Paper!Idle
                                    ELSE [Paper!Idle EXCEPT !.phase = "failed"]]
      /\ deposits' \in Deposits
      /\ funds' = [v \in {"K", "P"} |-> Paper!CashOf(paper', deposits', v)]
      /\ tied' = [v \in {"K", "P"} |-> Paper!TiedOf(paper', v)]
      /\ realized' = Paper!RealizedOf(paper')
      /\ reserved' = Paper!Zero /\ failed' = Paper!Zero
      /\ excused' = IF deposits' < deposits THEN {"K", "P"} ELSE {v \in {"K", "P"} : funds'[v] < 0}
    BY DEF Paper!Restarts, Paper!Is, Paper!Venues, Paper!Recorded
<1>2. /\ paper \in [Trades -> PaperTrades] /\ \A i \in Trades : Fit(paper[i])
    BY PaperTypes, Zenon DEF PInv
<1> DEFINE t == [Paper!Idle EXCEPT !.phase = "failed"]
<1>3. t \in PaperTrades /\ t.phase = "failed" /\ t.res = Paper!Idle.res /\ t.out = Paper!Idle.out /\ t.pay = Paper!Idle.pay
    BY IdleIs DEF PaperTrades
<1>4. \A i \in Trades : \/ paper[i].phase \in {"open", "settled", "missed"} /\ paper'[i] = paper[i]
                        \/ paper'[i] = Paper!Idle
                        \/ paper'[i] = t
    BY <1>1
<1> HIDE DEF t
<1>5. \A i \in Trades : /\ paper'[i].phase \in {"open", "settled", "missed", "idle", "failed"}
                        /\ paper'[i] \in PaperTrades /\ Fit(paper'[i])
    BY <1>2, <1>3, <1>4, IdleIs DEF Fit
<1>6. paper' \in [Trades -> PaperTrades]
    BY <1>1, <1>5
<1>7. /\ Paper!Zero \in [{"K", "P"} -> Nat] /\ Paper!Zero \in [{"K", "P"} -> Int]
      /\ \A v \in {"K", "P"} : Paper!Zero[v] = 0
    BY DEF Paper!Zero, Paper!Venues
<1>8. /\ \A v \in {"K", "P"} : funds'[v] = deposits' + CashSum(paper', v) /\ tied'[v] = TiedSum(paper', v)
      /\ realized' = MadeSum(paper')
    BY <1>1, RowsSum
<1>9. /\ \A v \in {"K", "P"} : /\ CashSum(paper', v) \in Int /\ TiedSum(paper', v) \in Int
      /\ MadeSum(paper') \in Int
    BY <1>6, SumsInt, Zenon
<1>10. \A v \in {"K", "P"} : ChargedSum(paper', v) = 0 /\ ReservedSum(paper', v) = 0
    <2>1. Of({"chase", "chased", "unwind"}, paper') = {} /\ Of({"legs", "reply"}, paper') = {}
        BY <1>5 DEF Of
    <2> QED
        BY <2>1, SumNothing DEF ChargedSum, ReservedSum
<1>11. deposits' \in Int
    BY <1>1, PaperConstants
<1>12. Books(paper', funds', tied', realized', deposits', failed', reserved')
    BY <1>1, <1>7, <1>8, <1>9, <1>10, <1>11 DEF Books
<1>13. funds' \in [{"K", "P"} -> Int] /\ tied' \in [{"K", "P"} -> Int] /\ realized' \in Int
    <2>1. \A v \in {"K", "P"} : funds'[v] \in Int /\ tied'[v] \in Int
        BY <1>8, <1>9, <1>11
    <2> QED
        BY <1>1, <1>8, <1>9, <2>1
<1>14. Paper!TypeOK'
    <2>1. excused' \subseteq {"K", "P"}
        BY <1>1
    <2> QED
        BY <1>1, <1>6, <1>7, <1>13, <2>1, PaperTypesNext
<1>15. PaidFor'
    <2> SUFFICES ASSUME NEW v \in {"K", "P"} \ excused'
                 PROVE  /\ funds'[v] - reserved'[v] >= 0
                        /\ \A i \in Trades : paper'[i].phase # "chased"
        BY DEF PaidFor
    <2>1. funds'[v] \in Int /\ ~(funds'[v] < 0) /\ reserved'[v] = 0
        BY <1>1, <1>7, <1>13
    <2> QED
        BY <1>5, <2>1
<1> QED
    BY <1>5, <1>12, <1>14, <1>15, BooksAre DEF PInv

LEMMA PaperNext == ASSUME PInv, Paper!Next PROVE PInv'
BY PaperDecides, PaperFills, PaperReports, PaperChases, PaperChaseReports, PaperUnwinds, PaperFails,
   PaperSettles, PaperRestarts DEF Paper!Next

LEMMA PaperSpec == MCSpec => [](part = "paper" => PInv)
<1>1. MCInit => (part = "paper" => PInv)
    BY PaperInit, Zenon DEF MCInit
<1>2. (part = "paper" => PInv) /\ [MCNext]_all => (part = "paper" => PInv)'
    <2> SUFFICES ASSUME part = "paper" => PInv, [MCNext]_all, part' = "paper"
                 PROVE  PInv'
        OBVIOUS
    <2>1. CASE MCNext
        <3>1. part = "paper" /\ Paper!Next
            BY <2>1, Zenon DEF MCNext
        <3> QED
            BY <3>1, PaperNext
    <2>2. CASE UNCHANGED all
        <3>1. part = "paper" /\ UNCHANGED books /\ realized' = realized
            BY <2>2, Zenon DEF all
        <3>2. UNCHANGED <<paper, funds, tied, reserved, deposits, failed, excused>>
            BY <3>1 DEF books
        <3>3. Paper!TypeOK'
            BY <3>1, <3>2, PaperTypes, PaperTypesNext, Zenon DEF PInv
        <3>4. Paper!AccountAgrees' /\ Paper!ReservesHeld'
            BY <3>1, <3>2, BooksAre, Zenon DEF PInv
        <3>5. PaidFor' /\ \A i \in Trades : Fit(paper'[i])
            BY <3>1, <3>2 DEF PInv, PaidFor
        <3> QED
            BY <3>3, <3>4, <3>5 DEF PInv
    <2> QED
        BY <2>1, <2>2
<1> QED
    BY <1>1, <1>2, PTL DEF MCSpec

\* What the paper trader says its account is, is what its rows say, however its trades
\* interleave, fail and settle, and whenever it is restarted.
THEOREM PaperAccountAgrees == MCSpec => []AccountAgrees
<1>1. (part = "paper" => PInv) => AccountAgrees
    BY DEF PInv, AccountAgrees
<1> QED
    BY <1>1, PaperSpec, PTL

\* No venue of its is overdrawn, but where it is excused.
THEOREM PaperNeverOverdrawn == MCSpec => []NeverOverdrawn
<1>1. PaidFor => Paper!NeverOverdrawn
    BY DEF PaidFor, Paper!NeverOverdrawn, Paper!Venues
<1>2. (part = "paper" => PInv) => NeverOverdrawn
    BY <1>1 DEF PInv, NeverOverdrawn
<1> QED
    BY <1>2, PaperSpec, PTL

-----------------------------------------------------------------------------
(* The transfers of a round *)

LEMMA PlanConstants ==
    /\ PlanShards \subseteq Nat /\ IsFiniteSet(PlanShards)
    /\ Cent \in Nat /\ Cent > 0 /\ MinMove \in Nat /\ MinMove > 0 /\ MinMove % Cent = 0
BY PlanAssumption DEF Transfers!AmountsFit, Transfers!IsFiniteSet, IsFiniteSet

LEMMA TimesGrows == ASSUME NEW c \in Nat, NEW a \in Int, NEW b \in Int, a <= b PROVE c * a <= c * b
OBVIOUS

\* Whole cents are less than a transfer short of the amount, and enough for one if that is.
LEMMA CentsIs ==
    ASSUME NEW n \in Nat
    PROVE  /\ Transfers!WholeCents(n) \in Nat /\ Transfers!WholeCents(n) <= n
           /\ n - Transfers!WholeCents(n) < MinMove
           /\ n >= MinMove => Transfers!WholeCents(n) >= MinMove
<1> DEFINE q == n \div Cent
           r == n % Cent
           m == MinMove \div Cent
<1>1. /\ q \in Nat /\ r \in Nat /\ r < Cent /\ n = Cent * q + r
      /\ m \in Nat /\ MinMove = Cent * m /\ m > 0
      /\ Cent \in Nat /\ MinMove \in Nat
    <2>1. Cent \in Nat /\ Cent > 0 /\ MinMove \in Nat /\ MinMove > 0 /\ MinMove % Cent = 0
        BY PlanConstants
    <2>2. n \in Nat /\ q \in Nat /\ r \in 0..(Cent - 1) /\ n = Cent * q + r
        BY <2>1
    <2>3. m \in Nat /\ MinMove = Cent * m + (MinMove % Cent)
        BY <2>1
    <2>4. MinMove = Cent * m
        BY <2>1, <2>3
    <2>5. m > 0
        BY <2>1, <2>3, <2>4
    <2> QED
        BY <2>1, <2>2, <2>3, <2>4, <2>5
<1>2. Transfers!WholeCents(n) = n - r
    BY DEF Transfers!WholeCents
<1> HIDE DEF q, r, m
<1>3. Cent * q \in Nat /\ n - r = Cent * q
    BY <1>1
<1>4. Cent <= MinMove
    <2>1. Cent * 1 <= Cent * m
        BY <1>1, TimesGrows
    <2> QED
        BY <1>1, <2>1
<1>5. ASSUME n >= MinMove PROVE Cent * q >= MinMove
    <2>1. CASE m <= q
        BY <1>1, <2>1, TimesGrows
    <2>2. CASE q + 1 <= m
        <3>1. Cent * (q + 1) <= Cent * m
            BY <1>1, <2>2, TimesGrows
        <3>2. Cent * (q + 1) = Cent * q + Cent
            BY <1>1
        <3> QED
            BY <1>1, <1>3, <1>5, <3>1, <3>2
    <2> QED
        BY <1>1, <2>1, <2>2
<1> QED
    BY <1>1, <1>2, <1>3, <1>4, <1>5

LEMMA AmountIs ==
    ASSUME NEW n \in Nat, NEW l \in Nat, NEW a, a = Transfers!Amount(n, l)
    PROVE  /\ a \in Nat /\ a <= n /\ a <= l
           /\ n - a < MinMove \/ l - a < MinMove
           /\ n >= MinMove /\ l >= MinMove <=> a >= MinMove
<1>1. Transfers!Smaller(n, l) \in {n, l} /\ Transfers!Smaller(n, l) <= n /\ Transfers!Smaller(n, l) <= l
    BY DEF Transfers!Smaller
<1> DEFINE s == Transfers!Smaller(n, l)
<1>2. s \in Nat /\ a = Transfers!WholeCents(s)
    BY <1>1 DEF Transfers!Amount
<1> HIDE DEF s
<1>3. a \in Nat /\ a <= s /\ s - a < MinMove /\ (s >= MinMove => a >= MinMove)
    BY <1>2, CentsIs
<1>4. s \in {n, l} /\ s <= n /\ s <= l
    BY <1>1 DEF s
<1> QED
    BY <1>2, <1>3, <1>4, PlanConstants

-----------------------------------------------------------------------------

Worths == Nat \X PlanShards
Dealings == Transfers!Sides \X Transfers!Sides
Deals == [src : PlanShards, dst : PlanShards, amt : Nat]

Amt(p) == Transfers!Amount(Head(p[1])[1], Head(p[2])[1])
Skips(p) == p[2] = <<>> \/ Head(p[1])[1] < MinMove \/ Amt(p) < MinMove
Deal(p) == Transfers!Move(Head(p[2]), Head(p[1])[2], Amt(p))
Later(p) == IF Skips(p) THEN <<Tail(p[1]), p[2]>> ELSE <<Transfers!Left(p[1], Amt(p)), Transfers!Without(p[2], Amt(p))>>
DealsOf(f, p) ==
    IF p[1] = <<>> THEN <<>> ELSE IF Skips(p) THEN f[Later(p)] ELSE <<Deal(p)>> \o f[Later(p)]

LEMMA AmtIs ==
    ASSUME NEW p, Head(p[1])[1] \in Nat, Head(p[2])[1] \in Nat
    PROVE  LET n == Head(p[1])[1]
               l == Head(p[2])[1]
               a == Amt(p)
           IN  /\ a \in Nat /\ a <= n /\ a <= l
               /\ n - a < MinMove \/ l - a < MinMove
               /\ n >= MinMove /\ l >= MinMove <=> a >= MinMove
<1> DEFINE n == Head(p[1])[1]
           l == Head(p[2])[1]
           a == Amt(p)
<1>1. n \in Nat /\ l \in Nat /\ a = Transfers!Amount(n, l)
    BY DEF Amt
<1> HIDE DEF n, l, a
<1>2. /\ a \in Nat /\ a <= n /\ a <= l
      /\ n - a < MinMove \/ l - a < MinMove
      /\ n >= MinMove /\ l >= MinMove <=> a >= MinMove
    BY <1>1, AmountIs
<1> QED
    BY <1>2 DEF n, l, a

LEMMA LeftIs ==
    ASSUME NEW s \in Seq(Worths), s # <<>>, NEW a \in Nat, a <= Head(s)[1], NEW u, u = Transfers!Left(s, a)
    PROVE  /\ u \in Seq(Worths) /\ u # <<>> /\ Len(u) = Len(s)
           /\ Head(u) = <<Head(s)[1] - a, Head(s)[2]>> /\ Tail(u) = Tail(s)
<1>1. Head(s) \in Worths /\ Tail(s) \in Seq(Worths) /\ Len(s) \in Nat /\ Len(Tail(s)) = Len(s) - 1
    BY FirstAndRest
<1> DEFINE x == <<Head(s)[1] - a, Head(s)[2]>>
<1>2. x \in Worths
    BY <1>1 DEF Worths
<1>3. u = <<x>> \o Tail(s)
    BY DEF Transfers!Left
<1> HIDE DEF x
<1>4. /\ u \in Seq(Worths) /\ u # <<>> /\ Len(u) = Len(Tail(s)) + 1 /\ Head(u) = x /\ Tail(u) = Tail(s)
    BY <1>1, <1>2, <1>3, InFront
<1> QED
    BY <1>1, <1>4 DEF x

\* Two for each need, one for each spare, and one less if the first need is no longer worth a transfer.
Steps(p) == 2 * Len(p[1]) + Len(p[2]) - (IF p[1] # <<>> /\ Head(p[1])[1] < MinMove THEN 1 ELSE 0)

LEMMA StepsDown ==
    ASSUME NEW p \in Dealings
    PROVE  /\ Steps(p) \in Nat
           /\ p[1] # <<>> => /\ Later(p) \in Dealings /\ Steps(Later(p)) < Steps(p)
                             /\ ~Skips(p) => Deal(p) \in Deals
<1>1. /\ p[1] \in Seq(Worths) /\ p[2] \in Seq(Worths) /\ p = <<p[1], p[2]>>
      /\ \A n, s \in Seq(Worths) : <<n, s>> \in Dealings
    BY DEF Dealings, Transfers!Sides, Worths
<1>2. /\ \A s \in Seq(Worths) : Len(s) \in Nat /\ (s # <<>> => Len(s) > 0)
      /\ MinMove \in Nat
    BY EmptySeq, LenProperties, PlanConstants
<1>3. Steps(p) \in Nat
    BY <1>1, <1>2 DEF Steps
<1>4. ASSUME p[1] # <<>>, Skips(p) PROVE Later(p) \in Dealings /\ Steps(Later(p)) < Steps(p)
    <2>1. Tail(p[1]) \in Seq(Worths) /\ Len(Tail(p[1])) = Len(p[1]) - 1
        BY <1>1, <1>4, FirstAndRest
    <2>2. Later(p) = <<Tail(p[1]), p[2]>>
        BY <1>4 DEF Later
    <2> DEFINE q == Later(p)
    <2>3. q[1] = Tail(p[1]) /\ q[2] = p[2]
        BY <2>2
    <2> HIDE DEF q
    <2>4. Steps(q) <= 2 * Len(q[1]) + Len(q[2])
        BY <1>1, <1>2, <2>1, <2>3 DEF Steps
    <2>5. 2 * Len(p[1]) + Len(p[2]) <= Steps(p) + 1
        BY <1>1, <1>2 DEF Steps
    <2>6. Steps(q) < Steps(p)
        <3>1. Steps(q) \in Int /\ Steps(p) \in Int /\ Len(p[1]) \in Nat /\ Len(p[2]) \in Nat
            BY <1>1, <1>2, <2>1, <2>3 DEF Steps
        <3>2. Len(q[1]) = Len(p[1]) - 1 /\ Len(q[2]) = Len(p[2])
            BY <2>1, <2>3
        <3>3. Steps(q) <= 2 * (Len(p[1]) - 1) + Len(p[2])
            BY ONLY <2>4, <3>2
        <3> DEFINE sq == Steps(q)
                   sp == Steps(p)
                   n == Len(p[1])
                   l == Len(p[2])
        <3>4. sq \in Int /\ sp \in Int /\ n \in Nat /\ l \in Nat /\ sq <= 2 * (n - 1) + l /\ 2 * n + l <= sp + 1
            BY ONLY <2>5, <3>1, <3>3
        <3> HIDE DEF sq, sp, n, l
        <3>5. sq < sp
            BY ONLY <3>4
        <3> QED
            BY <3>5 DEF sq, sp
    <2> QED
        BY <1>1, <2>1, <2>2, <2>6 DEF q
<1>5. ASSUME p[1] # <<>>, ~Skips(p)
      PROVE  Later(p) \in Dealings /\ Steps(Later(p)) < Steps(p) /\ Deal(p) \in Deals
    <2>1. p[2] # <<>> /\ Head(p[1])[1] >= MinMove /\ Amt(p) >= MinMove
        <3>1. Head(p[1]) \in Worths /\ Amt(p) \in Nat
            <4>1. Head(p[1]) \in Worths /\ Head(p[2]) \in Worths
                BY <1>1, <1>5, FirstAndRest DEF Skips
            <4>2. Head(p[1])[1] \in Nat /\ Head(p[2])[1] \in Nat
                BY <4>1 DEF Worths
            <4> QED
                BY <4>1, <4>2, AmtIs
        <3> QED
            BY <1>2, <1>5, <3>1 DEF Skips, Worths
    <2>2. /\ Head(p[1]) \in Worths /\ Head(p[2]) \in Worths
          /\ Tail(p[2]) \in Seq(Worths) /\ Len(Tail(p[2])) = Len(p[2]) - 1
        BY <1>1, <1>5, <2>1, FirstAndRest
    <2> DEFINE n == Head(p[1])[1]
               l == Head(p[2])[1]
               a == Amt(p)
    <2>3. n \in Nat /\ l \in Nat /\ Head(p[1])[2] \in PlanShards /\ Head(p[2])[2] \in PlanShards
        BY <2>2 DEF Worths
    <2>4. a \in Nat /\ a <= n /\ a <= l /\ (n - a < MinMove \/ l - a < MinMove)
        BY <2>3, AmtIs
    <2> DEFINE u == Transfers!Left(p[1], a)
               v == Transfers!Without(p[2], a)
               q == Later(p)
    <2>5. u \in Seq(Worths) /\ u # <<>> /\ Len(u) = Len(p[1]) /\ Head(u)[1] = n - a
        <3> HIDE DEF a
        <3>1. a <= Head(p[1])[1]
            BY <2>4
        <3>2. u \in Seq(Worths) /\ u # <<>> /\ Len(u) = Len(p[1]) /\ Head(u) = <<n - a, Head(p[1])[2]>>
            BY <1>1, <1>5, <2>4, <3>1, LeftIs
        <3> QED
            BY <3>2
    <2>6. v \in Seq(Worths) /\ Len(v) <= Len(p[2]) /\ (l - a < MinMove => Len(v) = Len(p[2]) - 1)
        <3>1. CASE l - a < MinMove
            BY <1>1, <1>2, <2>2, <3>1 DEF Transfers!Without
        <3>2. CASE ~(l - a < MinMove)
            <4>1. v = Transfers!Left(p[2], a)
                BY <3>2 DEF Transfers!Without
            <4> HIDE DEF a, v
            <4>2. a <= Head(p[2])[1]
                BY <2>4
            <4>3. v \in Seq(Worths) /\ Len(v) = Len(p[2])
                BY <1>1, <2>1, <2>4, <4>1, <4>2, LeftIs
            <4> QED
                BY <1>1, <1>2, <3>2, <4>3
        <3> QED
            BY <3>1, <3>2
    <2>7. q = <<u, v>>
        BY <1>5 DEF Later
    <2>8. q[1] = u /\ q[2] = v
        BY <2>7
    <2>9. Deal(p) \in Deals
        <3>1. Deal(p) = [src |-> Head(p[2])[2], dst |-> Head(p[1])[2], amt |-> a]
            BY DEF Deal, Transfers!Move
        <3>2. \A s, d \in PlanShards : \A x \in Nat : [src |-> s, dst |-> d, amt |-> x] \in Deals
            BY DEF Deals
        <3> HIDE DEF a
        <3> QED
            BY <2>3, <2>4, <3>1, <3>2
    <2> HIDE DEF n, l, a, u, v, q
    <2>10. Steps(q) = 2 * Len(u) + Len(v) - (IF n - a < MinMove THEN 1 ELSE 0)
        BY <2>5, <2>8 DEF Steps
    <2>11. Steps(p) = 2 * Len(p[1]) + Len(p[2])
        <3>1. ~(Head(p[1])[1] < MinMove)
            BY <1>2, <2>1, <2>3 DEF n
        <3>2. Steps(p) = 2 * Len(p[1]) + Len(p[2]) - 0
            BY <3>1 DEF Steps
        <3>3. Len(p[1]) \in Nat /\ Len(p[2]) \in Nat
            BY <1>1, <1>2
        <3> QED
            BY ONLY <3>2, <3>3
    <2>12. Steps(q) < Steps(p)
        <3>1. Len(u) \in Nat /\ Len(v) \in Nat /\ Len(p[1]) \in Nat /\ Len(p[2]) \in Nat
            BY <1>1, <1>2, <2>5, <2>6
        <3>2. n - a < MinMove => Steps(q) = 2 * Len(p[1]) + Len(v) - 1
            BY ONLY <2>5, <2>10
        <3>3. ~(n - a < MinMove) => Steps(q) = 2 * Len(p[1]) + Len(v)
            BY ONLY <2>5, <2>10
        <3> DEFINE sq == Steps(q)
                   sp == Steps(p)
                   k == Len(p[1])
                   j == Len(p[2])
                   i == Len(v)
        <3>4. /\ k \in Nat /\ j \in Nat /\ i \in Nat /\ sp = 2 * k + j /\ i <= j
              /\ n - a < MinMove \/ l - a < MinMove
              /\ l - a < MinMove => i = j - 1
              /\ n - a < MinMove => sq = 2 * k + i - 1
              /\ ~(n - a < MinMove) => sq = 2 * k + i
            BY ONLY <2>4, <2>6, <2>11, <3>1, <3>2, <3>3
        <3> HIDE DEF sq, sp, k, j, i
        <3>5. sq < sp
            BY ONLY <3>4
        <3> QED
            BY <3>5 DEF sq, sp
    <2> QED
        BY <1>1, <2>5, <2>6, <2>7, <2>9, <2>12 DEF q
<1> QED
    BY <1>3, <1>4, <1>5

LEMMA MatchIs ==
    ASSUME NEW p \in Dealings
    PROVE  Transfers!Match[p] = DealsOf(Transfers!Match, p)
<1> DEFINE D == Dealings
           V == Seq(Deals)
           base == {q \in D : q[1] = <<>>}
           b == [q \in D |-> <<>>]
           next == [q \in D |-> Later(q)]
           H == [x \in D \X V |-> IF Skips(x[1]) THEN x[2] ELSE <<Deal(x[1])>> \o x[2]]
           mu == [q \in D |-> Steps(q)]
<1>1. base \in SUBSET D /\ b \in [D -> V] /\ \A q \in D : mu[q] \in Nat
    BY EmptySeq, StepsDown
<1>2. \A q \in D \ base : next[q] \in D /\ mu[next[q]] < mu[q]
    BY StepsDown
<1>3. ASSUME NEW q \in D \ base, NEW v \in V PROVE H[<<q, v>>] \in V
    <2>1. <<q, v>> \in D \X V /\ <<q, v>>[1] = q /\ <<q, v>>[2] = v
        OBVIOUS
    <2>2. H[<<q, v>>] = IF Skips(q) THEN v ELSE <<Deal(q)>> \o v
        BY <2>1
    <2>3. ~Skips(q) => Deal(q) \in Deals
        BY StepsDown
    <2> HIDE DEF H, base, D
    <2>4. ~Skips(q) => <<Deal(q)>> \o v \in V
        BY <2>3, InFront
    <2> QED
        BY <2>2, <2>4
<1> HIDE DEF D, V, base, b, next, H, mu
<1>4. PICK f \in [D -> V] : \A q \in D : f[q] = OneStep(f, q, base, b, next, H)
    <2>1. Descends(D, V, base, b, next, H, mu)
        BY ONLY <1>1, <1>2, <1>3 DEF Descends
    <2> QED
        BY ONLY <2>1, Recursion
<1> USE DEF D
<1>5. ASSUME NEW q \in D PROVE f[q] = DealsOf(f, q)
    <2>1. f[q] = IF q \in base THEN b[q] ELSE H[<<q, f[next[q]]>>]
        BY <1>4 DEF OneStep
    <2>2. CASE q[1] = <<>>
        BY <2>1, <2>2 DEF base, b, DealsOf
    <2>3. CASE q[1] # <<>>
        <3>1. next[q] = Later(q) /\ Later(q) \in D
            BY <2>3, StepsDown DEF next
        <3>2. f[Later(q)] \in V
            BY <1>4, <3>1
        <3>3. <<q, f[Later(q)]>> \in D \X V
            BY <3>2
        <3>4. H[<<q, f[Later(q)]>>] = IF Skips(q) THEN f[Later(q)] ELSE <<Deal(q)>> \o f[Later(q)]
            BY <3>3 DEF H
        <3>5. q \notin base
            BY <2>3 DEF base
        <3> QED
            BY <2>1, <2>3, <3>1, <3>4, <3>5 DEF DealsOf
    <2> QED
        BY <2>2, <2>3
<1> DEFINE Is(g) == g = [q \in D |-> DealsOf(g, q)]
<1>6. Is(f)
    BY <1>4, <1>5
<1>7. Transfers!Match = CHOOSE g : Is(g)
    BY Zenon DEF Transfers!Match, DealsOf, Skips, Amt, Deal, Later, Dealings
<1>8. Is(Transfers!Match)
    <2> HIDE DEF Is
    <2> QED
        BY <1>6, <1>7
<1> QED
    BY <1>8

-----------------------------------------------------------------------------
\* A side has a shard once at most; what it has of it.
OnceEach(t) == \A i, j \in 1..Len(t) : i # j => t[i][2] # t[j][2]
Has(t, s) == IF \E i \in 1..Len(t) : t[i][2] = s THEN t[CHOOSE i \in 1..Len(t) : t[i][2] = s][1] ELSE 0
Large(t) == \A i \in 1..Len(t) : t[i][1] >= MinMove

LEMMA HasIs ==
    ASSUME NEW t \in Seq(Worths), OnceEach(t)
    PROVE  /\ \A i \in 1..Len(t) : Has(t, t[i][2]) = t[i][1]
           /\ \A s : (\A i \in 1..Len(t) : t[i][2] # s) => Has(t, s) = 0
           /\ \A s : Has(t, s) \in Nat
<1>1. \A i \in 1..Len(t) : t[i] \in Worths /\ t[i][1] \in Nat
    BY ElementOfSeq, LenProperties DEF Worths
<1>2. ASSUME NEW i \in 1..Len(t) PROVE Has(t, t[i][2]) = t[i][1]
    <2> DEFINE j == CHOOSE k \in 1..Len(t) : t[k][2] = t[i][2]
    <2>1. j \in 1..Len(t) /\ t[j][2] = t[i][2]
        OBVIOUS
    <2>2. Has(t, t[i][2]) = t[j][1]
        BY DEF Has
    <2> HIDE DEF j
    <2>3. j = i
        BY <2>1 DEF OnceEach
    <2> QED
        BY <2>2, <2>3
<1>3. ASSUME NEW s PROVE (\A i \in 1..Len(t) : t[i][2] # s) => Has(t, s) = 0
    BY DEF Has
<1>4. ASSUME NEW s PROVE Has(t, s) \in Nat
    <2>1. CASE \E i \in 1..Len(t) : t[i][2] = s
        BY <1>1, <1>2, <2>1
    <2> QED
        BY <1>3, <2>1
<1> QED
    BY <1>2, <1>3, <1>4

LEMMA HasNothing == /\ \A s : Has(<<>>, s) = 0
                    /\ OnceEach(<<>>) /\ Large(<<>>) /\ <<>> \in Seq(Worths)
BY EmptySeq DEF Has, OnceEach, Large

\* The first and the others.
LEMMA HasFirst ==
    ASSUME NEW t \in Seq(Worths), OnceEach(t), t # <<>>
    PROVE  /\ OnceEach(Tail(t)) /\ (Large(t) => Large(Tail(t)))
           /\ Has(Tail(t), Head(t)[2]) = 0
           /\ \A s : Has(t, s) = IF s = Head(t)[2] THEN Head(t)[1] ELSE Has(Tail(t), s)
<1>1. /\ Len(t) \in Nat \ {0} /\ Head(t) = t[1]
      /\ Tail(t) \in Seq(Worths) /\ Len(Tail(t)) = Len(t) - 1
      /\ \A i \in 1..Len(Tail(t)) : Tail(t)[i] = t[i + 1]
    BY FirstAndRest
<1> DEFINE u == Tail(t)
           n == Len(u)
<1>2. n \in Nat /\ Len(t) = n + 1 /\ \A i \in 1..n : i + 1 \in 1..Len(t) /\ u[i] = t[i + 1]
    BY <1>1
<1>3. \A i \in 2..Len(t) : i - 1 \in 1..n /\ u[i - 1] = t[i]
    BY <1>1, <1>2
<1>4. u \in Seq(Worths)
    BY <1>1
<1> HIDE DEF u, n
<1>5. OnceEach(u) /\ (Large(t) => Large(u))
    <2>1. ASSUME NEW i \in 1..n, NEW j \in 1..n, i # j PROVE u[i][2] # u[j][2]
        <3>1. i + 1 \in 1..Len(t) /\ j + 1 \in 1..Len(t) /\ i + 1 # j + 1
            BY <1>2, <2>1
        <3>2. t[i + 1][2] # t[j + 1][2]
            BY <3>1 DEF OnceEach
        <3> QED
            BY <1>2, <3>2
    <2>2. ASSUME Large(t), NEW i \in 1..n PROVE u[i][1] >= MinMove
        BY <1>2, <2>2 DEF Large
    <2> QED
        BY <2>1, <2>2 DEF OnceEach, Large, n
<1>6. \A i \in 1..n : u[i][2] # t[1][2]
    <2> SUFFICES ASSUME NEW i \in 1..n PROVE u[i][2] # t[1][2]
        OBVIOUS
    <2>1. i + 1 \in 1..Len(t) /\ 1 \in 1..Len(t) /\ i + 1 # 1
        BY <1>2
    <2>2. t[i + 1][2] # t[1][2]
        BY <2>1 DEF OnceEach
    <2> QED
        BY <1>2, <2>2
<1>7. Has(u, t[1][2]) = 0
    BY <1>4, <1>5, <1>6, HasIs DEF n
<1>8. ASSUME NEW s PROVE Has(t, s) = IF s = t[1][2] THEN t[1][1] ELSE Has(u, s)
    <2>1. CASE s = t[1][2]
        <3>1. 1 \in 1..Len(t)
            BY <1>1
        <3> QED
            BY <2>1, <3>1, HasIs
    <2>2. CASE s # t[1][2] /\ \E i \in 1..n : u[i][2] = s
        <3>1. PICK i \in 1..n : u[i][2] = s
            BY <2>2
        <3>2. i + 1 \in 1..Len(t) /\ u[i] = t[i + 1]
            BY <1>2
        <3>3. Has(t, t[i + 1][2]) = t[i + 1][1]
            BY <3>2, HasIs
        <3>4. Has(u, u[i][2]) = u[i][1]
            BY <1>4, <1>5, HasIs DEF n
        <3> QED
            BY <2>2, <3>1, <3>2, <3>3, <3>4
    <2>3. CASE s # t[1][2] /\ \A i \in 1..n : u[i][2] # s
        <3>1. Has(u, s) = 0
            BY <1>4, <1>5, <2>3, HasIs DEF n
        <3>2. \A i \in 1..Len(t) : t[i][2] # s
            <4>1. ASSUME NEW i \in 1..Len(t) PROVE t[i][2] # s
                <5>1. CASE i = 1
                    BY <2>3, <5>1
                <5>2. CASE i # 1
                    BY <1>1, <1>3, <2>3, <5>2
                <5> QED
                    BY <5>1, <5>2
            <4> QED
                BY <4>1
        <3> QED
            BY <2>3, <3>1, <3>2, HasIs
    <2> QED
        BY <2>1, <2>2, <2>3
<1> QED
    BY <1>1, <1>5, <1>7, <1>8 DEF u

\* The same for what replaces the first.
LEMMA HasLeft ==
    ASSUME NEW t \in Seq(Worths), OnceEach(t), t # <<>>, NEW a \in Nat, a <= Head(t)[1],
           NEW u, u = Transfers!Left(t, a)
    PROVE  /\ u \in Seq(Worths) /\ u # <<>> /\ OnceEach(u)
           /\ Large(t) /\ Head(t)[1] - a >= MinMove => Large(u)
           /\ \A s : Has(u, s) = Has(t, s) - (IF s = Head(t)[2] THEN a ELSE 0)
<1>1. /\ u \in Seq(Worths) /\ u # <<>> /\ Len(u) = Len(t)
      /\ Head(u) = <<Head(t)[1] - a, Head(t)[2]>> /\ Tail(u) = Tail(t)
    BY LeftIs
<1>2. /\ Len(t) \in Nat \ {0} /\ Head(t) = t[1] /\ Head(t) \in Worths /\ Head(u) = u[1]
      /\ Len(Tail(t)) = Len(t) - 1
      /\ \A i \in 1..(Len(t) - 1) : Tail(t)[i] = t[i + 1] /\ Tail(u)[i] = u[i + 1]
    BY <1>1, FirstAndRest
<1>3. \A i \in 1..Len(t) : u[i] = IF i = 1 THEN <<t[1][1] - a, t[1][2]>> ELSE t[i]
    <2> SUFFICES ASSUME NEW i \in 1..Len(t) PROVE u[i] = IF i = 1 THEN <<t[1][1] - a, t[1][2]>> ELSE t[i]
        OBVIOUS
    <2>1. CASE i # 1
        <3>1. i - 1 \in 1..(Len(t) - 1) /\ (i - 1) + 1 = i
            BY <1>2, <2>1
        <3>2. Tail(t)[i - 1] = t[i] /\ Tail(u)[i - 1] = u[i]
            BY <1>2, <3>1
        <3> QED
            BY <1>1, <2>1, <3>2
    <2> QED
        BY <1>1, <1>2, <2>1
<1>4. \A i \in 1..Len(t) : u[i][2] = t[i][2] /\ u[i][1] = IF i = 1 THEN t[1][1] - a ELSE t[i][1]
    BY <1>3
<1>5. OnceEach(u) /\ (Large(t) /\ Head(t)[1] - a >= MinMove => Large(u))
    BY <1>1, <1>2, <1>4 DEF OnceEach, Large
<1>6. ASSUME NEW s PROVE Has(u, s) = Has(t, s) - (IF s = Head(t)[2] THEN a ELSE 0)
    <2>1. /\ Has(t, s) = IF s = Head(t)[2] THEN Head(t)[1] ELSE Has(Tail(t), s)
          /\ Has(u, s) = IF s = Head(u)[2] THEN Head(u)[1] ELSE Has(Tail(u), s)
        BY <1>1, <1>5, HasFirst
    <2>2. Has(t, s) \in Nat
        BY HasIs
    <2>3. Head(u)[1] = Head(t)[1] - a /\ Head(u)[2] = Head(t)[2]
        BY <1>1
    <2>4. CASE s = Head(t)[2]
        BY <2>1, <2>3, <2>4
    <2>5. CASE s # Head(t)[2]
        <3>1. Has(u, s) = Has(t, s)
            BY <1>1, <2>1, <2>3, <2>5
        <3> QED
            BY <2>2, <2>5, <3>1
    <2> QED
        BY <2>4, <2>5
<1> QED
    BY <1>1, <1>5, <1>6

-----------------------------------------------------------------------------
LEMMA SameTotal == ASSUME NEW f, NEW S PROVE Transfers!SumFunctionOnSet(f, S) = SumFunctionOnSet(f, S)
BY DEF Transfers!SumFunctionOnSet, Transfers!FoldFunctionOnSet, Transfers!MapThenFoldSet,
       SumFunctionOnSet, FoldFunctionOnSet, MapThenFoldSet

LEMMA SameSize == ASSUME NEW S PROVE Transfers!Cardinality(S) = Cardinality(S)
BY DEF Transfers!Cardinality, Cardinality, Transfers!IsFiniteSet, IsFiniteSet

LEMMA AmtOfDeal == ASSUME NEW m \in Seq(Deals) PROVE \A i \in 1..Len(m) : m[i] \in Deals /\ m[i].amt \in Nat
<1>1. \A i \in 1..Len(m) : m[i] \in Deals
    BY ElementOfSeq
<1>2. \A d \in Deals : d.amt \in Nat
    BY DEF Deals
<1> QED
    BY ONLY <1>1, <1>2

\* What the transfers in a set come to.
LEMMA TotalIs ==
    ASSUME NEW m \in Seq(Deals), NEW I, I \subseteq 1..Len(m)
    PROVE  /\ Transfers!Total(m, I) = SumFunctionOnSet([i \in 1..Len(m) |-> m[i].amt], I)
           /\ Transfers!Total(m, I) \in Nat
           /\ I = {} => Transfers!Total(m, I) = 0
<1> DEFINE f == [i \in 1..Len(m) |-> m[i].amt]
<1>1. /\ DOMAIN m = 1..Len(m) /\ Len(m) \in Nat
      /\ \A i \in 1..Len(m) : m[i].amt \in Nat
    BY AmtOfDeal, LenProperties
<1>2. Transfers!Total(m, I) = SumFunctionOnSet(f, I)
    BY <1>1, SameTotal DEF Transfers!Total
<1>3. IsFiniteSet(I)
    <2>1. IsFiniteSet(1..Len(m))
        BY <1>1, FS_Interval
    <2> QED
        BY <2>1, FS_Subset
<1>4. \A i \in I : f[i] \in Nat
    BY <1>1
<1> HIDE DEF f
<1>5. SumFunctionOnSet(f, I) \in Nat
    BY <1>3, <1>4, SumNat
<1>6. I = {} => SumFunctionOnSet(f, I) = 0
    BY SumNothing
<1> QED
    BY <1>2, <1>5, <1>6 DEF f

\* One more in front.
Preceded(u, d, m) == m \in Seq(Deals) /\ d \in Deals /\ u = <<d>> \o m

LEMMA TotalInFront ==
    ASSUME NEW m, NEW d, NEW u, Preceded(u, d, m), NEW I, NEW J, FurtherOn(I, J, Len(m))
    PROVE  Transfers!Total(u, J) = Transfers!Total(m, I) + (IF 1 \in J THEN d.amt ELSE 0)
<1> USE DEF Preceded
<1> DEFINE f == [i \in 1..Len(m) |-> m[i].amt]
           h == [i \in 1..Len(u) |-> u[i].amt]
           n == Len(m)
<1>1. /\ n \in Nat /\ u \in Seq(Deals) /\ Len(u) = n + 1
      /\ u[1] = d /\ \A i \in 1..n : u[i + 1] = m[i]
    BY InFront, LenProperties
<1>7. I \subseteq 1..n /\ J \subseteq 1..(n + 1)
    BY DEF FurtherOn
<1>2. /\ Transfers!Total(m, I) = SumFunctionOnSet(f, I) /\ Transfers!Total(u, J) = SumFunctionOnSet(h, J)
    BY <1>1, <1>7, TotalIs
<1>3. \A i \in 1..n : m[i].amt \in Int
    BY AmtOfDeal
<1>4. d.amt \in Int
    BY DEF Deals
<1>5. \A i \in 1..n : f[i] \in Int /\ h[i + 1] = f[i]
    <2> SUFFICES ASSUME NEW i \in 1..n PROVE f[i] \in Int /\ h[i + 1] = f[i]
        OBVIOUS
    <2>1. i + 1 \in 1..Len(u) /\ u[i + 1] = m[i]
        BY <1>1
    <2> QED
        BY <1>3, <2>1
<1>6. h[1] = d.amt
    <2>1. 1 \in 1..Len(u)
        BY <1>1
    <2> QED
        BY <1>1, <2>1
<1>9. FurtherOn(I, J, n)
    OBVIOUS
<1> HIDE DEF f, h, n
<1>8. SumFunctionOnSet(h, J) = SumFunctionOnSet(f, I) + (IF 1 \in J THEN h[1] ELSE 0)
    <2>1. MovedOn(f, h, n)
        BY ONLY <1>4, <1>5, <1>6 DEF MovedOn
    <2> QED
        BY ONLY <1>1, <1>9, <2>1, SumInFront
<1> QED
    BY <1>2, <1>6, <1>8

LEMMA OutIn ==
    ASSUME NEW m \in Seq(Deals)
    PROVE  /\ \A s : Transfers!Out(m, s) \in Nat /\ Transfers!In(m, s) \in Nat
           /\ m = <<>> => \A s : Transfers!Out(m, s) = 0 /\ Transfers!In(m, s) = 0
<1>1. DOMAIN m = 1..Len(m) /\ (m = <<>> => Len(m) = 0)
    BY EmptySeq, LenProperties
<1>2. ASSUME NEW s PROVE /\ Transfers!Out(m, s) \in Nat /\ Transfers!In(m, s) \in Nat
                         /\ m = <<>> => Transfers!Out(m, s) = 0 /\ Transfers!In(m, s) = 0
    <2> DEFINE I == {i \in DOMAIN m : m[i].src = s}
               J == {i \in DOMAIN m : m[i].dst = s}
    <2>1. I \subseteq 1..Len(m) /\ J \subseteq 1..Len(m) /\ (m = <<>> => I = {} /\ J = {})
        BY <1>1
    <2>2. Transfers!Out(m, s) = Transfers!Total(m, I) /\ Transfers!In(m, s) = Transfers!Total(m, J)
        BY DEF Transfers!Out, Transfers!In
    <2> HIDE DEF I, J
    <2> QED
        BY <2>1, <2>2, TotalIs
<1> QED
    BY <1>2

LEMMA OutInFront ==
    ASSUME NEW m, NEW d, NEW u, Preceded(u, d, m)
    PROVE  \A s : /\ Transfers!Out(u, s) = Transfers!Out(m, s) + (IF d.src = s THEN d.amt ELSE 0)
                  /\ Transfers!In(u, s) = Transfers!In(m, s) + (IF d.dst = s THEN d.amt ELSE 0)
<1> USE DEF Preceded
<1>1. /\ Len(m) \in Nat /\ u \in Seq(Deals) /\ Len(u) = Len(m) + 1
      /\ u[1] = d /\ \A i \in 1..Len(m) : u[i + 1] = m[i]
      /\ DOMAIN m = 1..Len(m) /\ DOMAIN u = 1..Len(u)
    <2>1. u \in Seq(Deals) /\ Len(u) = Len(m) + 1 /\ u[1] = d /\ \A i \in 1..Len(m) : u[i + 1] = m[i]
        BY InFront
    <2> QED
        BY <2>1, LenProperties
<1> SUFFICES ASSUME NEW s
             PROVE  /\ Transfers!Out(u, s) = Transfers!Out(m, s) + (IF d.src = s THEN d.amt ELSE 0)
                    /\ Transfers!In(u, s) = Transfers!In(m, s) + (IF d.dst = s THEN d.amt ELSE 0)
    OBVIOUS
<1>2. \A i \in 1..Len(m) : i + 1 \in 1..Len(u)
    BY <1>1
<1>3. 1 \in 1..Len(u)
    BY <1>1
<1>4. Transfers!Out(u, s) = Transfers!Out(m, s) + (IF d.src = s THEN d.amt ELSE 0)
    <2> DEFINE I == {i \in DOMAIN m : m[i].src = s}
               J == {i \in DOMAIN u : u[i].src = s}
    <2>1. /\ I \subseteq 1..Len(m) /\ J \subseteq 1..Len(u) /\ (1 \in J <=> d.src = s)
          /\ \A i \in 1..Len(m) : i \in I <=> i + 1 \in J
        BY <1>1, <1>2, <1>3
    <2>3. FurtherOn(I, J, Len(m))
        BY ONLY <1>1, <2>1 DEF FurtherOn
    <2>2. Transfers!Out(u, s) = Transfers!Total(u, J) /\ Transfers!Out(m, s) = Transfers!Total(m, I)
        BY DEF Transfers!Out
    <2> HIDE DEF I, J
    <2>4. Transfers!Total(u, J) = Transfers!Total(m, I) + (IF 1 \in J THEN d.amt ELSE 0)
        <3>1. Preceded(u, d, m)
            OBVIOUS
        <3> HIDE DEF Preceded
        <3> QED
            BY ONLY <2>3, <3>1, TotalInFront
    <2> QED
        BY <2>1, <2>2, <2>4
<1>5. Transfers!In(u, s) = Transfers!In(m, s) + (IF d.dst = s THEN d.amt ELSE 0)
    <2> DEFINE I == {i \in DOMAIN m : m[i].dst = s}
               J == {i \in DOMAIN u : u[i].dst = s}
    <2>1. /\ I \subseteq 1..Len(m) /\ J \subseteq 1..Len(u) /\ (1 \in J <=> d.dst = s)
          /\ \A i \in 1..Len(m) : i \in I <=> i + 1 \in J
        BY <1>1, <1>2, <1>3
    <2>3. FurtherOn(I, J, Len(m))
        BY ONLY <1>1, <2>1 DEF FurtherOn
    <2>2. Transfers!In(u, s) = Transfers!Total(u, J) /\ Transfers!In(m, s) = Transfers!Total(m, I)
        BY DEF Transfers!In
    <2> HIDE DEF I, J
    <2>4. Transfers!Total(u, J) = Transfers!Total(m, I) + (IF 1 \in J THEN d.amt ELSE 0)
        <3>1. Preceded(u, d, m)
            OBVIOUS
        <3> HIDE DEF Preceded
        <3> QED
            BY ONLY <2>3, <3>1, TotalInFront
    <2> QED
        BY <2>1, <2>2, <2>4
<1> QED
    BY <1>4, <1>5

-----------------------------------------------------------------------------
\* The sides of a round: a shard is on one once, and what there is to give is worth a transfer.
Fair(p) == p \in Dealings /\ OnceEach(p[1]) /\ OnceEach(p[2]) /\ Large(p[2])

\* What transfers between them are to do.
Within(p, m) == \A s : Transfers!Out(m, s) <= Has(p[2], s) /\ Transfers!In(m, s) <= Has(p[1], s)
NeedsMet(p, m) == \A s : Has(p[1], s) - Transfers!In(m, s) < MinMove
AllGiven(p, m) == \A s : Has(p[2], s) - Transfers!Out(m, s) < MinMove
Serves(p, m) ==
    /\ m \in Seq(Deals) /\ Within(p, m)
    /\ NeedsMet(p, m) \/ AllGiven(p, m)
    /\ p[1] = <<>> \/ p[2] = <<>> => m = <<>>

LEMMA FairIs ==
    ASSUME NEW p, Fair(p)
    PROVE  /\ p \in Dealings /\ p[1] \in Seq(Worths) /\ p[2] \in Seq(Worths)
           /\ OnceEach(p[1]) /\ OnceEach(p[2]) /\ Large(p[2])
           /\ \A s : Has(p[1], s) \in Nat /\ Has(p[2], s) \in Nat
<1>1. p \in Dealings /\ OnceEach(p[1]) /\ OnceEach(p[2]) /\ Large(p[2])
    BY DEF Fair
<1>2. p[1] \in Seq(Worths) /\ p[2] \in Seq(Worths)
    BY <1>1 DEF Dealings, Transfers!Sides, Worths
<1> QED
    BY <1>1, <1>2, HasIs

LEMMA HeadIs ==
    ASSUME NEW t \in Seq(Worths), t # <<>>
    PROVE  /\ Head(t) \in Worths /\ Head(t)[1] \in Nat /\ Head(t)[2] \in PlanShards
           /\ Large(t) => Head(t)[1] >= MinMove
<1>1. Head(t) \in Worths /\ Head(t) = t[1] /\ 1 \in 1..Len(t)
    BY FirstAndRest
<1> QED
    BY <1>1 DEF Worths, Large

\* A need is left as it is when there is nothing to give, or it isn't worth a transfer.
LEMMA ServesSkipped ==
    ASSUME NEW p, Fair(p), p[1] # <<>>, Skips(p), NEW q, q = Later(p)
    PROVE  Fair(q) /\ \A m : Serves(q, m) => Serves(p, m)
<1>1. /\ p \in Dealings /\ p[1] \in Seq(Worths) /\ p[2] \in Seq(Worths)
      /\ OnceEach(p[1]) /\ OnceEach(p[2]) /\ Large(p[2])
      /\ \A s : Has(p[1], s) \in Nat /\ Has(p[2], s) \in Nat
    BY FairIs
<1>2. q = <<Tail(p[1]), p[2]>> /\ q \in Dealings
    BY <1>1, StepsDown DEF Later
<1>3. q[1] = Tail(p[1]) /\ q[2] = p[2]
    BY <1>2
<1>4. /\ OnceEach(q[1]) /\ Has(q[1], Head(p[1])[2]) = 0
      /\ \A s : Has(p[1], s) = IF s = Head(p[1])[2] THEN Head(p[1])[1] ELSE Has(q[1], s)
    BY <1>1, <1>3, HasFirst
<1>5. Fair(q)
    BY <1>1, <1>2, <1>3, <1>4 DEF Fair
<1>6. Head(p[1])[1] \in Nat
    BY <1>1, HeadIs
<1>7. p[2] = <<>> \/ Head(p[1])[1] < MinMove
    <2> SUFFICES ASSUME p[2] # <<>> PROVE Head(p[1])[1] < MinMove
        OBVIOUS
    <2>1. Head(p[2])[1] \in Nat /\ Head(p[2])[1] >= MinMove
        BY <1>1, HeadIs
    <2>2. Head(p[1])[1] >= MinMove => Amt(p) >= MinMove /\ Amt(p) \in Nat
        BY <1>6, <2>1, AmtIs
    <2> QED
        BY <1>6, <2>2, PlanConstants DEF Skips
<1>8. ASSUME NEW m, Serves(q, m) PROVE Serves(p, m)
    <2>1. /\ m \in Seq(Deals) /\ Within(q, m)
          /\ NeedsMet(q, m) \/ AllGiven(q, m)
          /\ q[1] = <<>> \/ q[2] = <<>> => m = <<>>
        BY <1>8 DEF Serves
    <2>2. \A s : Transfers!Out(m, s) \in Nat /\ Transfers!In(m, s) \in Nat
        BY <2>1, OutIn
    <2>3. \A s : Has(q[1], s) \in Nat /\ Has(q[1], s) <= Has(p[1], s)
        BY <1>1, <1>4, <1>5, FairIs
    <2>4. Within(p, m)
        <3> SUFFICES ASSUME NEW s PROVE Transfers!Out(m, s) <= Has(p[2], s) /\ Transfers!In(m, s) <= Has(p[1], s)
            BY DEF Within
        <3>1. Transfers!Out(m, s) <= Has(q[2], s) /\ Transfers!In(m, s) <= Has(q[1], s)
            BY <2>1 DEF Within
        <3> QED
            BY <1>1, <1>3, <2>2, <2>3, <3>1
    <2>5. NeedsMet(p, m) \/ AllGiven(p, m)
        <3>1. CASE AllGiven(q, m)
            BY <1>3, <3>1 DEF AllGiven
        <3>2. CASE p[2] = <<>>
            <4>1. \A s : Has(p[2], s) - Transfers!Out(m, s) < MinMove
                BY <2>2, <3>2, HasNothing, PlanConstants
            <4> QED
                BY <4>1 DEF AllGiven
        <3>3. CASE NeedsMet(q, m) /\ Head(p[1])[1] < MinMove
            <4> SUFFICES ASSUME NEW s PROVE Has(p[1], s) - Transfers!In(m, s) < MinMove
                BY DEF NeedsMet
            <4>1. CASE s = Head(p[1])[2]
                BY <1>4, <1>6, <2>2, <3>3, <4>1, PlanConstants
            <4>2. CASE s # Head(p[1])[2]
                BY <1>4, <3>3, <4>2 DEF NeedsMet
            <4> QED
                BY <4>1, <4>2
        <3> QED
            BY <1>7, <2>1, <3>1, <3>2, <3>3
    <2> QED
        BY <1>3, <2>1, <2>4, <2>5 DEF Serves
<1> QED
    BY <1>5, <1>8

\* Or it takes what it can from the first spare.
LEMMA ServesDealt ==
    ASSUME NEW p, Fair(p), p[1] # <<>>, ~Skips(p), NEW q, q = Later(p)
    PROVE  Fair(q) /\ \A m : Serves(q, m) => Serves(p, <<Deal(p)>> \o m)
<1>1. /\ p \in Dealings /\ p[1] \in Seq(Worths) /\ p[2] \in Seq(Worths)
      /\ OnceEach(p[1]) /\ OnceEach(p[2]) /\ Large(p[2])
      /\ \A s : Has(p[1], s) \in Nat /\ Has(p[2], s) \in Nat
    BY FairIs
<1> DEFINE n == Head(p[1])[1]
           l == Head(p[2])[1]
           x == Head(p[1])[2]
           y == Head(p[2])[2]
           a == Amt(p)
           u == Transfers!Left(p[1], a)
           v == Transfers!Without(p[2], a)
<1>2. p[2] # <<>> /\ q = <<u, v>> /\ q \in Dealings /\ Deal(p) \in Deals
    BY <1>1, StepsDown DEF Later, Skips
<1>3. q[1] = u /\ q[2] = v
    BY <1>2
<1>4. n \in Nat /\ l \in Nat
    BY <1>1, <1>2, HeadIs
<1>5. a \in Nat /\ a <= n /\ a <= l
    BY <1>4, AmtIs
<1>6. Deal(p).src = y /\ Deal(p).dst = x /\ Deal(p).amt = a
    BY DEF Deal, Transfers!Move
<1>7. v = IF l - a < MinMove THEN Tail(p[2]) ELSE Transfers!Left(p[2], a)
    BY DEF Transfers!Without
<1> HIDE DEF a
<1>8. OnceEach(u) /\ \A s : Has(u, s) = Has(p[1], s) - (IF s = x THEN a ELSE 0)
    BY <1>1, <1>5, HasLeft
<1>9. /\ v \in Seq(Worths) /\ OnceEach(v) /\ Large(v) /\ Has(p[2], y) = l
      /\ \A s : s # y => Has(v, s) = Has(p[2], s)
      /\ Has(v, y) = l - a \/ (Has(v, y) = 0 /\ l - a < MinMove)
    <2>1. /\ OnceEach(Tail(p[2])) /\ Large(Tail(p[2])) /\ Has(Tail(p[2]), y) = 0 /\ Tail(p[2]) \in Seq(Worths)
          /\ \A s : Has(p[2], s) = IF s = y THEN l ELSE Has(Tail(p[2]), s)
        BY <1>1, <1>2, HasFirst, FirstAndRest
    <2>2. CASE l - a < MinMove
        BY <1>7, <2>1, <2>2
    <2>3. CASE ~(l - a < MinMove)
        <3>1. v = Transfers!Left(p[2], a)
            BY <1>7, <2>3
        <3>2. l - a >= MinMove
            BY <1>4, <1>5, <2>3, PlanConstants
        <3>3. /\ v \in Seq(Worths) /\ OnceEach(v) /\ Large(v)
              /\ \A s : Has(v, s) = Has(p[2], s) - (IF s = y THEN a ELSE 0)
            BY <1>1, <1>2, <1>5, <3>1, <3>2, HasLeft
        <3>4. Has(v, y) = l - a
            BY <2>1, <3>3
        <3>5. ASSUME NEW s, s # y PROVE Has(v, s) = Has(p[2], s)
            <4>1. Has(p[2], s) \in Nat
                BY <1>1
            <4> QED
                BY <3>3, <3>5, <4>1
        <3> QED
            BY <2>1, <3>3, <3>4, <3>5
    <2> QED
        BY <2>2, <2>3
<1>10. Fair(q)
    BY <1>2, <1>3, <1>8, <1>9 DEF Fair
<1> HIDE DEF v, u, l, n, x, y
<1>11. ASSUME NEW m, Serves(q, m) PROVE Serves(p, <<Deal(p)>> \o m)
    <2> DEFINE w == <<Deal(p)>> \o m
    <2>1. /\ m \in Seq(Deals) /\ Within(q, m)
          /\ NeedsMet(q, m) \/ AllGiven(q, m)
        BY <1>11 DEF Serves
    <2>2. /\ \A s : Transfers!Out(m, s) \in Nat /\ Transfers!In(m, s) \in Nat
          /\ \A s : Transfers!Out(m, s) <= Has(v, s) /\ Transfers!In(m, s) <= Has(u, s)
        BY <1>3, <2>1, OutIn DEF Within
    <2>3. w \in Seq(Deals)
        BY <1>2, <2>1, InFront
    <2>4. \A s : /\ Transfers!Out(w, s) = Transfers!Out(m, s) + (IF y = s THEN a ELSE 0)
                 /\ Transfers!In(w, s) = Transfers!In(m, s) + (IF x = s THEN a ELSE 0)
        <3>1. \A s : /\ Transfers!Out(w, s) = Transfers!Out(m, s) + (IF Deal(p).src = s THEN Deal(p).amt ELSE 0)
                     /\ Transfers!In(w, s) = Transfers!In(m, s) + (IF Deal(p).dst = s THEN Deal(p).amt ELSE 0)
            <4>1. Preceded(w, Deal(p), m)
                BY <1>2, <2>1 DEF Preceded
            <4> QED
                BY ONLY <4>1, OutInFront
        <3> HIDE DEF w
        <3> QED
            BY ONLY <1>6, <3>1, Zenon
    <2> HIDE DEF w
    <2>5. ASSUME NEW s
          PROVE  /\ Transfers!In(w, s) <= Has(p[1], s)
                 /\ Has(p[1], s) - Transfers!In(w, s) = Has(u, s) - Transfers!In(m, s)
        <3>1. /\ Has(p[1], s) \in Nat /\ Transfers!In(m, s) \in Nat /\ Transfers!In(m, s) <= Has(u, s)
              /\ Has(u, s) = Has(p[1], s) - (IF s = x THEN a ELSE 0)
              /\ Transfers!In(w, s) = Transfers!In(m, s) + (IF x = s THEN a ELSE 0)
            BY <1>1, <1>8, <2>2, <2>4
        <3>2. CASE s = x
            BY <1>5, <3>1, <3>2
        <3>3. CASE s # x
            BY <1>5, <3>1, <3>3
        <3> QED
            BY <3>2, <3>3
    <2>6. ASSUME NEW s
          PROVE  /\ Transfers!Out(w, s) <= Has(p[2], s)
                 /\ \/ Has(p[2], s) - Transfers!Out(w, s) = Has(v, s) - Transfers!Out(m, s)
                    \/ Has(p[2], s) - Transfers!Out(w, s) < MinMove
        <3>1. /\ Has(p[2], s) \in Nat /\ Transfers!Out(m, s) \in Nat /\ Transfers!Out(m, s) <= Has(v, s)
              /\ Transfers!Out(w, s) = Transfers!Out(m, s) + (IF y = s THEN a ELSE 0)
            BY <1>1, <2>2, <2>4
        <3>2. CASE s = y /\ Has(v, y) = l - a
            BY <1>4, <1>5, <1>9, <3>1, <3>2
        <3>3. CASE s = y /\ Has(v, y) = 0 /\ l - a < MinMove
            <4>1. Transfers!Out(m, s) = 0
                BY <3>1, <3>3
            <4> QED
                BY <1>4, <1>5, <1>9, <3>1, <3>3, <4>1
        <3>4. CASE s # y
            BY <1>5, <1>9, <3>1, <3>4
        <3> QED
            BY <1>9, <3>2, <3>3, <3>4
    <2>7. Within(p, w)
        BY <2>5, <2>6 DEF Within
    <2>8. NeedsMet(p, w) \/ AllGiven(p, w)
        <3>1. CASE NeedsMet(q, m)
            <4>1. \A s : Has(u, s) - Transfers!In(m, s) < MinMove
                BY <1>3, <3>1 DEF NeedsMet
            <4> QED
                BY <2>5, <4>1 DEF NeedsMet
        <3>2. CASE AllGiven(q, m)
            <4>1. \A s : Has(v, s) - Transfers!Out(m, s) < MinMove
                BY <1>3, <3>2 DEF AllGiven
            <4>2. \A s : Has(p[2], s) - Transfers!Out(w, s) < MinMove
                BY <2>6, <4>1
            <4> QED
                BY <4>2 DEF AllGiven
        <3> QED
            BY <2>1, <3>1, <3>2
    <2> QED
        BY <1>2, <2>3, <2>7, <2>8 DEF Serves, w
<1> QED
    BY <1>10, <1>11

LEMMA MatchServes == ASSUME NEW p, Fair(p) PROVE Serves(p, Transfers!Match[p])
<1> DEFINE X == {k \in Nat : \A q \in Dealings : Fair(q) /\ Steps(q) <= k => Serves(q, Transfers!Match[q])}
<1>1. ASSUME NEW q, Fair(q), q[1] = <<>> PROVE Serves(q, Transfers!Match[q])
    <2>1. q \in Dealings /\ \A s : Has(q[1], s) \in Nat /\ Has(q[2], s) \in Nat
        BY <1>1, FairIs
    <2>2. Transfers!Match[q] = <<>>
        BY <1>1, <2>1, MatchIs DEF DealsOf
    <2>3. <<>> \in Seq(Deals) /\ \A s : Transfers!Out(<<>>, s) = 0 /\ Transfers!In(<<>>, s) = 0
        BY EmptySeq, OutIn
    <2>4. Within(q, <<>>)
        BY <2>1, <2>3 DEF Within
    <2>5. NeedsMet(q, <<>>)
        <3>1. \A s : Has(q[1], s) = 0
            BY <1>1, HasNothing
        <3> QED
            BY <2>3, <3>1, PlanConstants DEF NeedsMet
    <2> QED
        BY <2>2, <2>3, <2>4, <2>5 DEF Serves
<1>2. ASSUME NEW q, Fair(q), q[1] # <<>>, Fair(Later(q)) => Serves(Later(q), Transfers!Match[Later(q)])
      PROVE  Serves(q, Transfers!Match[q])
    <2>1. q \in Dealings
        BY <1>2, FairIs
    <2>2. Transfers!Match[q] = IF Skips(q) THEN Transfers!Match[Later(q)] ELSE <<Deal(q)>> \o Transfers!Match[Later(q)]
        BY <1>2, <2>1, MatchIs DEF DealsOf
    <2>3. CASE Skips(q)
        BY <1>2, <2>2, <2>3, ServesSkipped
    <2>4. CASE ~Skips(q)
        BY <1>2, <2>2, <2>4, ServesDealt
    <2> QED
        BY <2>3, <2>4
<1>3. 0 \in X
    <2> SUFFICES ASSUME NEW q \in Dealings, Fair(q), Steps(q) <= 0 PROVE Serves(q, Transfers!Match[q])
        OBVIOUS
    <2>1. q[1] # <<>> => Steps(Later(q)) \in Nat /\ Steps(Later(q)) < Steps(q)
        BY StepsDown
    <2>2. Steps(q) \in Nat
        BY StepsDown
    <2>3. q[1] = <<>>
        BY <2>1, <2>2
    <2> QED
        BY <1>1, <2>3
<1>4. ASSUME NEW k \in Nat, k \in X PROVE k + 1 \in X
    <2> SUFFICES ASSUME NEW q \in Dealings, Fair(q), Steps(q) <= k + 1 PROVE Serves(q, Transfers!Match[q])
        OBVIOUS
    <2>1. CASE q[1] = <<>>
        BY <1>1, <2>1
    <2>2. CASE q[1] # <<>>
        <3>1. Later(q) \in Dealings /\ Steps(Later(q)) < Steps(q) /\ Steps(q) \in Nat
            BY <2>2, StepsDown
        <3>2. Steps(Later(q)) \in Nat
            BY <3>1, StepsDown
        <3>3. Steps(Later(q)) <= k
            BY <3>1, <3>2
        <3>4. Fair(Later(q)) => Serves(Later(q), Transfers!Match[Later(q)])
            BY <1>4, <3>1, <3>3
        <3> QED
            BY <1>2, <2>2, <3>4
    <2> QED
        BY <2>1, <2>2
<1>5. X \in SUBSET Nat
    OBVIOUS
<1>6. p \in Dealings /\ Steps(p) \in Nat
    BY FairIs, StepsDown
<1> HIDE DEF X
<1>7. Steps(p) \in X
    BY <1>3, <1>4, <1>5, <1>6, SetInduction
<1> QED
    BY <1>6, <1>7 DEF X

-----------------------------------------------------------------------------
\* What a side is to be for amounts n: the shards with as much as a transfer.
Worthy(n) == {<<n[s], s>> : s \in {x \in PlanShards : n[x] >= MinMove}}

LEMMA SortedIs ==
    ASSUME NEW n \in [PlanShards -> Int], NEW q, q = Transfers!Sorted(n)
    PROVE  /\ q \in Seq(Worths) /\ OnceEach(q) /\ Large(q)
           /\ \A s \in PlanShards : Has(q, s) = IF n[s] >= MinMove THEN n[s] ELSE 0
           /\ (\A s \in PlanShards : n[s] < MinMove) => q = <<>>
<1> DEFINE S == Worthy(n)
           k == Cardinality(S)
           Desc(r) == \A i, j \in DOMAIN r : i < j => r[i][1] > r[j][1] \/ (r[i][1] = r[j][1] /\ r[i][2] > r[j][2])
<1>1. /\ S \in SUBSET (Nat \X Nat) /\ S \in SUBSET Worths /\ IsFiniteSet(S)
      /\ S = {<<n[s], s>> : s \in {x \in PlanShards : n[x] >= MinMove}}
    <2> DEFINE P == {x \in PlanShards : n[x] >= MinMove}
    <2>1. IsFiniteSet(P) /\ P \subseteq PlanShards
        BY PlanConstants, FS_Subset
    <2>2. \A s \in P : n[s] \in Nat /\ s \in Nat /\ s \in PlanShards
        BY PlanConstants
    <2>3. S = {<<n[s], s>> : s \in P}
        BY DEF Worthy
    <2> HIDE DEF P, S
    <2>4. [s \in P |-> <<n[s], s>>] \in Surjection(P, S)
        BY <2>3 DEF Surjection
    <2>5. IsFiniteSet(S)
        BY <2>1, <2>4, FS_Surjection
    <2>6. S \in SUBSET (Nat \X Nat) /\ S \in SUBSET Worths
        BY <2>2, <2>3 DEF Worths
    <2> QED
        BY <2>3, <2>5, <2>6 DEF P
<1>2. q = CHOOSE r \in [1..k -> S] : Desc(r)
    BY <1>1, SameSize DEF Transfers!Sorted
<1>3. k \in Nat
    BY <1>1, FS_CardinalityType
<1>4. \A x \in S : \E s \in PlanShards : n[s] >= MinMove /\ x = <<n[s], s>> /\ x[1] = n[s] /\ x[2] = s
    BY <1>1
<1>5. \A s \in PlanShards : n[s] >= MinMove => <<n[s], s>> \in S
    BY <1>1
<1> HIDE DEF S, k
<1>6. \E r \in [1..k -> S] : Desc(r)
    <2>1. PICK b \in [1..k -> S] : \A i, j \in 1..k : i < j => ComesFirst(b[i], b[j])
        BY <1>1, Ordering DEF k
    <2> DEFINE r == [i \in 1..k |-> b[k + 1 - i]]
    <2>2. \A i \in 1..k : k + 1 - i \in 1..k
        BY <1>3
    <2>3. r \in [1..k -> S] /\ DOMAIN r = 1..k /\ \A i \in 1..k : r[i] = b[k + 1 - i]
        BY <2>2
    <2> HIDE DEF r
    <2>4. ASSUME NEW i \in 1..k, NEW j \in 1..k, i < j
          PROVE  r[i][1] > r[j][1] \/ (r[i][1] = r[j][1] /\ r[i][2] > r[j][2])
        <3>1. k + 1 - j < k + 1 - i
            BY <1>3, <2>4
        <3>2. ComesFirst(r[j], r[i])
            BY <2>1, <2>2, <2>3, <3>1
        <3>3. r[i] \in Nat \X Nat /\ r[j] \in Nat \X Nat
            BY <1>1, <2>3
        <3> QED
            BY <3>2, <3>3 DEF ComesFirst
    <2>5. Desc(r)
        BY <2>3, <2>4
    <2> QED
        BY <2>3, <2>5
<1>7. q \in [1..k -> S] /\ Desc(q)
    <2> HIDE DEF Desc
    <2> QED
        BY <1>2, <1>6
<1>8. \A i, j \in 1..k : i < j => q[i] # q[j]
    <2> SUFFICES ASSUME NEW i \in 1..k, NEW j \in 1..k, i < j, q[i] = q[j] PROVE FALSE
        OBVIOUS
    <2>1. q[i] \in Nat \X Nat
        BY <1>1, <1>7
    <2>2. q[i][1] > q[j][1] \/ (q[i][1] = q[j][1] /\ q[i][2] > q[j][2])
        BY <1>7
    <2> QED
        BY <2>1, <2>2
<1>9. /\ \A i, j \in 1..k : i # j => q[i] # q[j]
      /\ \A x \in S : \E i \in 1..k : q[i] = x
    <2>1. Lists(q, S)
        BY <1>7, <1>8 DEF Lists, k
    <2>2. IsFiniteSet(S)
        BY <1>1
    <2>3. /\ \A i, j \in 1..Cardinality(S) : i # j => q[i] # q[j]
          /\ \A x \in S : \E i \in 1..Cardinality(S) : q[i] = x
        BY ONLY <2>1, <2>2, OrderedAll
    <2> QED
        BY ONLY <2>3 DEF k
<1>10. q \in Seq(Worths) /\ Len(q) = k
    <2>1. q \in [1..k -> Worths]
        BY <1>1, <1>7
    <2> QED
        BY <1>3, <2>1, IsASeq, LenProperties
<1>11. \A i \in 1..k : q[i] \in S
    BY <1>7
<1>12. Large(q)
    <2> SUFFICES ASSUME NEW i \in 1..k PROVE q[i][1] >= MinMove
        BY <1>10 DEF Large
    <2> QED
        BY <1>4, <1>11
<1>13. OnceEach(q)
    <2> SUFFICES ASSUME NEW i \in 1..k, NEW j \in 1..k, i # j, q[i][2] = q[j][2] PROVE FALSE
        BY <1>10 DEF OnceEach
    <2>1. PICK s \in PlanShards : q[i] = <<n[s], s>> /\ q[i][2] = s
        BY <1>4, <1>11
    <2>2. PICK o \in PlanShards : q[j] = <<n[o], o>> /\ q[j][2] = o
        BY <1>4, <1>11
    <2>3. q[i] = q[j]
        BY <2>1, <2>2
    <2> QED
        BY <1>9, <2>3
<1>14. ASSUME NEW s \in PlanShards PROVE Has(q, s) = IF n[s] >= MinMove THEN n[s] ELSE 0
    <2>1. CASE n[s] >= MinMove
        <3>1. PICK i \in 1..k : q[i] = <<n[s], s>>
            BY <1>5, <1>9, <2>1
        <3>2. Has(q, q[i][2]) = q[i][1]
            BY <1>10, <1>13, HasIs
        <3> QED
            BY <2>1, <3>1, <3>2
    <2>2. CASE ~(n[s] >= MinMove)
        <3>1. \A i \in 1..k : q[i][2] # s
            <4> SUFFICES ASSUME NEW i \in 1..k, q[i][2] = s PROVE FALSE
                OBVIOUS
            <4> QED
                BY <1>4, <1>11, <2>2
        <3> QED
            BY <1>10, <1>13, <2>2, <3>1, HasIs
    <2> QED
        BY <2>1, <2>2
<1>15. ASSUME \A s \in PlanShards : n[s] < MinMove PROVE q = <<>>
    <2>1. \A x \in S : FALSE
        BY <1>4, <1>15, PlanConstants
    <2>2. \A i \in 1..k : FALSE
        BY <1>11, <2>1
    <2>3. k = 0
        BY <1>3, <2>2
    <2> QED
        BY <1>10, <2>3, EmptySeq
<1> QED
    BY <1>10, <1>12, <1>13, <1>14, <1>15

-----------------------------------------------------------------------------
\* What the transfers of a round do, from any cash and targets.
RoundIs(c, w, urgent, m) ==
    /\ m \in Seq(Deals)
    /\ \A s \in PlanShards : /\ Transfers!Out(m, s) <= Transfers!Larger(0, -Transfers!Gap(c, w, s))
                             /\ Transfers!In(m, s) <= Transfers!Larger(0, Transfers!Gap(c, w, s))
    /\ Transfers!Behind(c, w, urgent) \/ Transfers!IdleMoney(c, w) =>
           \/ \A s \in PlanShards : Transfers!Gap(c, w, s) - Transfers!In(m, s) < MinMove
           \/ \A s \in PlanShards : -Transfers!Gap(c, w, s) - Transfers!Out(m, s) < MinMove
    /\ \/ ~Transfers!Behind(c, w, urgent) /\ ~Transfers!IdleMoney(c, w)
       \/ \A s \in PlanShards : Transfers!Gap(c, w, s) < MinMove
       \/ \A s \in PlanShards : -Transfers!Gap(c, w, s) < MinMove
       => m = <<>>

LEMMA PlanIs ==
    ASSUME NEW c \in [PlanShards -> Int], NEW w \in [PlanShards -> Int], NEW urgent,
           NEW m, m = Transfers!Plan(c, w, urgent)
    PROVE  RoundIs(c, w, urgent, m)
<1> DEFINE g == [s \in PlanShards |-> Transfers!Gap(c, w, s)]
           h == [s \in PlanShards |-> -Transfers!Gap(c, w, s)]
           p == <<Transfers!Sorted(g), Transfers!Sorted(h)>>
           quiet == ~Transfers!Behind(c, w, urgent) /\ ~Transfers!IdleMoney(c, w)
<1>1. \A s \in PlanShards : Transfers!Gap(c, w, s) \in Int
    BY DEF Transfers!Gap
<1>2. m = IF quiet THEN <<>> ELSE Transfers!Match[p]
    BY DEF Transfers!Plan
<1>3. /\ g \in [PlanShards -> Int] /\ h \in [PlanShards -> Int]
      /\ \A s \in PlanShards : g[s] = Transfers!Gap(c, w, s) /\ h[s] = -Transfers!Gap(c, w, s) /\ h[s] = -g[s]
    BY <1>1
<1>4. p[1] = Transfers!Sorted(g) /\ p[2] = Transfers!Sorted(h)
    OBVIOUS
<1> HIDE DEF g, h
<1>5. /\ p[1] \in Seq(Worths) /\ OnceEach(p[1])
      /\ \A s \in PlanShards : Has(p[1], s) = IF g[s] >= MinMove THEN g[s] ELSE 0
      /\ (\A s \in PlanShards : g[s] < MinMove) => p[1] = <<>>
    BY <1>3, <1>4, SortedIs
<1>6. /\ p[2] \in Seq(Worths) /\ OnceEach(p[2]) /\ Large(p[2])
      /\ \A s \in PlanShards : Has(p[2], s) = IF h[s] >= MinMove THEN h[s] ELSE 0
      /\ (\A s \in PlanShards : h[s] < MinMove) => p[2] = <<>>
    BY <1>3, <1>4, SortedIs
<1>7. p \in Dealings
    BY <1>4, <1>5, <1>6 DEF Dealings, Transfers!Sides, Worths
<1> HIDE DEF p, quiet
<1>8. Fair(p)
    BY <1>5, <1>6, <1>7 DEF Fair
<1>9. Serves(p, Transfers!Match[p])
    BY <1>8, MatchServes
<1>10. /\ m \in Seq(Deals)
       /\ \A s \in PlanShards : Transfers!Out(m, s) \in Nat /\ Transfers!In(m, s) \in Nat
       /\ quiet => m = <<>>
       /\ \A s \in PlanShards : quiet => Transfers!Out(m, s) = 0 /\ Transfers!In(m, s) = 0
    <2>1. m \in Seq(Deals)
        BY <1>2, <1>9, EmptySeq DEF Serves
    <2> QED
        BY <1>2, <2>1, OutIn
<1>11. ~quiet => Serves(p, m)
    BY <1>2, <1>9
<1>12. ASSUME NEW s \in PlanShards
       PROVE  /\ Transfers!Out(m, s) <= Transfers!Larger(0, h[s])
              /\ Transfers!In(m, s) <= Transfers!Larger(0, g[s])
    <2>1. CASE quiet
        BY <1>3, <1>10, <2>1 DEF Transfers!Larger
    <2>2. CASE ~quiet
        <3>1. Transfers!Out(m, s) <= Has(p[2], s) /\ Transfers!In(m, s) <= Has(p[1], s)
            BY <1>11, <2>2 DEF Serves, Within
        <3> QED
            BY <1>3, <1>5, <1>6, <1>10, <3>1, PlanConstants DEF Transfers!Larger
    <2> QED
        BY <2>1, <2>2
<1>13. ASSUME ~quiet
       PROVE  \/ \A s \in PlanShards : g[s] - Transfers!In(m, s) < MinMove
              \/ \A s \in PlanShards : h[s] - Transfers!Out(m, s) < MinMove
    <2>1. CASE NeedsMet(p, m)
        <3> SUFFICES ASSUME NEW s \in PlanShards PROVE g[s] - Transfers!In(m, s) < MinMove
            OBVIOUS
        <3>1. Has(p[1], s) - Transfers!In(m, s) < MinMove
            BY <2>1 DEF NeedsMet
        <3> QED
            BY <1>3, <1>5, <1>10, <3>1, PlanConstants
    <2>2. CASE AllGiven(p, m)
        <3> SUFFICES ASSUME NEW s \in PlanShards PROVE h[s] - Transfers!Out(m, s) < MinMove
            OBVIOUS
        <3>1. Has(p[2], s) - Transfers!Out(m, s) < MinMove
            BY <2>2 DEF AllGiven
        <3> QED
            BY <1>3, <1>6, <1>10, <3>1, PlanConstants
    <2> QED
        BY <1>11, <1>13, <2>1, <2>2 DEF Serves
<1>14. ASSUME quiet \/ (\A s \in PlanShards : g[s] < MinMove) \/ (\A s \in PlanShards : h[s] < MinMove)
       PROVE  m = <<>>
    BY <1>5, <1>6, <1>10, <1>11, <1>14 DEF Serves
<1> QED
    <2>1. \A s \in PlanShards : /\ Transfers!Out(m, s) <= Transfers!Larger(0, -Transfers!Gap(c, w, s))
                                /\ Transfers!In(m, s) <= Transfers!Larger(0, Transfers!Gap(c, w, s))
        BY <1>3, <1>12
    <2>2. Transfers!Behind(c, w, urgent) \/ Transfers!IdleMoney(c, w) =>
              \/ \A s \in PlanShards : Transfers!Gap(c, w, s) - Transfers!In(m, s) < MinMove
              \/ \A s \in PlanShards : -Transfers!Gap(c, w, s) - Transfers!Out(m, s) < MinMove
        BY <1>3, <1>13 DEF quiet
    <2>3. \/ ~Transfers!Behind(c, w, urgent) /\ ~Transfers!IdleMoney(c, w)
          \/ \A s \in PlanShards : Transfers!Gap(c, w, s) < MinMove
          \/ \A s \in PlanShards : -Transfers!Gap(c, w, s) < MinMove
          => m = <<>>
        BY <1>3, <1>14 DEF quiet
    <2> QED
        BY <1>10, <2>1, <2>2, <2>3 DEF RoundIs

\* What the shards are left with.
LEMMA AfterIs ==
    ASSUME NEW c \in [PlanShards -> Int], NEW w \in [PlanShards -> Int], NEW urgent,
           NEW m, m = Transfers!Plan(c, w, urgent), NEW d, d = Transfers!After(c, m)
    PROVE  /\ d \in [PlanShards -> Int]
           /\ \A s \in PlanShards :
                 /\ Transfers!Out(m, s) \in Nat /\ Transfers!In(m, s) \in Nat
                 /\ Transfers!Gap(c, w, s) \in Int
                 /\ Transfers!Gap(d, w, s) = Transfers!Gap(c, w, s) + Transfers!Out(m, s) - Transfers!In(m, s)
           /\ m = <<>> => d = c
<1>1. m \in Seq(Deals)
    BY PlanIs DEF RoundIs
<1>2. /\ \A s \in PlanShards : Transfers!Out(m, s) \in Nat /\ Transfers!In(m, s) \in Nat
      /\ m = <<>> => \A s \in PlanShards : Transfers!Out(m, s) = 0 /\ Transfers!In(m, s) = 0
    BY <1>1, OutIn
<1>3. d = [s \in PlanShards |-> c[s] - Transfers!Out(m, s) + Transfers!In(m, s)]
    BY DEF Transfers!After
<1>4. \A s \in PlanShards : d[s] = c[s] - Transfers!Out(m, s) + Transfers!In(m, s) /\ d[s] \in Int
    BY <1>2, <1>3
<1>5. d \in [PlanShards -> Int]
    BY <1>3, <1>4
<1>6. m = <<>> => d = c
    BY <1>2, <1>3
<1>7. ASSUME NEW s \in PlanShards
      PROVE  /\ Transfers!Gap(c, w, s) \in Int
             /\ Transfers!Gap(d, w, s) = Transfers!Gap(c, w, s) + Transfers!Out(m, s) - Transfers!In(m, s)
    BY <1>2, <1>4 DEF Transfers!Gap
<1> QED
    BY <1>2, <1>5, <1>6, <1>7

\* And after a round there is nothing to do.
LEMMA Settled ==
    ASSUME NEW c \in [PlanShards -> Int], NEW w \in [PlanShards -> Int], NEW urgent,
           NEW d, d = Transfers!After(c, Transfers!Plan(c, w, urgent))
    PROVE  Transfers!Plan(d, w, {}) = <<>>
<1> DEFINE m == Transfers!Plan(c, w, urgent)
<1>1. /\ d \in [PlanShards -> Int]
      /\ \A s \in PlanShards :
            /\ Transfers!Out(m, s) \in Nat /\ Transfers!In(m, s) \in Nat
            /\ Transfers!Gap(c, w, s) \in Int
            /\ Transfers!Gap(d, w, s) = Transfers!Gap(c, w, s) + Transfers!Out(m, s) - Transfers!In(m, s)
      /\ m = <<>> => d = c
    BY AfterIs
<1>2. RoundIs(c, w, urgent, m) /\ RoundIs(d, w, {}, Transfers!Plan(d, w, {}))
    BY <1>1, PlanIs
<1> HIDE DEF m
<1>3. CASE ~Transfers!Behind(c, w, urgent) /\ ~Transfers!IdleMoney(c, w)
    <2>1. d = c
        BY <1>1, <1>2, <1>3 DEF RoundIs
    <2>2. ~Transfers!Behind(c, w, {})
        BY <1>3 DEF Transfers!Behind
    <2> QED
        BY <1>2, <1>3, <2>1, <2>2 DEF RoundIs
<1>4. CASE \A s \in PlanShards : Transfers!Gap(c, w, s) - Transfers!In(m, s) < MinMove
    <2>1. ASSUME NEW s \in PlanShards PROVE Transfers!Gap(d, w, s) < MinMove
        <3>1. Transfers!Out(m, s) <= Transfers!Larger(0, -Transfers!Gap(c, w, s))
            BY <1>2 DEF RoundIs
        <3>2. CASE Transfers!Gap(c, w, s) >= 0
            BY <1>1, <1>4, <3>1, <3>2, PlanConstants DEF Transfers!Larger
        <3>3. CASE Transfers!Gap(c, w, s) < 0
            BY <1>1, <3>1, <3>3, PlanConstants DEF Transfers!Larger
        <3> QED
            BY <1>1, <3>2, <3>3
    <2> QED
        BY <1>2, <2>1 DEF RoundIs
<1>5. CASE \A s \in PlanShards : -Transfers!Gap(c, w, s) - Transfers!Out(m, s) < MinMove
    <2>1. ASSUME NEW s \in PlanShards PROVE -Transfers!Gap(d, w, s) < MinMove
        <3>1. Transfers!In(m, s) <= Transfers!Larger(0, Transfers!Gap(c, w, s))
            BY <1>2 DEF RoundIs
        <3>2. CASE Transfers!Gap(c, w, s) >= 0
            BY <1>1, <3>1, <3>2, PlanConstants DEF Transfers!Larger
        <3>3. CASE Transfers!Gap(c, w, s) < 0
            BY <1>1, <1>5, <3>1, <3>3, PlanConstants DEF Transfers!Larger
        <3> QED
            BY <1>1, <3>2, <3>3
    <2> QED
        BY <1>2, <2>1 DEF RoundIs
<1> QED
    BY <1>2, <1>3, <1>4, <1>5 DEF RoundIs

PlanInv == planned \in [PlanShards -> Int] /\ want \in [PlanShards -> Int] /\ short \subseteq PlanShards

\* Rebalancer.step serves what it can of what the shards lack, takes none below its target, and
\* leaves nothing for the next round, whatever they hold and however many they are.
THEOREM RoundsServe == MCSpec => RoundServes
<1>1. MCInit => (part = "plan" => PlanInv)
    <2> SUFFICES ASSUME MCInit, part = "plan" PROVE PlanInv
        OBVIOUS
    <2>1. Transfers!Init
        BY Zenon DEF MCInit
    <2>2. 0..MaxPlanCash \subseteq Int
        BY PlanAssumption DEF Transfers!AmountsFit
    <2> QED
        BY <2>1, <2>2 DEF Transfers!Init, Transfers!Amounts, PlanInv
<1>2. (part = "plan" => PlanInv) /\ [MCNext]_all => (part = "plan" => PlanInv)'
    <2> SUFFICES ASSUME part = "plan" => PlanInv, [MCNext]_all, part' = "plan"
                 PROVE  PlanInv'
        OBVIOUS
    <2>1. CASE MCNext
        <3>1. part = "plan" /\ Transfers!Next
            BY <2>1, Zenon DEF MCNext
        <3>2. /\ planned' = Transfers!After(planned, Transfers!Plan(planned, want, short))
              /\ want' = want /\ short' = {}
            BY <3>1 DEF Transfers!Next, Transfers!Round
        <3> QED
            BY <3>1, <3>2, AfterIs DEF PlanInv
    <2>2. CASE UNCHANGED all
        <3>1. part = "plan" /\ planned' = planned /\ want' = want /\ short' = short
            BY <2>2, Zenon DEF all, plan
        <3> QED
            BY <3>1 DEF PlanInv
    <2> QED
        BY <2>1, <2>2
<1>3. (part = "plan" => PlanInv) => (part = "plan" => Transfers!OnlySpare /\ Transfers!ShortServed)
    <2> SUFFICES ASSUME PlanInv PROVE Transfers!OnlySpare /\ Transfers!ShortServed
        OBVIOUS
    <2>1. RoundIs(planned, want, short, Transfers!Moves)
        BY PlanIs DEF PlanInv, Transfers!Moves
    <2>2. Transfers!OnlySpare
        BY <2>1 DEF RoundIs, Transfers!OnlySpare
    <2>3. ASSUME NEW s \in short, Transfers!Gap(planned, want, s) >= MinMove
          PROVE  \/ Transfers!Gap(planned, want, s) - Transfers!In(Transfers!Moves, s) < MinMove
                 \/ \A o \in PlanShards : -Transfers!Gap(planned, want, o) - Transfers!Out(Transfers!Moves, o) < MinMove
        <3>1. Transfers!Behind(planned, want, short)
            BY <2>3 DEF PlanInv, Transfers!Behind
        <3>2. s \in PlanShards
            BY <2>3 DEF PlanInv
        <3> QED
            BY <2>1, <3>1, <3>2 DEF RoundIs
    <2> QED
        BY <2>2, <2>3 DEF Transfers!ShortServed
<1>4. (part = "plan" => PlanInv) /\ [MCNext]_all => [part = "plan" => Transfers!SettledBy]_all
    <2> SUFFICES ASSUME PlanInv, part = "plan", MCNext PROVE Transfers!SettledBy
        OBVIOUS
    <2>1. Transfers!Next
        BY Zenon DEF MCNext
    <2>2. /\ planned' = Transfers!After(planned, Transfers!Plan(planned, want, short))
          /\ want' = want
        BY <2>1 DEF Transfers!Next, Transfers!Round
    <2> QED
        BY <2>2, Settled DEF PlanInv, Transfers!SettledBy
<1> QED
    BY <1>1, <1>2, <1>3, <1>4, PTL DEF MCSpec, RoundServes
=============================================================================
