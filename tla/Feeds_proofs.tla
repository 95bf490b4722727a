----------------------------- MODULE Feeds_proofs -----------------------------
(***************************************************************************)
(* The feeds.  KalshiFeed keeps what BookPromise promises of its books, for *)
(* any markets and whatever Kalshi loses, refuses or sends again.           *)
(*                                                                         *)
(* The argument follows a market's messages along the wire.  Numbers: the   *)
(* numbered messages on the wire are the connection's newest, without a     *)
(* gap.  Counts: those about a market tell of its changes one by one, none  *)
(* older than what was shown.  So while the next number is the one that     *)
(* comes (NoHole), what comes next about a market that is up continues its  *)
(* book (Continues); when it isn't, the number shows it and all books go    *)
(* down.  Once all is quiet the books are in line with what is wanted       *)
(* (InLine).                                                               *)
(*                                                                         *)
(* Polymarket US's feed (PMFeed), for any markets, connections and limits,  *)
(* never asks the server for more than it allows, and once all is quiet     *)
(* each wanted market is streamed once and its book is the exchange's,      *)
(* unless the last one that came was thrown away or taken down.             *)
(*                                                                         *)
(* Most of that argument is about one connection.  What the server will     *)
(* serve once it has had all commands is what _subs says (Asked); a _sync   *)
(* without a change in between leaves _subs in line with wanted (Line); and *)
(* of each market it is sent, the exchange's book is either the one up, or  *)
(* the last on its way (Latest, Right).                                     *)
(*                                                                         *)
(* Last, the types of both, which MCFeeds checks together.                  *)
(***************************************************************************)
EXTENDS MCFeeds, Sums


-----------------------------------------------------------------------------
(* Kalshi: the invariant *)

Booked == [kind : {"snapshot", "delta"}, t : Tickers, n : Nat, seq : Nat \ {0}]
Answers == [kind : {"subscribed"}, seq : {0}] \cup [kind : {"ok"}, seq : Nat \ {0}]
Errors == [kind : {"error"}, ts : SUBSET Tickers, seq : {0}]
Messages == Booked \cup Answers \cup Errors
Commands == [cmd : {"subscribe", "delete"}, ts : SUBSET Tickers]

KTypes ==
    /\ changes \in [Tickers -> Nat] /\ seen \in [Tickers -> Nat]
    /\ served \subseteq Tickers /\ owed \subseteq Tickers
    /\ seq \in Nat /\ last \in Nat
    /\ cmds \in Seq(Commands) /\ wire \in Seq(Messages)
    /\ wanted \subseteq Tickers /\ requested \subseteq Tickers
    /\ sync \in [at : {"idle", "start", "add", "more"}, todo : SUBSET Tickers]
    /\ halves \subseteq SUBSET Tickers
    /\ book \in [Tickers -> [ready : BOOLEAN, has : Seq(Nat)]]
    /\ world \in Worlds

\* Without a connection nothing is on its way, and Kalshi serves nothing.
NoConnection ==
    conn = "down" => /\ wire = <<>> /\ cmds = <<>> /\ served = {} /\ owed = {} /\ seq = 0
                     /\ sync = Idle /\ halves = {} /\ book = AllDown

\* The numbered messages on the wire w go up to q one by one, and are newer than l.
InSequence(w, q, l) ==
    /\ l <= q
    /\ \A i \in 1..Len(w) : w[i].seq <= q /\ (w[i].seq # 0 => w[i].seq > l)
    /\ \A i, j \in 1..Len(w) : i < j /\ w[i].seq # 0 /\ w[j].seq # 0 => w[i].seq < w[j].seq
    /\ \A i \in 1..Len(w) : w[i].seq # 0 =>
           w[i].seq = q \/ \E j \in 1..Len(w) : i < j /\ w[j].seq = w[i].seq + 1

Numbers == conn # "down" => InSequence(wire, seq, last)

About(m, t) == m.kind \in {"snapshot", "delta"} /\ m.t = t

\* What wire w tells of market t, whose book has changed c times and was shown with n of
\* its changes: one change after the other, up to the last if it is among those served.
Tells(t, w, n, c, among) ==
    /\ n <= c
    /\ \A i \in 1..Len(w) : About(w[i], t) => n <= w[i].n /\ w[i].n <= c
    /\ \A i, j \in 1..Len(w) : i < j /\ About(w[i], t) /\ About(w[j], t) =>
           w[i].n <= w[j].n /\ (w[j].kind = "delta" => w[i].n < w[j].n)
    /\ \A j \in 1..Len(w) : About(w[j], t) /\ w[j].kind = "delta" =>
           \/ \A i \in 1..Len(w) : i < j => ~About(w[i], t)
           \/ \E i \in 1..Len(w) : i < j /\ About(w[i], t) /\ w[i].n + 1 = w[j].n
    /\ t \in among /\ (\E i \in 1..Len(w) : About(w[i], t)) =>
           \E j \in 1..Len(w) : About(w[j], t) /\ w[j].n = c

Counts == \A t \in Tickers : Tells(t, wire, seen[t], changes[t], served)

\* The next number is the one that comes.
NoHole(w, q, l) == l = q \/ \E i \in 1..Len(w) : w[i].seq = l + 1

\* What comes next about market t is a new snapshot or the next change.
Continues(t, w, n, c, among) ==
    /\ \A j \in 1..Len(w) :
           /\ About(w[j], t) /\ w[j].kind = "delta"
           /\ \A i \in 1..Len(w) : i < j => ~About(w[i], t)
           => w[j].n = n + 1
    /\ t \in among /\ (\A i \in 1..Len(w) : ~About(w[i], t)) => n = c

\* A book that is up, and was not left by an ignored snapshot, will be continued.
Held(t) ==
    book[t].ready =>
        /\ last # 0 /\ sid /\ conn = "up" /\ ~gap
        /\ t \notin ignored =>
               /\ book[t] = Promise!Up(seen[t])
               /\ NoHole(wire, seq, last) => Continues(t, wire, seen[t], changes[t], served)

KInv == KTypes /\ NoConnection /\ Numbers /\ Counts /\ \A t \in Tickers : Held(t)

-----------------------------------------------------------------------------
(* The wire: its head leaves, a message joins *)

LEMMA TailIs ==
    ASSUME NEW w \in Seq(Messages), w # <<>>
    PROVE  /\ Tail(w) \in Seq(Messages) /\ Head(w) = w[1] /\ w[1] \in Messages
           /\ Len(w) \in Nat \ {0} /\ Len(Tail(w)) = Len(w) - 1
           /\ \A i \in 1..Len(Tail(w)) : Tail(w)[i] = w[i + 1] /\ i + 1 \in 1..Len(w)
           /\ \A i \in 1..Len(w) : i = 1 \/ (i - 1 \in 1..Len(Tail(w)) /\ Tail(w)[i - 1] = w[i])
    OBVIOUS

LEMMA AppendIs ==
    ASSUME NEW w \in Seq(Messages), NEW m \in Messages
    PROVE  /\ Append(w, m) \in Seq(Messages) /\ Len(w) \in Nat
           /\ Len(Append(w, m)) = Len(w) + 1 /\ Append(w, m)[Len(w) + 1] = m
           /\ \A i \in 1..Len(w) : Append(w, m)[i] = w[i]
    OBVIOUS

LEMMA MessageIs ==
    ASSUME NEW m \in Messages
    PROVE  /\ m.seq \in Nat
           /\ m.kind \in {"snapshot", "delta"} => m.t \in Tickers /\ m.n \in Nat /\ m.seq # 0
           /\ m.kind = "ok" => m.seq # 0
           /\ m.kind = "subscribed" => m.seq = 0
           /\ m.kind = "error" => m.seq = 0 /\ m.ts \subseteq Tickers
    BY DEF Messages, Booked, Answers, Errors

\* Losing the head leaves the rest in sequence, but a number is missing then.
LEMMA SequenceLost ==
    ASSUME NEW w \in Seq(Messages), w # <<>>, NEW q \in Nat, NEW l \in Nat, InSequence(w, q, l)
    PROVE  /\ InSequence(Tail(w), q, l)
           /\ Head(w).seq # 0 => ~NoHole(Tail(w), q, l)
           /\ Head(w).seq = 0 => (NoHole(Tail(w), q, l) => NoHole(w, q, l))
<1>1. \A i \in 1..Len(w) : w[i] \in Messages /\ w[i].seq \in Nat
    BY MessageIs
<1>2. \A i \in 1..Len(Tail(w)) : Tail(w)[i].seq \in Nat
    BY <1>1, TailIs
<1>3. InSequence(Tail(w), q, l)
    <2>1. \A i \in 1..Len(Tail(w)) : Tail(w)[i].seq # 0 =>
              Tail(w)[i].seq = q \/ \E j \in 1..Len(Tail(w)) : i < j /\ Tail(w)[j].seq = Tail(w)[i].seq + 1
        <3> SUFFICES ASSUME NEW i \in 1..Len(Tail(w)), Tail(w)[i].seq # 0, Tail(w)[i].seq # q
                     PROVE  \E j \in 1..Len(Tail(w)) : i < j /\ Tail(w)[j].seq = Tail(w)[i].seq + 1
            OBVIOUS
        <3>1. PICK j \in 1..Len(w) : i + 1 < j /\ w[j].seq = w[i + 1].seq + 1
            BY TailIs DEF InSequence
        <3>2. j - 1 \in 1..Len(Tail(w)) /\ i < j - 1 /\ Tail(w)[j - 1] = w[j]
            BY <3>1, TailIs
        <3> QED
            BY <3>1, <3>2, TailIs
    <2>2. /\ \A i \in 1..Len(Tail(w)) : Tail(w)[i] = w[i + 1] /\ i + 1 \in 1..Len(w)
          /\ Len(Tail(w)) \in Nat
        BY TailIs
    <2>3. \A i \in 1..Len(Tail(w)) : Tail(w)[i].seq <= q /\ (Tail(w)[i].seq # 0 => Tail(w)[i].seq > l)
        BY <2>2 DEF InSequence
    <2>4. \A i, j \in 1..Len(Tail(w)) :
              i < j /\ Tail(w)[i].seq # 0 /\ Tail(w)[j].seq # 0 => Tail(w)[i].seq < Tail(w)[j].seq
        BY <2>2 DEF InSequence
    <2>5. l <= q
        BY DEF InSequence
    <2> QED
        BY <2>1, <2>3, <2>4, <2>5 DEF InSequence
<1>4. Head(w).seq # 0 => ~NoHole(Tail(w), q, l)
    BY <1>1, <1>2, TailIs DEF InSequence, NoHole
<1>5. Head(w).seq = 0 => (NoHole(Tail(w), q, l) => NoHole(w, q, l))
    BY <1>1, <1>2, TailIs DEF NoHole
<1> QED
    BY <1>3, <1>4, <1>5

\* Taking a numbered head puts the number on it, and no number is missing.
LEMMA SequenceTaken ==
    ASSUME NEW w \in Seq(Messages), w # <<>>, NEW q \in Nat, NEW l \in Nat, InSequence(w, q, l),
           Head(w).seq # 0
    PROVE  /\ InSequence(Tail(w), q, Head(w).seq)
           /\ NoHole(Tail(w), q, Head(w).seq)
           /\ Head(w).seq = l + 1 => NoHole(w, q, l)
<1> DEFINE k == Head(w).seq
<1>1. \A i \in 1..Len(w) : w[i] \in Messages /\ w[i].seq \in Nat
    BY MessageIs
<1>2. \A i \in 1..Len(Tail(w)) : Tail(w)[i].seq \in Nat
    BY <1>1, TailIs
<1>3. k = w[1].seq /\ k \in Nat /\ k <= q /\ k > l /\ 1 \in 1..Len(w)
    BY <1>1, TailIs DEF InSequence
<1>4. InSequence(Tail(w), q, l)
    BY SequenceLost
<1>5. \A i \in 1..Len(Tail(w)) : Tail(w)[i].seq # 0 => Tail(w)[i].seq > k
    BY <1>1, <1>2, <1>3, TailIs DEF InSequence
<1>6. k = q \/ \E j \in 1..Len(w) : 1 < j /\ w[j].seq = k + 1
    BY <1>3 DEF InSequence
<1>7. NoHole(Tail(w), q, k)
    <2>1. CASE \E j \in 1..Len(w) : 1 < j /\ w[j].seq = k + 1
        <3>1. PICK j \in 1..Len(w) : 1 < j /\ w[j].seq = k + 1
            BY <2>1
        <3>2. j - 1 \in 1..Len(Tail(w)) /\ Tail(w)[j - 1] = w[j]
            BY <3>1, TailIs
        <3> QED
            BY <3>1, <3>2 DEF NoHole
    <2>2. CASE k = q
        BY <2>2 DEF NoHole
    <2> QED
        BY <1>6, <2>1, <2>2
<1>8. k = l + 1 => NoHole(w, q, l)
    BY <1>3 DEF NoHole
<1>9. InSequence(Tail(w), q, k)
    BY <1>2, <1>3, <1>4, <1>5 DEF InSequence
<1> QED
    BY <1>7, <1>8, <1>9

LEMMA SequenceJoined ==
    ASSUME NEW w \in Seq(Messages), NEW m \in Messages, NEW q \in Nat, NEW l \in Nat,
           InSequence(w, q, l)
    PROVE  /\ m.seq = 0 => /\ InSequence(Append(w, m), q, l)
                           /\ NoHole(Append(w, m), q, l) => NoHole(w, q, l)
           /\ m.seq = q + 1 => /\ InSequence(Append(w, m), q + 1, l)
                               /\ NoHole(Append(w, m), q + 1, l) => NoHole(w, q, l)
<1> DEFINE v == Append(w, m)
<1>1. \A i \in 1..Len(w) : w[i] \in Messages /\ w[i].seq \in Nat
    BY MessageIs
<1>2. \A i \in 1..Len(v) : v[i].seq \in Nat
    BY AppendIs, MessageIs
<1>3. /\ Len(w) \in Nat /\ Len(v) = Len(w) + 1 /\ v[Len(w) + 1] = m
      /\ \A i \in 1..Len(w) : v[i] = w[i] /\ i \in 1..Len(v)
      /\ \A i \in 1..Len(v) : i \in 1..Len(w) \/ i = Len(w) + 1
    BY AppendIs
<1> HIDE DEF v
<1>4. ASSUME m.seq = 0 PROVE InSequence(v, q, l) /\ (NoHole(v, q, l) => NoHole(w, q, l))
    <2>1. InSequence(v, q, l)
        <3>1. /\ l <= q
              /\ \A i \in 1..Len(v) : v[i].seq <= q /\ (v[i].seq # 0 => v[i].seq > l)
            BY <1>2, <1>3, <1>4 DEF InSequence
        <3>2. \A i, j \in 1..Len(v) : i < j /\ v[i].seq # 0 /\ v[j].seq # 0 => v[i].seq < v[j].seq
            BY <1>2, <1>3, <1>4 DEF InSequence
        <3>3. ASSUME NEW i \in 1..Len(v), v[i].seq # 0, v[i].seq # q
              PROVE  \E j \in 1..Len(v) : i < j /\ v[j].seq = v[i].seq + 1
            <4>1. i \in 1..Len(w) /\ w[i] = v[i]
                BY <1>3, <1>4, <3>3
            <4>2. PICK j \in 1..Len(w) : i < j /\ w[j].seq = w[i].seq + 1
                BY <3>3, <4>1 DEF InSequence
            <4> QED
                BY <1>3, <4>1, <4>2
        <3> QED
            BY <3>1, <3>2, <3>3 DEF InSequence
    <2>2. NoHole(v, q, l) => NoHole(w, q, l)
        BY <1>1, <1>3, <1>4 DEF NoHole
    <2> QED
        BY <2>1, <2>2
<1>5. ASSUME m.seq = q + 1
      PROVE  InSequence(v, q + 1, l) /\ (NoHole(v, q + 1, l) => NoHole(w, q, l))
    <2>1. \A i \in 1..Len(v) : v[i].seq # 0 =>
              v[i].seq = q + 1 \/ \E j \in 1..Len(v) : i < j /\ v[j].seq = v[i].seq + 1
        <3> SUFFICES ASSUME NEW i \in 1..Len(v), v[i].seq # 0, v[i].seq # q + 1
                     PROVE  \E j \in 1..Len(v) : i < j /\ v[j].seq = v[i].seq + 1
            OBVIOUS
        <3>1. i \in 1..Len(w) /\ w[i] = v[i] /\ i < Len(w) + 1
            BY <1>3, <1>5
        <3>2. CASE w[i].seq = q
            BY <1>3, <1>5, <3>1, <3>2
        <3>3. CASE \E j \in 1..Len(w) : i < j /\ w[j].seq = w[i].seq + 1
            BY <1>3, <3>1, <3>3
        <3> QED
            BY <3>1, <3>2, <3>3 DEF InSequence
    <2>2. /\ \A i \in 1..Len(v) : v[i].seq <= q + 1 /\ (v[i].seq # 0 => v[i].seq > l)
          /\ \A i, j \in 1..Len(v) : i < j /\ v[i].seq # 0 /\ v[j].seq # 0 => v[i].seq < v[j].seq
        <3>1. l <= q /\ \A i \in 1..Len(w) : w[i].seq <= q /\ (w[i].seq # 0 => w[i].seq > l)
            BY DEF InSequence
        <3>2. \A i \in 1..Len(v) : v[i].seq <= q + 1 /\ (v[i].seq # 0 => v[i].seq > l)
            BY <1>1, <1>3, <1>5, <3>1
        <3>3. \A i, j \in 1..Len(v) : i < j /\ v[i].seq # 0 /\ v[j].seq # 0 => v[i].seq < v[j].seq
            <4> SUFFICES ASSUME NEW i \in 1..Len(v), NEW j \in 1..Len(v),
                                i < j, v[i].seq # 0, v[j].seq # 0
                         PROVE  v[i].seq < v[j].seq
                OBVIOUS
            <4>1. i \in 1..Len(w) /\ v[i] = w[i]
                BY <1>3
            <4>2. CASE j \in 1..Len(w)
                BY <1>3, <4>1, <4>2 DEF InSequence
            <4>3. CASE j = Len(w) + 1
                BY <1>1, <1>3, <1>5, <3>1, <4>1, <4>3
            <4> QED
                BY <1>3, <4>2, <4>3
        <3> QED
            BY <3>2, <3>3
    <2>3. InSequence(v, q + 1, l)
        <3>1. l <= q + 1
            BY DEF InSequence
        <3> QED
            BY <2>1, <2>2, <3>1 DEF InSequence
    <2>4. NoHole(v, q + 1, l) => NoHole(w, q, l)
        BY <1>1, <1>3, <1>5 DEF InSequence, NoHole
    <2> QED
        BY <2>3, <2>4
<1> QED
    BY <1>4, <1>5 DEF v

LEMMA AboutIs ==
    ASSUME NEW w \in Seq(Messages), NEW t
    PROVE  \A i \in 1..Len(w) : About(w[i], t) => w[i].n \in Nat
    BY MessageIs DEF About

\* What the wire tells of a market still is in order without its first message.
LEMMA TaleLost ==
    ASSUME NEW w \in Seq(Messages), w # <<>>, NEW t, NEW n \in Nat, NEW c \in Nat, NEW among,
           Tells(t, w, n, c, among)
    PROVE  Tells(t, Tail(w), n, c, among)
<1> DEFINE v == Tail(w)
<1>1. /\ \A i \in 1..Len(v) : v[i] = w[i + 1] /\ i + 1 \in 1..Len(w)
      /\ \A i \in 1..Len(w) : i = 1 \/ (i - 1 \in 1..Len(v) /\ v[i - 1] = w[i])
      /\ Len(v) \in Nat /\ 1 \in 1..Len(w) /\ Len(w) \in Nat
    BY TailIs
<1>2. \A i \in 1..Len(w) : About(w[i], t) => w[i].n \in Nat
    BY AboutIs
<1> HIDE DEF v
<1>3. n <= c /\ \A i \in 1..Len(v) : About(v[i], t) => n <= v[i].n /\ v[i].n <= c
    BY <1>1 DEF Tells
<1>4. \A i, j \in 1..Len(v) : i < j /\ About(v[i], t) /\ About(v[j], t) =>
          v[i].n <= v[j].n /\ (v[j].kind = "delta" => v[i].n < v[j].n)
    <2> SUFFICES ASSUME NEW i \in 1..Len(v), NEW j \in 1..Len(v), i < j,
                        About(v[i], t), About(v[j], t)
                 PROVE  v[i].n <= v[j].n /\ (v[j].kind = "delta" => v[i].n < v[j].n)
        OBVIOUS
    <2>1. /\ i + 1 \in 1..Len(w) /\ v[i] = w[i + 1]
          /\ j + 1 \in 1..Len(w) /\ v[j] = w[j + 1] /\ i + 1 < j + 1
        BY <1>1
    <2> QED
        BY <2>1 DEF Tells
<1>5. ASSUME NEW j \in 1..Len(v), About(v[j], t), v[j].kind = "delta",
             NEW k \in 1..Len(v), k < j, About(v[k], t)
      PROVE  \E i \in 1..Len(v) : i < j /\ About(v[i], t) /\ v[i].n + 1 = v[j].n
    <2>1. /\ j + 1 \in 1..Len(w) /\ w[j + 1] = v[j]
          /\ k + 1 \in 1..Len(w) /\ w[k + 1] = v[k] /\ k + 1 < j + 1
        BY <1>1, <1>5
    <2>2. PICK i \in 1..Len(w) : i < j + 1 /\ About(w[i], t) /\ w[i].n + 1 = w[j + 1].n
        BY <1>5, <2>1 DEF Tells
    <2>3. CASE i = 1
        <3>1. w[1].n <= v[k].n /\ v[k].n < v[j].n
            BY <1>5, <2>1, <2>2, <2>3 DEF Tells
        <3>2. w[1].n \in Nat /\ v[k].n \in Nat /\ v[j].n \in Nat
            <4>1. About(w[1], t) /\ About(w[k + 1], t) /\ About(w[j + 1], t)
                BY <1>5, <2>1, <2>2, <2>3
            <4> QED
                BY <1>1, <1>2, <2>1, <4>1
        <3>3. v[k].n + 1 = v[j].n
            <4>1. w[1].n + 1 = v[j].n
                BY <2>1, <2>2, <2>3
            <4>2. \A a, b, x \in Nat : a <= x /\ x < b /\ a + 1 = b => x + 1 = b
                OBVIOUS
            <4> QED
                BY <3>1, <3>2, <4>1, <4>2, Zenon
        <3> QED
            BY <1>5, <3>3
    <2>4. CASE i # 1
        <3>1. i - 1 \in 1..Len(v) /\ v[i - 1] = w[i] /\ i - 1 < j
            BY <1>1, <2>2, <2>4
        <3> QED
            BY <2>1, <2>2, <3>1
    <2> QED
        BY <2>3, <2>4
<1>6. ASSUME t \in among, NEW k \in 1..Len(v), About(v[k], t)
      PROVE  \E j \in 1..Len(v) : About(v[j], t) /\ v[j].n = c
    <2>1. k + 1 \in 1..Len(w) /\ w[k + 1] = v[k]
        BY <1>1
    <2>2. PICK j \in 1..Len(w) : About(w[j], t) /\ w[j].n = c
        BY <1>6, <2>1 DEF Tells
    <2>3. CASE j = 1
        <3>1. w[1].n <= v[k].n /\ v[k].n <= c
            BY <1>3, <1>6, <2>1, <2>2, <2>3 DEF Tells
        <3> QED
            BY <1>2, <1>6, <2>1, <2>2, <2>3, <3>1
    <2>4. CASE j # 1
        BY <1>1, <2>2, <2>4
    <2> QED
        BY <2>3, <2>4
<1> QED
    BY <1>3, <1>4, <1>5, <1>6 DEF Tells, v

\* One that isn't about the market leaves the rest to continue its book.
LEMMA TaleSkipped ==
    ASSUME NEW w \in Seq(Messages), w # <<>>, NEW t, NEW n \in Nat, NEW c \in Nat, NEW among,
           ~About(Head(w), t), Continues(t, w, n, c, among)
    PROVE  Continues(t, Tail(w), n, c, among)
<1> DEFINE v == Tail(w)
<1>1. /\ \A i \in 1..Len(v) : v[i] = w[i + 1] /\ i + 1 \in 1..Len(w)
      /\ \A i \in 1..Len(w) : i = 1 \/ (i - 1 \in 1..Len(v) /\ v[i - 1] = w[i])
      /\ Len(v) \in Nat /\ ~About(w[1], t) /\ 1 \in 1..Len(w) /\ Len(w) \in Nat
    BY TailIs
<1> HIDE DEF v
<1>2. ASSUME NEW j \in 1..Len(v), About(v[j], t), v[j].kind = "delta",
             \A i \in 1..Len(v) : i < j => ~About(v[i], t)
      PROVE  v[j].n = n + 1
    <2>1. j + 1 \in 1..Len(w) /\ w[j + 1] = v[j]
        BY <1>1
    <2>2. ASSUME NEW i \in 1..Len(w), i < j + 1 PROVE ~About(w[i], t)
        BY <1>1, <1>2, <2>2
    <2> QED
        BY <1>2, <2>1, <2>2 DEF Continues
<1>3. ASSUME t \in among, \A i \in 1..Len(v) : ~About(v[i], t) PROVE n = c
    <2>1. \A i \in 1..Len(w) : ~About(w[i], t)
        BY <1>1, <1>3
    <2> QED
        BY <1>3, <2>1 DEF Continues
<1> QED
    BY <1>2, <1>3 DEF Continues, v

\* Once a message about the market is taken, the rest continues the book it gives.
LEMMA TaleTaken ==
    ASSUME NEW w \in Seq(Messages), w # <<>>, NEW t, NEW n \in Nat, NEW c \in Nat, NEW among,
           Tells(t, w, n, c, among), About(Head(w), t)
    PROVE  /\ Head(w).n \in Nat /\ n <= Head(w).n /\ Head(w).n <= c
           /\ Head(w).kind = "delta" /\ Continues(t, w, n, c, among) => Head(w).n = n + 1
           /\ Tells(t, Tail(w), Head(w).n, c, among)
           /\ Continues(t, Tail(w), Head(w).n, c, among)
<1> DEFINE v == Tail(w)
           k == Head(w).n
<1>1. /\ \A i \in 1..Len(v) : v[i] = w[i + 1] /\ i + 1 \in 1..Len(w)
      /\ \A i \in 1..Len(w) : i = 1 \/ (i - 1 \in 1..Len(v) /\ v[i - 1] = w[i])
      /\ Len(v) \in Nat /\ 1 \in 1..Len(w) /\ Len(w) \in Nat
      /\ Head(w) = w[1] /\ k = w[1].n /\ About(w[1], t)
    BY TailIs
<1>2. \A i \in 1..Len(w) : About(w[i], t) => w[i].n \in Nat
    BY AboutIs
<1>3. Tells(t, v, n, c, among)
    BY TaleLost
<1> HIDE DEF v, k
<1>4. k \in Nat /\ n <= k /\ k <= c
    BY <1>1, <1>2 DEF Tells
<1>5. Head(w).kind = "delta" /\ Continues(t, w, n, c, among) => k = n + 1
    <2>1. \A i \in 1..Len(w) : i < 1 => ~About(w[i], t)
        OBVIOUS
    <2> QED
        BY <1>1, <2>1 DEF Continues
<1>6. Tells(t, v, k, c, among)
    <2>1. \A i \in 1..Len(v) : About(v[i], t) => k <= v[i].n
        BY <1>1 DEF Tells
    <2> QED
        BY <1>3, <1>4, <2>1 DEF Tells
<1>7. Continues(t, v, k, c, among)
    <2>1. ASSUME NEW j \in 1..Len(v), About(v[j], t), v[j].kind = "delta",
                 \A i \in 1..Len(v) : i < j => ~About(v[i], t)
          PROVE  v[j].n = k + 1
        <3>1. j + 1 \in 1..Len(w) /\ w[j + 1] = v[j] /\ 1 < j + 1
            BY <1>1
        <3>2. PICK i \in 1..Len(w) : i < j + 1 /\ About(w[i], t) /\ w[i].n + 1 = w[j + 1].n
            BY <1>1, <2>1, <3>1 DEF Tells
        <3>3. i = 1
            BY <1>1, <2>1, <3>2
        <3> QED
            BY <1>1, <3>1, <3>2, <3>3
    <2>2. ASSUME t \in among, \A i \in 1..Len(v) : ~About(v[i], t) PROVE k = c
        <3>1. PICK j \in 1..Len(w) : About(w[j], t) /\ w[j].n = c
            BY <1>1, <2>2 DEF Tells
        <3>2. j = 1
            BY <1>1, <2>2, <3>1
        <3> QED
            BY <1>1, <3>1, <3>2
    <2> QED
        BY <2>1, <2>2 DEF Continues
<1> QED
    BY <1>4, <1>5, <1>6, <1>7 DEF v, k

\* A message about another market, or none, changes nothing; a snapshot is of the book as
\* it is; a change is the next one.
LEMMA TaleJoined ==
    ASSUME NEW w \in Seq(Messages), NEW m \in Messages, NEW t, NEW n \in Nat, NEW c \in Nat,
           NEW among, Tells(t, w, n, c, among),
           NEW d \in Nat, NEW joined,
           \/ ~About(m, t) /\ d = c /\ (t \in joined => t \in among)
           \/ About(m, t) /\ m.kind = "snapshot" /\ m.n = c /\ d = c
           \/ About(m, t) /\ m.kind = "delta" /\ m.n = c + 1 /\ d = c + 1 /\ t \in among
    PROVE  /\ Tells(t, Append(w, m), n, d, joined)
           /\ Continues(t, w, n, c, among) => Continues(t, Append(w, m), n, d, joined)
<1> DEFINE v == Append(w, m)
           e == Len(w) + 1
<1>1. /\ Len(w) \in Nat /\ Len(v) = e /\ v[e] = m /\ e \in 1..Len(v)
      /\ \A i \in 1..Len(w) : v[i] = w[i] /\ i \in 1..Len(v) /\ i < e
      /\ \A i \in 1..Len(v) : i \in 1..Len(w) \/ i = e
    BY AppendIs
<1>2. /\ \A i \in 1..Len(w) : About(w[i], t) => w[i].n \in Nat
      /\ About(m, t) => m.n \in Nat
    BY AboutIs, MessageIs DEF About
<1> HIDE DEF v, e
<1>3. n <= c /\ c <= d /\ \A i \in 1..Len(w) : About(w[i], t) => n <= w[i].n /\ w[i].n <= c
    <2>1. n <= c /\ \A i \in 1..Len(w) : About(w[i], t) => n <= w[i].n /\ w[i].n <= c
        BY Zenon DEF Tells
    <2>2. c <= d
        OBVIOUS
    <2> QED
        BY ONLY <2>1, <2>2, Zenon
<1>4. n <= d /\ \A i \in 1..Len(v) : About(v[i], t) => n <= v[i].n /\ v[i].n <= d
    BY <1>1, <1>2, <1>3
<1>5. ASSUME NEW i \in 1..Len(v), NEW j \in 1..Len(v), i < j, About(v[i], t), About(v[j], t)
      PROVE  v[i].n <= v[j].n /\ (v[j].kind = "delta" => v[i].n < v[j].n)
    <2>1. i \in 1..Len(w) /\ v[i] = w[i]
        BY <1>1, <1>5
    <2>2. CASE j \in 1..Len(w)
        BY <1>1, <1>5, <2>1, <2>2 DEF Tells
    <2>3. CASE j = e
        BY <1>1, <1>2, <1>3, <1>5, <2>1, <2>3
    <2> QED
        BY <1>1, <2>2, <2>3
<1>6. ASSUME NEW j \in 1..Len(v), About(v[j], t), v[j].kind = "delta",
             NEW k \in 1..Len(v), k < j, About(v[k], t)
      PROVE  \E i \in 1..Len(v) : i < j /\ About(v[i], t) /\ v[i].n + 1 = v[j].n
    <2>1. k \in 1..Len(w) /\ v[k] = w[k]
        BY <1>1, <1>6
    <2>2. CASE j \in 1..Len(w)
        <3>1. PICK i \in 1..Len(w) : i < j /\ About(w[i], t) /\ w[i].n + 1 = w[j].n
            BY <1>1, <1>6, <2>1, <2>2 DEF Tells
        <3> QED
            BY <1>1, <2>2, <3>1
    <2>3. CASE j = e
        <3>1. m.n = c + 1 /\ t \in among
            BY <1>1, <1>6, <2>3
        <3>2. PICK i \in 1..Len(w) : About(w[i], t) /\ w[i].n = c
            BY <1>6, <2>1, <3>1 DEF Tells
        <3> QED
            BY <1>1, <2>3, <3>1, <3>2
    <2> QED
        BY <1>1, <2>2, <2>3
<1>7. ASSUME t \in joined, NEW k \in 1..Len(v), About(v[k], t)
      PROVE  \E j \in 1..Len(v) : About(v[j], t) /\ v[j].n = d
    <2>1. CASE About(m, t)
        BY <1>1, <2>1
    <2>2. CASE ~About(m, t)
        <3>1. k \in 1..Len(w) /\ v[k] = w[k] /\ t \in among /\ d = c
            BY <1>1, <1>7, <2>2
        <3>2. PICK j \in 1..Len(w) : About(w[j], t) /\ w[j].n = c
            BY <1>7, <3>1 DEF Tells
        <3> QED
            BY <1>1, <3>1, <3>2
    <2> QED
        BY <2>1, <2>2
<1>8. Tells(t, v, n, d, joined)
    BY <1>4, <1>5, <1>6, <1>7 DEF Tells
<1>9. ASSUME Continues(t, w, n, c, among) PROVE Continues(t, v, n, d, joined)
    <2>1. ASSUME NEW j \in 1..Len(v), About(v[j], t), v[j].kind = "delta",
                 \A i \in 1..Len(v) : i < j => ~About(v[i], t)
          PROVE  v[j].n = n + 1
        <3>1. CASE j \in 1..Len(w)
            BY <1>1, <1>9, <2>1, <3>1 DEF Continues
        <3>2. CASE j = e
            <4>1. m.n = c + 1 /\ t \in among
                BY <1>1, <2>1, <3>2
            <4>2. \A i \in 1..Len(w) : ~About(w[i], t)
                BY <1>1, <2>1, <3>2
            <4> QED
                BY <1>1, <1>9, <3>2, <4>1, <4>2 DEF Continues
        <3> QED
            BY <1>1, <3>1, <3>2
    <2>2. ASSUME t \in joined, \A i \in 1..Len(v) : ~About(v[i], t) PROVE n = d
        <3>1. ~About(m, t) /\ \A i \in 1..Len(w) : ~About(w[i], t)
            BY <1>1, <2>2
        <3> QED
            BY <1>9, <2>2, <3>1 DEF Continues
    <2> QED
        BY <2>1, <2>2 DEF Continues
<1> QED
    BY <1>8, <1>9 DEF v

-----------------------------------------------------------------------------
(* The books *)

LEMMA BookIs ==
    ASSUME NEW n \in Nat
    PROVE  /\ Promise!Book(n) \in Seq(Nat)
           /\ Append(Promise!Book(n), n + 1) = Promise!Book(n + 1)
           /\ Promise!Up(n).ready /\ Promise!Up(n).has = Promise!Book(n)
           /\ Promise!Up(n) \in [ready : BOOLEAN, has : Seq(Nat)]
    BY DEF Promise!Book, Promise!Up

LEMMA DownIs ==
    /\ Down \in [ready : BOOLEAN, has : Seq(Nat)] /\ ~Down.ready /\ Down = Promise!Down
    /\ AllDown \in [Tickers -> [ready : BOOLEAN, has : Seq(Nat)]]
    /\ \A t \in Tickers : AllDown[t] = Down
    BY DEF Down, AllDown, Promise!Down

LEMMA UpNext ==
    ASSUME NEW b, NEW n \in Nat, b = Promise!Up(n)
    PROVE  [b EXCEPT !.has = Append(b.has, n + 1)] = Promise!Up(n + 1)
<1> DEFINE B == [ready : BOOLEAN, has : Seq(Nat)]
           d == [b EXCEPT !.has = Append(b.has, n + 1)]
<1>1. b \in B /\ b.ready = TRUE /\ b.has = Promise!Book(n)
    <2>1. Promise!Up(n) \in B /\ Promise!Up(n).has = Promise!Book(n)
        BY BookIs
    <2>2. Promise!Up(n).ready = TRUE
        BY DEF Promise!Up
    <2> QED
        BY <2>1, <2>2
<1>2. Append(b.has, n + 1) = Promise!Book(n + 1) /\ Promise!Book(n + 1) \in Seq(Nat)
    <2>1. n + 1 \in Nat
        OBVIOUS
    <2>2. Append(Promise!Book(n), n + 1) = Promise!Book(n + 1) /\ b.has = Promise!Book(n)
        BY <1>1, BookIs
    <2>3. Promise!Book(n + 1) \in Seq(Nat)
        BY <2>1, BookIs
    <2> QED
        BY <2>2, <2>3
<1>3. d \in B
    BY <1>1, <1>2
<1>4. d.ready = TRUE /\ d.has = Promise!Book(n + 1)
    BY <1>1, <1>2
<1>5. \A x \in B : x = [ready |-> x.ready, has |-> x.has]
    OBVIOUS
<1> HIDE DEF d, B
<1>6. d = [ready |-> TRUE, has |-> Promise!Book(n + 1)]
    BY <1>3, <1>4, <1>5
<1> QED
    BY <1>6 DEF Promise!Up, d

-----------------------------------------------------------------------------
(* What several actions do *)

LEMMA KInit == Init => KInv
<1> SUFFICES ASSUME Init PROVE KInv
    OBVIOUS
<1>1. KTypes
    BY DownIs DEF Init, KTypes, Idle
<1>2. NoConnection /\ Numbers
    BY DEF Init, NoConnection, Numbers
<1>3. Counts
    BY DEF Init, Counts, Tells
<1>4. \A t \in Tickers : Held(t)
    BY DownIs DEF Init, Held
<1> QED
    BY <1>1, <1>2, <1>3, <1>4 DEF KInv

LEMMA MarketIs == ASSUME KTypes, NEW t \in world.markets PROVE t \in Tickers
    BY WorldsAssumption DEF KTypes

\* Kalshi answers: nothing about a market.
LEMMA KAnswer ==
    ASSUME KInv, conn # "down", NEW m \in Messages, m.kind \notin {"snapshot", "delta"},
           wire' = Append(wire, m),
           \/ m.seq = 0 /\ seq' = seq
           \/ m.seq = seq + 1 /\ seq' = seq + 1,
           served' \subseteq served,
           UNCHANGED <<changes, seen, conn, last, sid, gap, book, ignored>>
    PROVE  Numbers' /\ Counts' /\ \A t \in Tickers : Held(t)'
<1> USE DEF KInv
<1>1. wire \in Seq(Messages) /\ seq \in Nat /\ last \in Nat /\ InSequence(wire, seq, last)
    BY DEF KTypes, Numbers
<1>2. /\ InSequence(wire', seq', last')
      /\ NoHole(wire', seq', last') => NoHole(wire, seq, last)
    BY <1>1, SequenceJoined
<1>3. ASSUME NEW t \in Tickers
      PROVE  /\ Tells(t, wire', seen[t], changes[t], served')
             /\ Continues(t, wire, seen[t], changes[t], served) =>
                    Continues(t, wire', seen[t], changes[t], served')
    <2>1. ~About(m, t) /\ (t \in served' => t \in served)
        BY DEF About
    <2>2. seen[t] \in Nat /\ changes[t] \in Nat /\ Tells(t, wire, seen[t], changes[t], served)
        BY <1>3 DEF KTypes, Counts
    <2> QED
        BY <1>1, <2>1, <2>2, TaleJoined
<1>4. Counts'
    BY <1>3 DEF Counts
<1>5. ASSUME NEW t \in Tickers PROVE Held(t)'
    <2>1. Held(t)
        BY <1>5
    <2> QED
        BY <1>2, <1>3, <2>1 DEF Held
<1> QED
    BY <1>2, <1>4, <1>5 DEF Numbers

\* The feed goes on, as far as it is from the wire; books may go down.
LEMMA KElsewhere ==
    ASSUME KInv, conn # "down", conn' # "down", conn = "up" => conn' = "up",
           UNCHANGED <<changes, seen, seq, served, wire, last, sid, gap, ignored>>,
           \A t \in Tickers : book'[t] = book[t] \/ book'[t] = Down
    PROVE  Numbers' /\ Counts' /\ \A t \in Tickers : Held(t)'
<1> USE DEF KInv
<1>1. Numbers' /\ Counts'
    <2>1. Numbers'
        BY DEF Numbers
    <2>2. Counts'
        BY DEF Counts
    <2> QED
        BY <2>1, <2>2
<1>2. ASSUME NEW t \in Tickers PROVE Held(t)'
    <2>1. Held(t)
        BY <1>2
    <2> QED
        BY <2>1, DownIs DEF Held
<1> QED
    BY <1>1, <1>2

LEMMA KStutter == ASSUME KInv, UNCHANGED vars PROVE KInv'
    BY DEF KInv, KTypes, NoConnection, Numbers, Counts, Held, vars, kalshi, subs, place, hist

LEMMA BookedIs ==
    ASSUME NEW t \in Tickers, NEW n \in Nat, NEW i \in Nat \ {0}
    PROVE  /\ Snapshot(t, n, i) \in Messages /\ Snapshot(t, n, i).kind = "snapshot"
           /\ Snapshot(t, n, i).t = t /\ Snapshot(t, n, i).n = n /\ Snapshot(t, n, i).seq = i
           /\ Delta(t, n, i) \in Messages /\ Delta(t, n, i).kind = "delta"
           /\ Delta(t, n, i).t = t /\ Delta(t, n, i).n = n /\ Delta(t, n, i).seq = i
    BY DEF Snapshot, Delta, Messages, Booked

LEMMA OkIs ==
    ASSUME NEW i \in Nat
    PROVE  /\ Ok(i + 1) \in Messages /\ Ok(i + 1).kind = "ok" /\ Ok(i + 1).seq = i + 1
           /\ Subscribed \in Messages /\ Subscribed.kind = "subscribed" /\ Subscribed.seq = 0
    BY DEF Ok, Subscribed, Messages, Answers

LEMMA ErrorIs ==
    ASSUME NEW ts \in SUBSET Tickers
    PROVE  Error(ts) \in Messages /\ Error(ts).kind = "error" /\ Error(ts).seq = 0
    BY DEF Error, Messages, Errors

\* A command leaves the queue.
LEMMA CommandIs ==
    ASSUME KTypes, cmds # <<>>
    PROVE  Tail(cmds) \in Seq(Commands) /\ Head(cmds).ts \subseteq Tickers
<1>1. Tail(cmds) \in Seq(Commands) /\ Head(cmds) \in Commands
    BY DEF KTypes
<1> QED
    BY <1>1 DEF Commands

-----------------------------------------------------------------------------
(* Kalshi's actions *)

LEMMA KChange == ASSUME KInv, NEW t \in world.markets, Change(t) PROVE KInv'
<1> USE DEF KInv
<1>1. t \in Tickers
    BY MarketIs
<1>2. changes[t] \in Nat /\ changes' = [changes EXCEPT ![t] = @ + 1] /\ changes' \in [Tickers -> Nat]
    BY <1>1 DEF Change, KTypes
<1>3. /\ wire \in Seq(Messages) /\ seq \in Nat /\ last \in Nat
      /\ \A u \in Tickers : seen[u] \in Nat /\ changes[u] \in Nat
      /\ \A u \in Tickers : Tells(u, wire, seen[u], changes[u], served)
    BY DEF KTypes, Counts
<1>4. CASE t \in served
    <2> DEFINE m == Delta(t, changes[t] + 1, seq + 1)
    <2>1. /\ m \in Messages /\ m.kind = "delta" /\ m.t = t /\ m.n = changes[t] + 1 /\ m.seq = seq + 1
        BY <1>1, <1>2, <1>3, BookedIs
    <2>2. seq' = seq + 1 /\ wire' = Append(wire, m)
        BY <1>1, <1>2, <1>3, <1>4 DEF Change, KTypes
    <2> HIDE DEF m
    <2>3. conn # "down" /\ conn' = conn
        BY <1>4 DEF Change, NoConnection
    <2>4. KTypes'
        <3>1. wire' \in Seq(Messages) /\ seq' \in Nat
            BY <1>3, <2>1, <2>2
        <3> QED
            BY <1>2, <3>1 DEF Change, KTypes, subs, place
    <2>5. InSequence(wire', seq', last) /\ (NoHole(wire', seq', last) => NoHole(wire, seq, last))
        BY <1>3, <2>1, <2>2, <2>3, SequenceJoined DEF Numbers
    <2>6. ASSUME NEW u \in Tickers
          PROVE  /\ Tells(u, wire', seen[u], changes'[u], served)
                 /\ Continues(u, wire, seen[u], changes[u], served) =>
                        Continues(u, wire', seen[u], changes'[u], served)
        <3>1. CASE u = t
            BY <1>1, <1>2, <1>3, <1>4, <2>1, <2>2, <3>1, TaleJoined DEF About
        <3>2. CASE u # t
            <4>1. ~About(m, u) /\ changes'[u] = changes[u]
                BY <1>2, <1>3, <2>1, <2>6, <3>2 DEF About, KTypes
            <4> QED
                BY <1>3, <2>1, <2>2, <4>1, TaleJoined
        <3> QED
            BY <3>1, <3>2
    <2>7. Numbers' /\ NoConnection'
        BY <2>3, <2>5 DEF Change, place, Numbers, NoConnection
    <2>8. Counts'
        BY <2>6 DEF Change, Counts
    <2>9. ASSUME NEW u \in Tickers PROVE Held(u)'
        <3>1. Held(u) /\ UNCHANGED <<book, last, sid, conn, gap, ignored, seen, served>>
            BY <2>9 DEF Change, place, hist
        <3> QED
            BY <2>5, <2>6, <3>1 DEF Held
    <2> QED
        BY <2>4, <2>7, <2>8, <2>9
<1>5. CASE t \notin served
    <2>1. UNCHANGED <<world, served, owed, seq, cmds, wire, conn, wanted, requested, sid, last, gap,
                      sync, halves, book, seen, ignored>>
        BY <1>5 DEF Change, subs, place, hist
    <2>2. KTypes' /\ NoConnection' /\ Numbers'
        BY <1>2, <2>1 DEF KTypes, NoConnection, Numbers
    <2>3. ASSUME NEW u \in Tickers
          PROVE  /\ Tells(u, wire, seen[u], changes'[u], served)
                 /\ Continues(u, wire, seen[u], changes[u], served) =>
                        Continues(u, wire, seen[u], changes'[u], served)
        <3>1. CASE u = t
            <4>1. changes'[u] = changes[u] + 1
                BY <1>1, <1>2, <3>1 DEF KTypes
            <4>2. \A i \in 1..Len(wire) : About(wire[i], u) => wire[i].n \in Nat
                BY <1>3, AboutIs
            <4>3. Tells(u, wire, seen[u], changes[u], served)
                BY <1>3
            <4>4. \A i \in 1..Len(wire) : About(wire[i], u) =>
                      seen[u] <= wire[i].n /\ wire[i].n <= changes'[u]
                BY <1>3, <4>1, <4>2, <4>3 DEF Tells
            <4>5. seen[u] <= changes'[u]
                BY <1>3, <4>1, <4>3 DEF Tells
            <4> QED
                BY <1>5, <3>1, <4>3, <4>4, <4>5 DEF Tells, Continues
        <3>2. CASE u # t
            BY <1>2, <1>3, <3>2 DEF KTypes
        <3> QED
            BY <3>1, <3>2
    <2>4. Counts'
        BY <2>1, <2>3 DEF Counts
    <2>5. ASSUME NEW u \in Tickers PROVE Held(u)'
        <3>1. Held(u)
            BY <2>5
        <3> QED
            BY <2>1, <2>3, <3>1 DEF Held
    <2> QED
        BY <2>2, <2>4, <2>5
<1> QED
    BY <1>4, <1>5

LEMMA KSendSnapshot == ASSUME KInv, NEW t \in world.markets, SendSnapshot(t) PROVE KInv'
<1> USE DEF KInv
<1> DEFINE m == Snapshot(t, changes[t], seq + 1)
<1>1. t \in Tickers
    BY MarketIs
<1>2. /\ wire \in Seq(Messages) /\ seq \in Nat /\ last \in Nat
      /\ \A u \in Tickers : seen[u] \in Nat /\ changes[u] \in Nat
      /\ \A u \in Tickers : Tells(u, wire, seen[u], changes[u], served)
    BY DEF KTypes, Counts
<1>3. /\ m \in Messages /\ m.kind = "snapshot" /\ m.t = t /\ m.n = changes[t] /\ m.seq = seq + 1
    BY <1>1, <1>2, BookedIs
<1>4. seq' = seq + 1 /\ wire' = Append(wire, m) /\ served' = served \cup {t}
    BY DEF SendSnapshot
<1> HIDE DEF m
<1>5. conn # "down" /\ conn' = conn
    BY DEF SendSnapshot, NoConnection
<1>6. KTypes'
    <2>1. wire' \in Seq(Messages) /\ seq' \in Nat
        BY <1>2, <1>3, <1>4
    <2>2. served' \subseteq Tickers /\ owed' \subseteq Tickers
        BY <1>1, <1>4 DEF SendSnapshot, KTypes
    <2> QED
        BY <2>1, <2>2 DEF SendSnapshot, KTypes, subs, place
<1>7. InSequence(wire', seq', last) /\ (NoHole(wire', seq', last) => NoHole(wire, seq, last))
    BY <1>2, <1>3, <1>4, <1>5, SequenceJoined DEF Numbers
<1>8. ASSUME NEW u \in Tickers
      PROVE  /\ Tells(u, wire', seen[u], changes[u], served')
             /\ Continues(u, wire, seen[u], changes[u], served) =>
                    Continues(u, wire', seen[u], changes[u], served')
    <2>1. CASE u = t
        <3>1. About(m, u)
            BY <1>3, <2>1 DEF About
        <3> QED
            BY <1>2, <1>3, <1>4, <2>1, <3>1, TaleJoined
    <2>2. CASE u # t
        <3>1. ~About(m, u) /\ (u \in served' => u \in served)
            BY <1>3, <1>4, <2>2 DEF About
        <3> QED
            BY <1>2, <1>3, <1>4, <3>1, TaleJoined
    <2> QED
        BY <2>1, <2>2
<1>9. Numbers' /\ NoConnection'
    BY <1>5, <1>7 DEF SendSnapshot, place, Numbers, NoConnection
<1>10. Counts'
    BY <1>8 DEF SendSnapshot, Counts
<1>11. ASSUME NEW u \in Tickers PROVE Held(u)'
    <2>1. Held(u) /\ UNCHANGED <<book, last, sid, conn, gap, ignored, seen, changes>>
        BY <1>11 DEF SendSnapshot, place, hist
    <2> QED
        BY <1>7, <1>8, <2>1 DEF Held
<1> QED
    BY <1>6, <1>9, <1>10, <1>11

LEMMA KRefuse == ASSUME KInv, Refuse PROVE KInv'
<1> USE DEF KInv
<1> DEFINE m == Error(Head(cmds).ts)
<1>1. Tail(cmds) \in Seq(Commands) /\ m \in Messages /\ m.kind = "error" /\ m.seq = 0
    BY CommandIs, ErrorIs DEF Refuse
<1>2. wire' = Append(wire, m)
    BY DEF Refuse
<1> HIDE DEF m
<1>3. conn # "down" /\ UNCHANGED <<kalshi, conn, subs, place, sync, halves, book, seen, hist>>
    BY DEF Refuse, NoConnection
<1>4. Numbers' /\ Counts' /\ \A t \in Tickers : Held(t)'
    BY <1>1, <1>2, <1>3, KAnswer DEF kalshi, place, hist
<1>5. KTypes'
    <2>1. wire' \in Seq(Messages) /\ cmds' \in Seq(Commands)
        BY <1>1, <1>2 DEF Refuse, KTypes
    <2> QED
        BY <1>3, <2>1 DEF KTypes, kalshi, subs, place
<1>6. NoConnection'
    BY <1>3 DEF NoConnection
<1> QED
    BY <1>4, <1>5, <1>6

LEMMA KAccept == ASSUME KInv, Accept PROVE KInv'
<1> USE DEF KInv
<1> DEFINE m == IF merged THEN Ok(seq + 1) ELSE Subscribed
<1>1. seq \in Nat /\ wire \in Seq(Messages) /\ Tail(cmds) \in Seq(Commands) /\ Head(cmds).ts \subseteq Tickers
    BY CommandIs DEF Accept, KTypes
<1>2. /\ m \in Messages /\ m.kind \notin {"snapshot", "delta"}
      /\ m.seq = IF merged THEN seq + 1 ELSE 0
    BY <1>1, OkIs
<1>3. wire' = Append(wire, m) /\ seq' = IF merged THEN seq + 1 ELSE seq
    BY DEF Accept
<1> HIDE DEF m
<1>4. /\ conn # "down"
      /\ UNCHANGED <<world, changes, served, conn, subs, place, sync, halves, book, seen, hist>>
    BY DEF Accept, NoConnection
<1>5. Numbers' /\ Counts' /\ \A t \in Tickers : Held(t)'
    BY <1>2, <1>3, <1>4, KAnswer DEF place, hist
<1>6. KTypes'
    <2>1. wire' \in Seq(Messages) /\ seq' \in Nat
        BY <1>1, <1>2, <1>3
    <2>2. cmds' \in Seq(Commands) /\ owed' \subseteq Tickers
        BY <1>1 DEF Accept, KTypes
    <2> QED
        BY <1>4, <2>1, <2>2 DEF KTypes, subs, place
<1>7. NoConnection'
    BY <1>4 DEF NoConnection
<1> QED
    BY <1>5, <1>6, <1>7

LEMMA KStop == ASSUME KInv, Stop PROVE KInv'
<1> USE DEF KInv
<1>1. seq \in Nat /\ wire \in Seq(Messages) /\ Tail(cmds) \in Seq(Commands)
    BY CommandIs DEF Stop, KTypes
<1>2. Ok(seq + 1) \in Messages /\ Ok(seq + 1).kind = "ok" /\ Ok(seq + 1).seq = seq + 1
    BY <1>1, OkIs
<1>3. wire' = Append(wire, Ok(seq + 1)) /\ seq' = seq + 1 /\ served' \subseteq served
    BY DEF Stop
<1>4. /\ conn # "down"
      /\ UNCHANGED <<world, changes, merged, conn, subs, place, sync, halves, book, seen, hist>>
    BY DEF Stop, NoConnection
<1>5. Numbers' /\ Counts' /\ \A t \in Tickers : Held(t)'
    BY <1>2, <1>3, <1>4, KAnswer DEF place, hist
<1>6. KTypes'
    <2>1. wire' \in Seq(Messages) /\ seq' \in Nat
        BY <1>1, <1>2, <1>3
    <2>2. cmds' \in Seq(Commands) /\ owed' \subseteq Tickers /\ served' \subseteq Tickers
        BY <1>1 DEF Stop, KTypes
    <2> QED
        BY <1>4, <2>1, <2>2 DEF KTypes, subs, place
<1>7. NoConnection'
    BY <1>4 DEF NoConnection
<1> QED
    BY <1>5, <1>6, <1>7

\* A number is missing when a numbered message is lost; any other is about no market.
LEMMA KLose == ASSUME KInv, Lose PROVE KInv'
<1> USE DEF KInv
<1>1. /\ wire \in Seq(Messages) /\ wire # <<>> /\ wire' = Tail(wire) /\ seq \in Nat /\ last \in Nat
      /\ UNCHANGED <<kalshi, cmds, conn, subs, place, sync, halves, book, seen, ignored>>
    BY DEF Lose, KTypes
<1>2. conn # "down" /\ InSequence(wire, seq, last)
    BY <1>1 DEF NoConnection, Numbers
<1>3. /\ InSequence(wire', seq, last)
      /\ NoHole(wire', seq, last) => NoHole(wire, seq, last) /\ Head(wire).seq = 0
    BY <1>1, <1>2, SequenceLost
<1>4. ASSUME NEW t \in Tickers
      PROVE  /\ Tells(t, wire', seen[t], changes[t], served)
             /\ Head(wire).seq = 0 /\ Continues(t, wire, seen[t], changes[t], served) =>
                    Continues(t, wire', seen[t], changes[t], served)
    <2>1. /\ seen[t] \in Nat /\ changes[t] \in Nat /\ Tells(t, wire, seen[t], changes[t], served)
        BY <1>4 DEF KTypes, Counts
    <2>2. Tells(t, wire', seen[t], changes[t], served)
        BY <1>1, <2>1, TaleLost
    <2>3. Head(wire).seq = 0 => ~About(Head(wire), t)
        BY <1>1, TailIs, MessageIs DEF About
    <2> QED
        BY <1>1, <2>1, <2>2, <2>3, TaleSkipped
<1>5. KTypes'
    <2>1. wire' \in Seq(Messages)
        BY <1>1, TailIs
    <2> QED
        BY <1>1, <2>1 DEF KTypes, kalshi, subs, place
<1>6. Numbers' /\ NoConnection'
    BY <1>1, <1>2, <1>3 DEF Numbers, NoConnection, kalshi, place
<1>7. Counts'
    BY <1>1, <1>4 DEF Counts, kalshi
<1>8. ASSUME NEW t \in Tickers PROVE Held(t)'
    <2>1. Held(t) /\ UNCHANGED <<book, seq, last, sid, conn, gap, ignored, seen, changes, served>>
        BY <1>1, <1>8 DEF kalshi, place
    <2> QED
        BY <1>3, <1>4, <2>1 DEF Held
<1> QED
    BY <1>5, <1>6, <1>7, <1>8

-----------------------------------------------------------------------------
(* The connection, and what the feed asks for *)

LEMMA KConnect == ASSUME KInv, Connect PROVE KInv'
<1> USE DEF KInv
<1>1. /\ wire = <<>> /\ served = {} /\ seq = 0 /\ book = AllDown /\ conn' = "opening" /\ last' = 0
      /\ UNCHANGED <<kalshi, cmds, wire, wanted, halves, book, seen>>
    BY DEF Connect, NoConnection
<1>2. KTypes'
    BY <1>1 DEF Connect, KTypes, kalshi
<1>3. NoConnection' /\ Numbers'
    BY <1>1 DEF NoConnection, Numbers, InSequence, kalshi
<1>4. Counts'
    BY <1>1 DEF Counts, kalshi
<1>5. \A t \in Tickers : Held(t)'
    BY <1>1, DownIs DEF Held
<1> QED
    BY <1>2, <1>3, <1>4, <1>5

LEMMA KDisconnect == ASSUME KInv, Disconnect PROVE KInv'
<1> USE DEF KInv
<1>1. KTypes'
    BY DownIs DEF Disconnect, KTypes, Idle, subs, place
<1>2. NoConnection' /\ Numbers'
    BY DEF Disconnect, NoConnection, Numbers
<1>3. Counts'
    BY DEF Disconnect, Counts, Tells
<1>4. \A t \in Tickers : Held(t)'
    BY DownIs DEF Disconnect, Held
<1> QED
    BY <1>1, <1>2, <1>3, <1>4

LEMMA KSetMarkets == ASSUME KInv, NEW w \in SUBSET world.markets, SetMarkets(w) PROVE KInv'
<1> USE DEF KInv
<1>1. UNCHANGED <<kalshi, cmds, wire, conn, requested, place, sync, halves, book, seen, hist>>
    BY DEF SetMarkets
<1>2. KTypes'
    BY MarketIs DEF SetMarkets, KTypes, kalshi, place
<1>3. NoConnection' /\ Numbers' /\ Counts'
    BY <1>1 DEF NoConnection, Numbers, Counts, kalshi, place
<1>4. ASSUME NEW t \in Tickers PROVE Held(t)'
    <2>1. Held(t)
        BY <1>4
    <2> QED
        BY <1>1, <2>1 DEF Held, kalshi, place, hist
<1> QED
    BY <1>2, <1>3, <1>4

LEMMA KSyncDrop == ASSUME KInv, SyncDrop PROVE KInv'
<1> USE DEF KInv
<1>1. /\ book' = [t \in Tickers |-> IF t \in Drops THEN Down ELSE book[t]]
      /\ UNCHANGED <<kalshi, wire, conn, wanted, rejected, place, halves, seen, hist>>
    BY DEF SyncDrop
<1>2. conn # "down"
    BY DEF SyncDrop, Begins, ToSync, NoConnection, Idle
<1>3. Drops \subseteq Tickers
    BY DEF Drops, KTypes
<1>4. KTypes'
    <2>1. Delete(Drops) \in Commands
        BY <1>3 DEF Delete, Commands
    <2>2. cmds' \in Seq(Commands) /\ requested' \subseteq Tickers
        BY <2>1 DEF SyncDrop, KTypes
    <2>3. sync' \in [at : {"idle", "start", "add", "more"}, todo : SUBSET Tickers]
        BY DEF SyncDrop
    <2>4. book' \in [Tickers -> [ready : BOOLEAN, has : Seq(Nat)]]
        BY <1>1, DownIs DEF KTypes
    <2> QED
        BY <1>1, <2>2, <2>3, <2>4 DEF KTypes, kalshi, place
<1>5. Numbers' /\ Counts' /\ \A t \in Tickers : Held(t)'
    BY <1>1, <1>2, KElsewhere DEF kalshi, place, hist
<1>6. NoConnection'
    BY <1>1, <1>2 DEF NoConnection
<1> QED
    BY <1>4, <1>5, <1>6

LEMMA KSubscribeTo ==
    ASSUME KInv, NEW todo \in SUBSET Tickers, SubscribeTo(todo), conn # "down"
    PROVE  KInv'
<1> USE DEF KInv
<1>1. UNCHANGED <<kalshi, wire, wanted, rejected, place, halves, book, seen, hist>>
    BY DEF SubscribeTo
<1>2. PICK ts \in SUBSET todo :
          /\ requested' = requested \cup ts
          /\ cmds' = IF ts = {} THEN cmds ELSE Append(cmds, Subscribe(ts))
          /\ sync' = IF ts = todo THEN Idle ELSE [at |-> "more", todo |-> todo \ ts]
          /\ conn' = IF ts = todo THEN "up" ELSE conn
    BY DEF SubscribeTo
<1>3. KTypes'
    <2>1. Subscribe(ts) \in Commands
        BY DEF Subscribe, Commands
    <2>2. cmds' \in Seq(Commands) /\ requested' \subseteq Tickers
        BY <1>2, <2>1 DEF KTypes
    <2>3. sync' \in [at : {"idle", "start", "add", "more"}, todo : SUBSET Tickers]
        BY <1>2 DEF Idle
    <2> QED
        BY <1>1, <2>2, <2>3 DEF KTypes, kalshi, place
<1>4. conn' # "down" /\ (conn = "up" => conn' = "up")
    BY <1>2
<1>5. Numbers' /\ Counts' /\ \A t \in Tickers : Held(t)'
    BY <1>1, <1>4, KElsewhere DEF kalshi, place, hist
<1> QED
    BY <1>3, <1>4, <1>5 DEF NoConnection

LEMMA KSyncAdd == ASSUME KInv, SyncAdd PROVE KInv'
<1>1. conn # "down" /\ Adds \subseteq Tickers
    BY DEF KInv, SyncAdd, Begins, ToSync, NoConnection, Idle, KTypes, Adds
<1> QED
    BY <1>1, KSubscribeTo DEF SyncAdd

LEMMA KSyncMore == ASSUME KInv, SyncMore PROVE KInv'
<1>1. conn # "down" /\ sync.todo \subseteq Tickers
    BY DEF KInv, SyncMore, NoConnection, Idle, KTypes
<1> QED
    BY <1>1, KSubscribeTo DEF SyncMore

LEMMA KSubscribeHalf == ASSUME KInv, NEW ts \in halves, SubscribeHalf(ts) PROVE KInv'
<1> USE DEF KInv
<1>1. UNCHANGED <<kalshi, wire, conn, wanted, changed, rejected, place, sync, book, seen, hist>>
    BY DEF SubscribeHalf
<1>2. conn # "down" /\ ts \subseteq Tickers
    BY DEF SubscribeHalf, KTypes
<1>3. KTypes'
    <2>1. Subscribe(ts) \in Commands
        BY <1>2 DEF Subscribe, Commands
    <2>2. cmds' \in Seq(Commands) /\ requested' \subseteq Tickers /\ halves' \subseteq SUBSET Tickers
        BY <1>2, <2>1 DEF SubscribeHalf, KTypes
    <2> QED
        BY <1>1, <2>2 DEF KTypes, kalshi, place
<1>4. Numbers' /\ Counts' /\ \A t \in Tickers : Held(t)'
    BY <1>1, <1>2, KElsewhere DEF kalshi, place, hist
<1> QED
    BY <1>1, <1>2, <1>3, <1>4 DEF NoConnection

-----------------------------------------------------------------------------
(* _handle *)

\* The message that is handled, and the sequence after it.
LEMMA KReceive ==
    ASSUME KInv, NEW m, Receive(m), UNCHANGED <<conn, seq>>
    PROVE  /\ wire \in Seq(Messages) /\ wire # <<>> /\ m = Head(wire) /\ m \in Messages
           /\ wire' = Tail(wire) /\ wire' \in Seq(Messages) /\ last' \in Nat
           /\ conn = "up" /\ Numbers'
<1>1. /\ wire \in Seq(Messages) /\ seq \in Nat /\ last \in Nat /\ InSequence(wire, seq, last)
      /\ wire # <<>> /\ m = Head(wire) /\ wire' = Tail(wire) /\ conn = "up"
    BY DEF KInv, KTypes, Numbers, Receive
<1>2. Tail(wire) \in Seq(Messages) /\ m \in Messages /\ m.seq \in Nat
    BY <1>1, TailIs, MessageIs
<1>3. CASE Numbered(m)
    <2>1. m.seq # 0 /\ last' = m.seq
        BY <1>3 DEF Receive, Numbered
    <2>2. InSequence(wire', seq, last')
        BY <1>1, <2>1, SequenceTaken
    <2> QED
        BY <1>1, <1>2, <2>1, <2>2 DEF Numbers
<1>4. CASE ~Numbered(m)
    <2>1. last' = last
        BY <1>4 DEF Receive
    <2>2. InSequence(wire', seq, last)
        BY <1>1, SequenceLost
    <2> QED
        BY <1>1, <1>2, <2>1, <2>2 DEF Numbers
<1> QED
    BY <1>3, <1>4

\* A message about a market is numbered; in order, with a book up, it is the next.
LEMMA KInOrder ==
    ASSUME KInv, NEW m, InOrder(m), UNCHANGED <<conn, seq>>
    PROVE  /\ m.kind \in {"snapshot", "delta"} => last' # 0
           /\ \A t \in Tickers : book[t].ready =>
                  /\ last' # 0
                  /\ m.kind \in {"snapshot", "delta"} => NoHole(wire, seq, last)
                  /\ NoHole(wire', seq, last') => NoHole(wire, seq, last)
<1>1. /\ wire \in Seq(Messages) /\ seq \in Nat /\ last \in Nat /\ InSequence(wire, seq, last)
      /\ wire # <<>> /\ m = Head(wire) /\ wire' = Tail(wire)
    BY DEF KInv, KTypes, Numbers, InOrder, Receive
<1>2. m \in Messages /\ m.seq \in Nat /\ (m.kind \in {"snapshot", "delta"} => m.seq # 0)
    BY <1>1, TailIs, MessageIs
<1>3. m.kind \in {"snapshot", "delta"} => Numbered(m)
    BY <1>2 DEF Numbered
<1>4. Numbered(m) => m.seq # 0 /\ last' = m.seq
    BY DEF InOrder, Receive, Numbered
<1>5. ASSUME NEW t \in Tickers, book[t].ready
      PROVE  /\ last' # 0
             /\ m.kind \in {"snapshot", "delta"} => NoHole(wire, seq, last)
             /\ NoHole(wire', seq, last') => NoHole(wire, seq, last)
    <2>1. last # 0 /\ sid
        BY <1>5 DEF KInv, Held
    <2>2. CASE Numbered(m)
        <3>1. m.seq = last + 1
            BY <2>1, <2>2 DEF InOrder, Follows
        <3>2. NoHole(wire, seq, last)
            BY <1>1, <1>4, <2>2, <3>1, SequenceTaken
        <3> QED
            BY <1>4, <2>2, <3>2
    <2>3. CASE ~Numbered(m)
        <3>1. m.seq = 0 /\ last' = last
            BY <2>1, <2>3 DEF Numbered, InOrder, Receive
        <3>2. NoHole(wire', seq, last') => NoHole(wire, seq, last)
            BY <1>1, <3>1, SequenceLost
        <3> QED
            BY <1>3, <2>1, <2>3, <3>1, <3>2
    <2> QED
        BY <2>2, <2>3
<1> QED
    BY <1>3, <1>4, <1>5

\* What a message does to a market it isn't about.
LEMMA KOther ==
    ASSUME KInv, NEW m, InOrder(m), UNCHANGED <<conn, seq, served, changes, gap>>,
           NEW t \in Tickers, ~About(m, t), seen'[t] = seen[t], book'[t] = book[t],
           t \in ignored' <=> t \in ignored, sid => sid'
    PROVE  Tells(t, wire', seen'[t], changes'[t], served') /\ Held(t)'
<1>1. /\ wire \in Seq(Messages) /\ wire # <<>> /\ m = Head(wire) /\ wire' = Tail(wire) /\ conn = "up"
    BY KReceive DEF InOrder
<1>2. seen[t] \in Nat /\ changes[t] \in Nat /\ Tells(t, wire, seen[t], changes[t], served)
    BY DEF KInv, KTypes, Counts
<1>3. Tells(t, wire', seen[t], changes[t], served)
    BY <1>1, <1>2, TaleLost
<1>4. Continues(t, wire, seen[t], changes[t], served) =>
          Continues(t, wire', seen[t], changes[t], served)
    BY <1>1, <1>2, TaleSkipped
<1>5. Held(t)
    BY DEF KInv
<1>6. ASSUME book[t].ready PROVE last' # 0 /\ (NoHole(wire', seq, last') => NoHole(wire, seq, last))
    BY <1>6, KInOrder
<1>7. Held(t)'
    BY <1>4, <1>5, <1>6 DEF Held
<1> QED
    BY <1>3, <1>7

LEMMA KHandleGap == ASSUME KInv, NEW m, HandleGap(m) PROVE KInv'
<1> USE DEF KInv
<1>1. /\ Receive(m) /\ book' = AllDown
      /\ UNCHANGED <<kalshi, cmds, conn, subs, sync, halves, seen, hist>>
    BY DEF HandleGap
<1>2. /\ wire \in Seq(Messages) /\ wire # <<>> /\ wire' = Tail(wire) /\ wire' \in Seq(Messages)
      /\ last' \in Nat /\ conn = "up" /\ Numbers'
    BY <1>1, KReceive DEF kalshi
<1>3. KTypes' /\ NoConnection'
    BY <1>1, <1>2, DownIs DEF KTypes, NoConnection, kalshi, subs
<1>4. ASSUME NEW t \in Tickers PROVE Tells(t, wire', seen'[t], changes'[t], served')
    <2>1. seen[t] \in Nat /\ changes[t] \in Nat /\ Tells(t, wire, seen[t], changes[t], served)
        BY <1>4 DEF KTypes, Counts
    <2> QED
        BY <1>1, <1>2, <2>1, TaleLost DEF kalshi
<1>5. \A t \in Tickers : Held(t)'
    BY <1>1, DownIs DEF Held
<1> QED
    BY <1>2, <1>3, <1>4, <1>5 DEF Counts

LEMMA KHandleOther ==
    ASSUME KInv, NEW m, HandleAck(m) \/ HandleError(m)
    PROVE  KInv'
<1> USE DEF KInv
<1>1. /\ InOrder(m) /\ Receive(m) /\ m.kind \in {"subscribed", "ok", "error"}
      /\ UNCHANGED <<kalshi, cmds, conn, wanted, changed, gap, sync, book, seen, hist>>
      /\ sid => sid'
    <2>1. CASE HandleAck(m)
        BY <2>1 DEF HandleAck, InOrder, subs
    <2>2. CASE HandleError(m)
        BY <2>2 DEF HandleError, InOrder
    <2> QED
        BY <2>1, <2>2
<1>2. /\ m \in Messages /\ wire' \in Seq(Messages) /\ last' \in Nat /\ conn = "up" /\ Numbers'
    BY <1>1, KReceive DEF kalshi
<1>3. requested' \subseteq Tickers /\ halves' \subseteq SUBSET Tickers
    <2>1. CASE HandleAck(m)
        BY <2>1 DEF HandleAck, subs, KTypes
    <2>2. CASE HandleError(m)
        <3>1. m.ts \subseteq Tickers
            BY <1>2, <2>2, MessageIs DEF HandleError
        <3>2. requested' \subseteq Tickers
            BY <2>2 DEF HandleError, KTypes
        <3>3. CASE Cardinality(m.ts) = 1
            BY <2>2, <3>2, <3>3 DEF HandleError, KTypes
        <3>4. CASE Cardinality(m.ts) # 1
            <4>1. PICK a \in SUBSET m.ts : halves' = halves \cup {a, m.ts \ a}
                BY <2>2, <3>4 DEF HandleError
            <4> QED
                BY <3>1, <3>2, <4>1 DEF KTypes
        <3> QED
            BY <3>3, <3>4
    <2> QED
        BY <2>1, <2>2
<1>4. KTypes' /\ NoConnection'
    BY <1>1, <1>2, <1>3 DEF KTypes, NoConnection, kalshi
<1>5. ASSUME NEW t \in Tickers
      PROVE  Tells(t, wire', seen'[t], changes'[t], served') /\ Held(t)'
    <2>1. ~About(m, t)
        BY <1>1 DEF About
    <2> QED
        BY <1>1, <2>1, KOther DEF kalshi, hist
<1> QED
    BY <1>2, <1>4, <1>5 DEF Counts

LEMMA KHandleDelta == ASSUME KInv, NEW m, HandleDelta(m) PROVE KInv'
<1> USE DEF KInv
<1>1. /\ InOrder(m) /\ Receive(m) /\ m.kind = "delta" /\ sid' = TRUE
      /\ UNCHANGED <<kalshi, cmds, conn, subs, gap, sync, halves, hist>>
    BY DEF HandleDelta, InOrder
<1>2. /\ wire \in Seq(Messages) /\ wire # <<>> /\ m = Head(wire) /\ m \in Messages
      /\ wire' = Tail(wire) /\ wire' \in Seq(Messages) /\ last' \in Nat /\ conn = "up" /\ Numbers'
    BY <1>1, KReceive DEF kalshi
<1>3. m.t \in Tickers /\ m.n \in Nat /\ About(m, m.t)
    BY <1>1, <1>2, MessageIs DEF About
<1>4. /\ seen[m.t] \in Nat /\ changes[m.t] \in Nat /\ Held(m.t)
      /\ Tells(m.t, wire, seen[m.t], changes[m.t], served)
    BY <1>3 DEF KTypes, Counts
<1>5. /\ Tells(m.t, wire', m.n, changes[m.t], served)
      /\ Continues(m.t, wire', m.n, changes[m.t], served)
      /\ Continues(m.t, wire, seen[m.t], changes[m.t], served) => m.n = seen[m.t] + 1
    BY <1>1, <1>2, <1>3, <1>4, TaleTaken
<1>6. Tells(m.t, wire', seen[m.t], changes[m.t], served)
    BY <1>2, <1>4, TaleLost
<1>7. CASE book[m.t].ready
    <2>1. /\ book' = [book EXCEPT ![m.t].has = Append(@, m.n)]
          /\ seen' = IF m.t \in ignored THEN seen ELSE [seen EXCEPT ![m.t] = m.n]
        BY <1>7 DEF HandleDelta
    <2>2. book[m.t] \in [ready : BOOLEAN, has : Seq(Nat)]
        BY <1>3 DEF KTypes
    <2>3. [book[m.t] EXCEPT !.has = Append(book[m.t].has, m.n)] \in [ready : BOOLEAN, has : Seq(Nat)]
        <3>1. Append(book[m.t].has, m.n) \in Seq(Nat)
            BY <1>3, <2>2
        <3> QED
            BY <2>2, <3>1
    <2>4. book' \in [Tickers -> [ready : BOOLEAN, has : Seq(Nat)]] /\ seen' \in [Tickers -> Nat]
        BY <1>3, <2>1, <2>3 DEF KTypes
    <2>5. book'[m.t] = [book[m.t] EXCEPT !.has = Append(book[m.t].has, m.n)]
        BY <1>3, <2>1 DEF KTypes
    <2>6. last # 0 /\ ~gap /\ last' # 0 /\ NoHole(wire, seq, last)
        BY <1>1, <1>3, <1>4, <1>7, KInOrder DEF Held, kalshi
    <2>7. KTypes' /\ NoConnection'
        BY <1>1, <1>2, <2>4 DEF KTypes, NoConnection, kalshi, subs
    <2>8. Tells(m.t, wire', seen'[m.t], changes[m.t], served) /\ Held(m.t)'
        <3>1. CASE m.t \in ignored
            BY <1>1, <1>2, <1>6, <2>1, <2>6, <3>1 DEF Held, hist
        <3>2. CASE m.t \notin ignored
            <4>1. book[m.t] = Promise!Up(seen[m.t]) /\ m.n = seen[m.t] + 1
                BY <1>4, <1>5, <1>7, <2>6, <3>2 DEF Held
            <4>2. book'[m.t] = Promise!Up(m.n)
                <5>1. [book[m.t] EXCEPT !.has = Append(book[m.t].has, seen[m.t] + 1)]
                          = Promise!Up(seen[m.t] + 1)
                    BY <1>4, <4>1, UpNext
                <5> QED
                    BY <2>5, <4>1, <5>1
            <4>3. seen'[m.t] = m.n
                BY <1>3, <2>1, <3>2 DEF KTypes
            <4> QED
                BY <1>1, <1>2, <1>5, <2>6, <4>2, <4>3 DEF Held, kalshi
        <3> QED
            BY <3>1, <3>2
    <2>9. ASSUME NEW t \in Tickers, t # m.t
          PROVE  Tells(t, wire', seen'[t], changes'[t], served') /\ Held(t)'
        <3>1. ~About(m, t) /\ seen'[t] = seen[t] /\ book'[t] = book[t]
            BY <1>3, <2>1, <2>9 DEF About, KTypes
        <3> QED
            BY <1>1, <2>9, <3>1, KOther DEF kalshi, hist
    <2> QED
        BY <1>1, <1>2, <2>7, <2>8, <2>9 DEF Counts, kalshi
<1>8. CASE ~book[m.t].ready
    <2>1. UNCHANGED <<book, seen>>
        BY <1>8 DEF HandleDelta
    <2>2. KTypes' /\ NoConnection'
        BY <1>1, <1>2, <2>1 DEF KTypes, NoConnection, kalshi, subs
    <2>3. Held(m.t)'
        BY <1>8, <2>1 DEF Held
    <2>4. ASSUME NEW t \in Tickers, t # m.t
          PROVE  Tells(t, wire', seen'[t], changes'[t], served') /\ Held(t)'
        <3>1. ~About(m, t)
            BY <2>4 DEF About
        <3> QED
            BY <1>1, <2>1, <2>4, <3>1, KOther DEF kalshi, hist
    <2> QED
        BY <1>1, <1>2, <1>6, <2>1, <2>2, <2>3, <2>4 DEF Counts, kalshi
<1> QED
    BY <1>7, <1>8

LEMMA KHandleSnapshot == ASSUME KInv, NEW m, HandleSnapshot(m) PROVE KInv'
<1> USE DEF KInv
<1>1. /\ InOrder(m) /\ Receive(m) /\ m.kind = "snapshot" /\ sid' = TRUE
      /\ UNCHANGED <<kalshi, cmds, conn, subs, gap, sync, halves, lost>>
    BY DEF HandleSnapshot, InOrder
<1>2. /\ wire \in Seq(Messages) /\ wire # <<>> /\ m = Head(wire) /\ m \in Messages
      /\ wire' = Tail(wire) /\ wire' \in Seq(Messages) /\ last' \in Nat /\ conn = "up" /\ Numbers'
    BY <1>1, KReceive DEF kalshi
<1>3. m.t \in Tickers /\ m.n \in Nat /\ About(m, m.t)
    BY <1>1, <1>2, MessageIs DEF About
<1>4. /\ seen[m.t] \in Nat /\ changes[m.t] \in Nat /\ Held(m.t)
      /\ Tells(m.t, wire, seen[m.t], changes[m.t], served)
    BY <1>3 DEF KTypes, Counts
<1>5. /\ Tells(m.t, wire', m.n, changes[m.t], served)
      /\ Continues(m.t, wire', m.n, changes[m.t], served)
    BY <1>1, <1>2, <1>3, <1>4, TaleTaken
<1>6. last' # 0 /\ ~gap
    BY <1>1, KInOrder DEF InOrder, kalshi
<1>7. CASE m.t \in wanted
    <2>1. /\ book' = [book EXCEPT ![m.t] = Promise!Up(m.n)] /\ seen' = [seen EXCEPT ![m.t] = m.n]
          /\ ignored' = ignored \ {m.t}
        BY <1>7 DEF HandleSnapshot
    <2>2. book' \in [Tickers -> [ready : BOOLEAN, has : Seq(Nat)]] /\ seen' \in [Tickers -> Nat]
        BY <1>3, <2>1, BookIs DEF KTypes
    <2>3. KTypes' /\ NoConnection'
        BY <1>1, <1>2, <2>2 DEF KTypes, NoConnection, kalshi, subs
    <2>4. book'[m.t] = Promise!Up(m.n) /\ seen'[m.t] = m.n
        BY <1>3, <2>1 DEF KTypes
    <2>5. Held(m.t)'
        BY <1>1, <1>2, <1>5, <1>6, <2>4 DEF Held, kalshi
    <2>6. ASSUME NEW t \in Tickers, t # m.t
          PROVE  Tells(t, wire', seen'[t], changes'[t], served') /\ Held(t)'
        <3>1. /\ ~About(m, t) /\ seen'[t] = seen[t] /\ book'[t] = book[t]
              /\ t \in ignored' <=> t \in ignored
            BY <1>3, <2>1, <2>6 DEF About, KTypes
        <3> QED
            BY <1>1, <2>6, <3>1, KOther DEF kalshi
    <2> QED
        BY <1>1, <1>2, <1>5, <2>3, <2>4, <2>5, <2>6 DEF Counts, kalshi
<1>8. CASE m.t \notin wanted
    <2>1. UNCHANGED <<book, seen>> /\ ignored' = ignored \cup {m.t}
        BY <1>8 DEF HandleSnapshot
    <2>2. KTypes' /\ NoConnection'
        BY <1>1, <1>2, <2>1 DEF KTypes, NoConnection, kalshi, subs
    <2>3. Held(m.t)'
        BY <1>1, <1>2, <1>4, <1>6, <2>1 DEF Held
    <2>4. Tells(m.t, wire', seen[m.t], changes[m.t], served)
        BY <1>2, <1>4, TaleLost
    <2>5. ASSUME NEW t \in Tickers, t # m.t
          PROVE  Tells(t, wire', seen'[t], changes'[t], served') /\ Held(t)'
        <3>1. ~About(m, t) /\ (t \in ignored' <=> t \in ignored)
            BY <2>1, <2>5 DEF About
        <3> QED
            BY <1>1, <2>1, <2>5, <3>1, KOther DEF kalshi
    <2> QED
        BY <1>1, <1>2, <2>1, <2>2, <2>3, <2>4, <2>5 DEF Counts, kalshi
<1> QED
    BY <1>7, <1>8

-----------------------------------------------------------------------------
(* The invariant holds *)

LEMMA KStep == KInv /\ [Next]_vars => KInv'
<1> SUFFICES ASSUME KInv, [Next]_vars PROVE KInv'
    OBVIOUS
<1>1. ASSUME NEW t \in world.markets, Change(t) \/ SendSnapshot(t) PROVE KInv'
    BY <1>1, KChange, KSendSnapshot
<1>2. CASE Refuse \/ Accept \/ Stop \/ Lose
    BY <1>2, KRefuse, KAccept, KStop, KLose
<1>3. CASE Connect \/ Disconnect
    BY <1>3, KConnect, KDisconnect
<1>4. ASSUME NEW w \in SUBSET world.markets, SetMarkets(w) PROVE KInv'
    BY <1>4, KSetMarkets
<1>5. CASE SyncDrop \/ SyncAdd \/ SyncMore
    BY <1>5, KSyncDrop, KSyncAdd, KSyncMore
<1>6. ASSUME NEW ts \in halves, SubscribeHalf(ts) PROVE KInv'
    BY <1>6, KSubscribeHalf
<1>7. CASE Handle
    BY <1>7, KHandleGap, KHandleDelta, KHandleSnapshot, KHandleOther DEF Handle
<1>8. CASE UNCHANGED vars
    BY <1>8, KStutter
<1> QED
    BY <1>1, <1>2, <1>3, <1>4, <1>5, <1>6, <1>7, <1>8 DEF Next

\* What is on the wire continues what _handle last applied to each book, until a lost message is
\* noticed by its number.
THEOREM KInvariance == Spec => []KInv
<1> QED
    BY KInit, KStep, PTL DEF Spec

-----------------------------------------------------------------------------
(* KalshiFeed implements BookPromise *)

\* What is shown of a market's book.
LEMMA ShownIs ==
    /\ Shown \in [Tickers -> {Down} \cup {book[t] : t \in Tickers}]
    /\ Shown = [t \in Tickers |-> IF t \in ignored THEN Down ELSE book[t]]
    /\ Shown' = [t \in Tickers |-> IF t \in ignored' THEN Down ELSE book'[t]]
    BY DEF Shown

LEMMA InitPromised == Init => Promise!Init
    BY DownIs DEF Init, Promise!Init, Shown, AllDown

\* Books go down, and nothing else is shown.
LEMMA TakesDown ==
    ASSUME UNCHANGED <<changes, seen>>, NEW ms \in SUBSET Tickers,
           \A t \in Tickers : Shown'[t] = IF t \in ms THEN Down ELSE Shown[t]
    PROVE  Promise!Next
<1>1. Shown' = [t \in Tickers |-> IF t \in ms THEN Promise!Down ELSE Shown[t]]
    BY ShownIs, DownIs
<1>2. Promise!TakeDown(ms)
    BY <1>1 DEF Promise!TakeDown
<1> QED
    BY <1>2 DEF Promise!Next

LEMMA ShowsNoMore ==
    ASSUME UNCHANGED <<changes, seen, book, ignored>>
    PROVE  UNCHANGED Promise!vars
    BY DEF Promise!vars, Shown

LEMMA FollowsUp ==
    ASSUME KInv, NEW m, HandleDelta(m)
    PROVE  [Promise!Next]_(Promise!vars)
<1>1. /\ InOrder(m) /\ Receive(m) /\ m.kind = "delta" /\ UNCHANGED <<kalshi, conn, hist>>
    BY DEF HandleDelta, InOrder
<1>2. /\ wire \in Seq(Messages) /\ wire # <<>> /\ m = Head(wire) /\ m \in Messages
    BY <1>1, KReceive DEF kalshi
<1>3. m.t \in Tickers /\ m.n \in Nat /\ About(m, m.t)
    BY <1>1, <1>2, MessageIs DEF About
<1>4. CASE ~book[m.t].ready
    BY <1>1, <1>4, ShowsNoMore DEF HandleDelta, kalshi, hist
<1>5. CASE book[m.t].ready /\ m.t \in ignored
    <2>1. /\ seen' = seen /\ changes' = changes /\ ignored' = ignored
          /\ \A t \in Tickers : t # m.t => book'[t] = book[t]
        BY <1>1, <1>3, <1>5 DEF HandleDelta, KInv, KTypes, kalshi, hist
    <2>2. Shown' = Shown
        BY <1>5, <2>1, ShownIs
    <2> QED
        BY <2>1, <2>2 DEF Promise!vars
<1>6. CASE book[m.t].ready /\ m.t \notin ignored
    <2>1. /\ seen[m.t] \in Nat /\ changes[m.t] \in Nat /\ Held(m.t)
          /\ Tells(m.t, wire, seen[m.t], changes[m.t], served)
        BY <1>3 DEF KInv, KTypes, Counts
    <2>2. NoHole(wire, seq, last)
        BY <1>1, <1>3, <1>6, KInOrder DEF kalshi
    <2>3. book[m.t] = Promise!Up(seen[m.t]) /\ Continues(m.t, wire, seen[m.t], changes[m.t], served)
        BY <1>6, <2>1, <2>2 DEF Held
    <2>4. m.n = seen[m.t] + 1 /\ m.n <= changes[m.t]
        BY <1>1, <1>2, <1>3, <2>1, <2>3, TaleTaken
    <2>5. /\ seen' = [seen EXCEPT ![m.t] = m.n] /\ changes' = changes /\ ignored' = ignored
          /\ book' = [book EXCEPT ![m.t].has = Append(@, m.n)]
        BY <1>1, <1>6 DEF HandleDelta, kalshi, hist
    <2>6. KInv'
        BY KHandleDelta
    <2>7. book'[m.t] = Promise!Up(seen[m.t] + 1)
        <3>1. book'[m.t].ready /\ seen'[m.t] = seen[m.t] + 1
            <4>1. book'[m.t] = [book[m.t] EXCEPT !.has = Append(book[m.t].has, m.n)]
                BY <1>3, <2>5 DEF KInv, KTypes
            <4>2. book[m.t] \in [ready : BOOLEAN, has : Seq(Nat)]
                BY <1>3 DEF KInv, KTypes
            <4>3. book'[m.t].ready = book[m.t].ready
                BY <4>1, <4>2
            <4> QED
                BY <1>3, <1>6, <2>4, <2>5, <4>3 DEF KInv, KTypes
        <3> QED
            BY <1>3, <1>6, <2>5, <2>6, <3>1 DEF KInv, Held
    <2>8. Shown[m.t] = Promise!Up(seen[m.t])
        BY <1>3, <1>6, <2>3, ShownIs
    <2>9. Shown' = [Shown EXCEPT ![m.t] = Promise!Up(seen[m.t] + 1)]
        <3>1. \A t \in Tickers : t # m.t => book'[t] = book[t]
            BY <1>3, <2>5 DEF KInv, KTypes
        <3> QED
            BY <1>3, <1>6, <2>5, <2>7, <3>1, ShownIs
    <2>10. Promise!Follow(m.t)
        <3>1. seen' = [seen EXCEPT ![m.t] = @ + 1]
            BY <1>3, <2>4, <2>5
        <3>2. seen[m.t] < changes[m.t]
            BY <2>1, <2>4
        <3> QED
            BY <2>5, <2>8, <2>9, <3>1, <3>2 DEF Promise!Follow
    <2> QED
        BY <1>3, <2>10 DEF Promise!Next
<1> QED
    BY <1>4, <1>5, <1>6

LEMMA ShowsSnapshot ==
    ASSUME KInv, NEW m, HandleSnapshot(m)
    PROVE  Promise!Next
<1>1. /\ InOrder(m) /\ Receive(m) /\ m.kind = "snapshot" /\ UNCHANGED <<kalshi, conn>>
    BY DEF HandleSnapshot, InOrder
<1>2. /\ wire \in Seq(Messages) /\ wire # <<>> /\ m = Head(wire) /\ m \in Messages
    BY <1>1, KReceive DEF kalshi
<1>3. m.t \in Tickers /\ m.n \in Nat /\ About(m, m.t)
    BY <1>1, <1>2, MessageIs DEF About
<1>4. /\ seen[m.t] \in Nat /\ changes[m.t] \in Nat
      /\ Tells(m.t, wire, seen[m.t], changes[m.t], served)
    BY <1>3 DEF KInv, KTypes, Counts
<1>5. CASE m.t \in wanted
    <2>1. m.n \in seen[m.t]..changes[m.t]
        BY <1>2, <1>3, <1>4, TaleTaken
    <2>2. /\ book' = [book EXCEPT ![m.t] = Promise!Up(m.n)] /\ seen' = [seen EXCEPT ![m.t] = m.n]
          /\ ignored' = ignored \ {m.t} /\ changes' = changes
        BY <1>1, <1>5 DEF HandleSnapshot, kalshi
    <2>3. /\ book'[m.t] = Promise!Up(m.n)
          /\ \A t \in Tickers : t # m.t => book'[t] = book[t]
        BY <1>3, <2>2 DEF KInv, KTypes
    <2>4. Shown' = [Shown EXCEPT ![m.t] = Promise!Up(m.n)]
        BY <1>3, <2>2, <2>3, ShownIs
    <2>5. Promise!Show(m.t)
        BY <2>1, <2>2, <2>4 DEF Promise!Show
    <2> QED
        BY <1>3, <2>5 DEF Promise!Next
<1>6. CASE m.t \notin wanted
    <2>1. UNCHANGED <<book, seen, changes>> /\ ignored' = ignored \cup {m.t}
        BY <1>1, <1>6 DEF HandleSnapshot, kalshi
    <2>2. \A t \in Tickers : Shown'[t] = IF t \in {m.t} THEN Down ELSE Shown[t]
        BY <2>1, ShownIs
    <2> QED
        BY <1>3, <2>1, <2>2, TakesDown
<1> QED
    BY <1>5, <1>6

LEMMA StepPromised == KInv /\ [Next]_vars => [Promise!Next]_(Promise!vars)
<1> SUFFICES ASSUME KInv, [Next]_vars PROVE [Promise!Next]_(Promise!vars)
    OBVIOUS
<1>1. ASSUME NEW t \in world.markets, Change(t) PROVE Promise!Next
    <2>1. t \in Tickers
        BY MarketIs DEF KInv
    <2>2. changes' = [changes EXCEPT ![t] = @ + 1] /\ UNCHANGED <<book, seen, ignored>>
        BY <1>1 DEF Change, hist
    <2>3. Promise!Change(t)
        BY <2>2 DEF Promise!Change, Shown
    <2> QED
        BY <2>1, <2>3 DEF Promise!Next
<1>2. ASSUME NEW t \in world.markets, SendSnapshot(t) PROVE UNCHANGED Promise!vars
    BY <1>2, ShowsNoMore DEF SendSnapshot, hist
<1>3. CASE Refuse \/ Accept \/ Stop \/ Lose
    BY <1>3, ShowsNoMore DEF Refuse, Accept, Stop, Lose, kalshi, hist
<1>4. CASE Connect
    <2>1. book = AllDown /\ UNCHANGED <<changes, seen, book>>
        BY <1>4 DEF Connect, KInv, NoConnection, kalshi
    <2>2. Shown' = Shown
        BY <2>1, ShownIs, DownIs
    <2> QED
        BY <2>1, <2>2 DEF Promise!vars
<1>5. CASE Disconnect \/ \E m : HandleGap(m)
    <2>1. book' = AllDown /\ UNCHANGED <<changes, seen, ignored>>
        BY <1>5 DEF Disconnect, HandleGap, kalshi, hist
    <2>2. \A t \in Tickers : Shown'[t] = IF t \in Tickers THEN Down ELSE Shown[t]
        BY <2>1, ShownIs, DownIs
    <2> QED
        BY <2>1, <2>2, TakesDown
<1>6. ASSUME NEW w \in SUBSET world.markets, SetMarkets(w) PROVE UNCHANGED Promise!vars
    BY <1>6, ShowsNoMore DEF SetMarkets, kalshi, hist
<1>7. CASE SyncDrop
    <2>1. /\ book' = [t \in Tickers |-> IF t \in Drops THEN Down ELSE book[t]]
          /\ UNCHANGED <<changes, seen, ignored>> /\ Drops \subseteq Tickers
        BY <1>7 DEF SyncDrop, kalshi, hist, Drops, KInv, KTypes
    <2>2. \A t \in Tickers : Shown'[t] = IF t \in Drops THEN Down ELSE Shown[t]
        BY <2>1, ShownIs
    <2> QED
        BY <2>1, <2>2, TakesDown
<1>8. CASE SyncAdd \/ SyncMore
    BY <1>8, ShowsNoMore DEF SyncAdd, SyncMore, SubscribeTo, kalshi, hist
<1>9. ASSUME NEW ts \in halves, SubscribeHalf(ts) PROVE UNCHANGED Promise!vars
    BY <1>9, ShowsNoMore DEF SubscribeHalf, kalshi, hist
<1>10. ASSUME NEW m, HandleDelta(m) PROVE [Promise!Next]_(Promise!vars)
    BY <1>10, FollowsUp
<1>11. ASSUME NEW m, HandleSnapshot(m) PROVE Promise!Next
    BY <1>11, ShowsSnapshot
<1>12. ASSUME NEW m, HandleAck(m) \/ HandleError(m) PROVE UNCHANGED Promise!vars
    BY <1>12, ShowsNoMore DEF HandleAck, HandleError, kalshi, hist
<1>13. CASE UNCHANGED vars
    BY <1>13, ShowsNoMore DEF vars, kalshi, hist
<1> QED
    BY <1>1, <1>2, <1>3, <1>4, <1>5, <1>6, <1>7, <1>8, <1>9, <1>10, <1>11, <1>12, <1>13
    DEF Next, Handle

\* A ready book is the exchange's as it was some time ago, whole, and follows it one
\* change at a time, whatever is lost, refused, sent again or asked for while it is on its
\* way; it never goes back in time.  Unless its last snapshot came while it was unwanted.
THEOREM BooksAsPromised == Spec => Promised
<1> QED
    BY InitPromised, StepPromised, KInvariance, PTL DEF Spec, Promised, Promise!Spec

-----------------------------------------------------------------------------
(* What is asked for gets served *)

Open == conn # "down"

\* Unless a message is lost no number is ever missing.
Whole ==
    /\ Open /\ last # 0 => sid
    /\ Open /\ ~lost => ~gap /\ (last = 0 \/ NoHole(wire, seq, last))

\* A batch is refused for a market that Kalshi doesn't know.
Refusals ==
    /\ rejected \subseteq world.refused
    /\ \A m \in Range(wire) : m.kind = "error" => m.ts \cap world.refused # {}

\* The last of the commands c that names market t subscribes to it.
Asks(t, c) == \E i \in 1..Len(c) : /\ c[i].cmd = "subscribe" /\ t \in c[i].ts
                                   /\ \A j \in 1..Len(c) : j > i => t \notin c[j].ts
Silent(t, c) == \A i \in 1..Len(c) : t \notin c[i].ts

\* A market that was asked for will be served, unless its batch was refused.
Requests == \A t \in Tickers : Open /\ ~lost /\ t \in requested =>
    \/ Asks(t, cmds)
    \/ Silent(t, cmds) /\ t \in served \cup owed
    \/ \E m \in Range(wire) : m.kind = "error" /\ t \in m.ts

\* A market that is wanted was asked for, or will be.
Wants == \A t \in Tickers : Open /\ t \in wanted =>
    \/ changed \/ sync.at \in {"start", "add"} \/ (sync.at = "more" /\ t \in sync.todo)
    \/ t \in requested \cup rejected
    \/ \E ts \in halves : t \in ts

\* A market that is served has its book, unless its snapshot is on the wire or it is to end.
Readied == \A t \in Tickers :
    /\ Open /\ ~lost /\ t \in served \ ignored
    /\ \A m \in Range(wire) : ~(m.kind = "snapshot" /\ m.t = t)
    /\ \A c \in Range(cmds) : ~(c.cmd = "delete" /\ t \in c.ts)
    => book[t].ready

SInv == Whole /\ Refusals /\ Requests /\ Wants /\ Readied

-----------------------------------------------------------------------------

LEMMA NoRange == Range(<<>>) = {}
<1>1. DOMAIN <<>> = {}
    BY DEF Range
<1> QED
    BY <1>1 DEF Range

LEMMA RangeIs ==
    ASSUME NEW S, NEW w \in Seq(S)
    PROVE  /\ Range(w) = {w[i] : i \in 1..Len(w)}
           /\ w # <<>> => /\ Range(Tail(w)) \subseteq Range(w) /\ Head(w) \in Range(w)
                          /\ \A m \in Range(w) : m = Head(w) \/ m \in Range(Tail(w))
           /\ \A m \in S : Range(Append(w, m)) = Range(w) \cup {m}
<1>1. \A v \in Seq(S) : Range(v) = {v[i] : i \in 1..Len(v)}
    BY DEF Range
<1>2. ASSUME w # <<>>
      PROVE  /\ Range(Tail(w)) \subseteq Range(w) /\ Head(w) \in Range(w)
             /\ \A m \in Range(w) : m = Head(w) \/ m \in Range(Tail(w))
    <2>1. /\ Tail(w) \in Seq(S) /\ Head(w) = w[1] /\ 1 \in 1..Len(w)
          /\ \A i \in 1..Len(Tail(w)) : Tail(w)[i] = w[i + 1] /\ i + 1 \in 1..Len(w)
          /\ \A i \in 1..Len(w) : i = 1 \/ (i - 1 \in 1..Len(Tail(w)) /\ Tail(w)[i - 1] = w[i])
        BY <1>2
    <2>2. Range(w) = {w[i] : i \in 1..Len(w)} /\ Range(Tail(w)) = {Tail(w)[i] : i \in 1..Len(Tail(w))}
        BY <1>1, <2>1
    <2> QED
        BY <2>1, <2>2, ZenonT(40)
<1>3. ASSUME NEW m \in S PROVE Range(Append(w, m)) = Range(w) \cup {m}
    <2>1. /\ Append(w, m) \in Seq(S) /\ Len(Append(w, m)) = Len(w) + 1 /\ Len(w) \in Nat
          /\ Append(w, m)[Len(w) + 1] = m /\ \A i \in 1..Len(w) : Append(w, m)[i] = w[i]
        OBVIOUS
    <2>2. /\ Range(w) = {w[i] : i \in 1..Len(w)}
          /\ Range(Append(w, m)) = {Append(w, m)[i] : i \in 1..Len(w) + 1}
        BY <1>1, <2>1
    <2>3. \A i : i \in 1..Len(w) + 1 <=> i \in 1..Len(w) \/ i = Len(w) + 1
        BY <2>1
    <2> QED
        BY <2>1, <2>2, <2>3
<1> QED
    BY <1>1, <1>2, <1>3

LEMMA AsksTail ==
    ASSUME NEW c \in Seq(Commands), c # <<>>, NEW t
    PROVE  /\ Asks(t, c) => \/ Asks(t, Tail(c))
                            \/ Head(c).cmd = "subscribe" /\ t \in Head(c).ts /\ Silent(t, Tail(c))
           /\ Silent(t, c) => Silent(t, Tail(c)) /\ t \notin Head(c).ts
<1> DEFINE d == Tail(c)
<1>1. /\ \A i \in 1..Len(d) : d[i] = c[i + 1] /\ i + 1 \in 1..Len(c)
      /\ \A i \in 1..Len(c) : i = 1 \/ (i - 1 \in 1..Len(d) /\ d[i - 1] = c[i])
      /\ Len(d) \in Nat /\ 1 \in 1..Len(c) /\ Len(c) \in Nat /\ Head(c) = c[1]
    OBVIOUS
<1> HIDE DEF d
<1>2. ASSUME Asks(t, c)
      PROVE  Asks(t, d) \/ (Head(c).cmd = "subscribe" /\ t \in Head(c).ts /\ Silent(t, d))
    <2>1. PICK i \in 1..Len(c) : /\ c[i].cmd = "subscribe" /\ t \in c[i].ts
                                 /\ \A j \in 1..Len(c) : j > i => t \notin c[j].ts
        BY <1>2 DEF Asks
    <2>2. CASE i = 1
        <3>1. c[1].cmd = "subscribe" /\ t \in c[1].ts
            BY <2>1, <2>2
        <3>2. ASSUME NEW j \in 1..Len(d) PROVE t \notin d[j].ts
            <4>1. j + 1 \in 1..Len(c) /\ d[j] = c[j + 1] /\ j + 1 > 1
                BY <1>1
            <4> QED
                BY <2>1, <2>2, <4>1
        <3>3. Silent(t, d)
            BY <3>2 DEF Silent
        <3> QED
            BY <1>1, <3>1, <3>3
    <2>3. CASE i # 1
        <3>1. i - 1 \in 1..Len(d) /\ d[i - 1] = c[i]
            BY <1>1, <2>3
        <3>2. ASSUME NEW j \in 1..Len(d), j > i - 1 PROVE t \notin d[j].ts
            <4>1. j + 1 \in 1..Len(c) /\ d[j] = c[j + 1] /\ j + 1 > i
                BY <1>1, <3>2
            <4> QED
                BY <2>1, <4>1
        <3> QED
            BY <2>1, <3>1, <3>2 DEF Asks
    <2> QED
        BY <2>2, <2>3
<1>3. Silent(t, c) => Silent(t, d) /\ t \notin Head(c).ts
    BY <1>1 DEF Silent
<1> QED
    BY <1>2, <1>3 DEF d

LEMMA AsksAppend ==
    ASSUME NEW c \in Seq(Commands), NEW e \in Commands, NEW t
    PROVE  /\ t \notin e.ts => /\ Asks(t, c) => Asks(t, Append(c, e))
                               /\ Silent(t, c) => Silent(t, Append(c, e))
           /\ e.cmd = "subscribe" /\ t \in e.ts => Asks(t, Append(c, e))
<1> DEFINE d == Append(c, e)
           n == Len(c) + 1
<1>1. /\ Len(c) \in Nat /\ Len(d) = n /\ d[n] = e /\ n \in 1..Len(d)
      /\ \A i \in 1..Len(c) : d[i] = c[i] /\ i \in 1..Len(d) /\ i < n
      /\ \A i \in 1..Len(d) : (i \in 1..Len(c) \/ i = n) /\ ~(i > n)
    OBVIOUS
<1> HIDE DEF d, n
<1> QED
    BY <1>1 DEF Asks, Silent, d

LEMMA NoHoleJoined ==
    ASSUME NEW w \in Seq(Messages), NEW m \in Messages, NEW q \in Nat, NEW l \in Nat,
           NoHole(w, q, l)
    PROVE  /\ m.seq = 0 => NoHole(Append(w, m), q, l)
           /\ m.seq = q + 1 => NoHole(Append(w, m), q + 1, l)
<1> DEFINE v == Append(w, m)
<1>1. /\ Len(w) \in Nat /\ Len(v) = Len(w) + 1 /\ v[Len(w) + 1] = m
      /\ \A i \in 1..Len(w) : v[i] = w[i] /\ i \in 1..Len(v)
      /\ Len(w) + 1 \in 1..Len(v)
    BY AppendIs
<1> HIDE DEF v
<1> QED
    BY <1>1 DEF NoHole, v

LEMMA SInit == Init => SInv
<1> SUFFICES ASSUME Init PROVE SInv
    OBVIOUS
<1>1. Range(wire) = {}
    BY NoRange DEF Init
<1> QED
    BY <1>1 DEF Init, SInv, Open, Whole, Refusals, Requests, Wants, Readied

\* Kalshi sends a message.
LEMMA SSent ==
    ASSUME KInv, SInv, Open, NEW m \in Messages, wire' = Append(wire, m),
           \/ m.seq = 0 /\ seq' = seq
           \/ m.seq = seq + 1 /\ seq' = seq + 1,
           UNCHANGED <<world, conn, subs, place, sync, halves, hist>>,
           m.kind = "error" => m.ts \cap world.refused # {}
    PROVE  /\ Whole' /\ Refusals' /\ Wants'
           /\ Range(wire') = Range(wire) \cup {m}
<1>1. wire \in Seq(Messages) /\ seq \in Nat /\ last \in Nat
    BY DEF KInv, KTypes
<1>2. Range(wire') = Range(wire) \cup {m}
    BY <1>1, RangeIs
<1>3. NoHole(wire, seq, last) => NoHole(wire', seq', last)
    BY <1>1, NoHoleJoined
<1>4. Whole'
    BY <1>3 DEF SInv, Whole, Open, place, hist
<1>5. Refusals'
    BY <1>2 DEF SInv, Refusals, subs
<1>6. Wants'
    BY DEF SInv, Wants, Open, subs
<1> QED
    BY <1>2, <1>4, <1>5, <1>6

LEMMA SChange == ASSUME KInv, SInv, NEW t \in world.markets, Change(t) PROVE SInv'
<1>1. t \in Tickers /\ changes[t] \in Nat /\ seq \in Nat
    BY MarketIs DEF KInv, KTypes
<1>2. UNCHANGED <<world, served, owed, cmds, conn, subs, place, sync, halves, book, seen, hist>>
    BY DEF Change
<1>3. CASE t \in served
    <2> DEFINE m == Delta(t, changes[t] + 1, seq + 1)
    <2>1. m \in Messages /\ m.kind = "delta" /\ m.seq = seq + 1
        BY <1>1, BookedIs
    <2>2. seq' = seq + 1 /\ wire' = Append(wire, m)
        BY <1>1, <1>3 DEF Change, KInv, KTypes
    <2> HIDE DEF m
    <2>3. Open
        BY <1>3 DEF KInv, NoConnection, Open
    <2>4. Whole' /\ Refusals' /\ Wants' /\ Range(wire') = Range(wire) \cup {m}
        BY <1>2, <2>1, <2>2, <2>3, SSent
    <2>5. Requests'
        BY <1>2, <2>4 DEF SInv, Requests, Open, subs, hist
    <2>6. Readied'
        BY <1>2, <2>1, <2>4 DEF SInv, Readied, Open, hist
    <2> QED
        BY <2>4, <2>5, <2>6 DEF SInv
<1>4. CASE t \notin served
    <2>1. UNCHANGED <<seq, wire>>
        BY <1>4 DEF Change
    <2> QED
        BY <1>2, <2>1 DEF SInv, Whole, Refusals, Requests, Wants, Readied, Open, subs, place, hist
<1> QED
    BY <1>3, <1>4

LEMMA SSendSnapshot == ASSUME KInv, SInv, NEW t \in world.markets, SendSnapshot(t) PROVE SInv'
<1> DEFINE m == Snapshot(t, changes[t], seq + 1)
<1>1. t \in Tickers /\ changes[t] \in Nat /\ seq \in Nat
    BY MarketIs DEF KInv, KTypes
<1>2. m \in Messages /\ m.kind = "snapshot" /\ m.t = t /\ m.seq = seq + 1
    BY <1>1, BookedIs
<1>3. seq' = seq + 1 /\ wire' = Append(wire, m)
    BY DEF SendSnapshot
<1> HIDE DEF m
<1>4. /\ Open /\ served' = served \cup {t} /\ owed' = owed \ {t}
      /\ UNCHANGED <<world, cmds, conn, subs, place, sync, halves, book, seen, hist>>
    BY DEF SendSnapshot, KInv, NoConnection, Open
<1>5. Whole' /\ Refusals' /\ Wants' /\ Range(wire') = Range(wire) \cup {m}
    BY <1>2, <1>3, <1>4, SSent
<1>6. Requests'
    BY <1>4, <1>5 DEF SInv, Requests, Open, subs, hist
<1>7. Readied'
    BY <1>2, <1>4, <1>5 DEF SInv, Readied, Open, hist
<1> QED
    BY <1>5, <1>6, <1>7 DEF SInv

\* A command is taken from the queue.
LEMMA SCommand ==
    ASSUME KInv, cmds # <<>>
    PROVE  /\ cmds \in Seq(Commands) /\ Head(cmds) \in Range(cmds) /\ Head(cmds) \in Commands
           /\ Head(cmds).ts \subseteq Tickers
           /\ Range(Tail(cmds)) \subseteq Range(cmds)
           /\ \A c \in Range(cmds) : c = Head(cmds) \/ c \in Range(Tail(cmds))
           /\ Open /\ seq \in Nat
<1>1. cmds \in Seq(Commands) /\ Head(cmds) \in Commands /\ seq \in Nat
    BY DEF KInv, KTypes
<1>2. Open
    BY DEF KInv, NoConnection, Open
<1> QED
    BY <1>1, <1>2, RangeIs, CommandIs DEF KInv

LEMMA SRefuse == ASSUME KInv, SInv, Refuse PROVE SInv'
<1> DEFINE m == Error(Head(cmds).ts)
<1>1. /\ cmds # <<>> /\ Head(cmds).cmd = "subscribe" /\ Head(cmds).ts \cap world.refused # {}
      /\ cmds' = Tail(cmds) /\ wire' = Append(wire, m)
      /\ UNCHANGED <<kalshi, conn, subs, place, sync, halves, book, seen, hist>>
    BY DEF Refuse
<1>2. m \in Messages /\ m.kind = "error" /\ m.seq = 0 /\ m.ts = Head(cmds).ts
    <2>1. m.ts = Head(cmds).ts
        BY DEF Error
    <2> QED
        BY <1>1, <2>1, SCommand, ErrorIs
<1> HIDE DEF m
<1>3. Whole' /\ Refusals' /\ Wants' /\ Range(wire') = Range(wire) \cup {m}
    BY <1>1, <1>2, SCommand, SSent DEF kalshi
<1>4. Requests'
    <2>1. ASSUME NEW t \in Tickers
          PROVE  /\ Asks(t, cmds) => Asks(t, cmds') \/ t \in m.ts
                 /\ Silent(t, cmds) => Silent(t, cmds')
        BY <1>1, <1>2, SCommand, AsksTail
    <2> QED
        BY <1>1, <1>2, <1>3, <2>1 DEF SInv, Requests, Open, kalshi, subs, hist
<1>5. Readied'
    <2>1. \A c \in Range(cmds) : c.cmd = "delete" => c \in Range(cmds')
        BY <1>1, SCommand
    <2> QED
        BY <1>1, <1>3, <2>1 DEF SInv, Readied, Open, kalshi, hist
<1> QED
    BY <1>3, <1>4, <1>5 DEF SInv

LEMMA SAccept == ASSUME KInv, SInv, Accept PROVE SInv'
<1> DEFINE m == IF merged THEN Ok(seq + 1) ELSE Subscribed
<1>1. /\ cmds # <<>> /\ Head(cmds).cmd = "subscribe" /\ cmds' = Tail(cmds)
      /\ owed \cup (Head(cmds).ts \ served) \subseteq owed'
      /\ UNCHANGED <<world, changes, served, conn, subs, place, sync, halves, book, seen, hist>>
    BY DEF Accept
<1>2. /\ m \in Messages /\ m.kind \in {"ok", "subscribed"}
      /\ m.seq = IF merged THEN seq + 1 ELSE 0
    BY <1>1, SCommand, OkIs
<1>3. wire' = Append(wire, m) /\ seq' = IF merged THEN seq + 1 ELSE seq
    BY DEF Accept
<1> HIDE DEF m
<1>4. Whole' /\ Refusals' /\ Wants' /\ Range(wire') = Range(wire) \cup {m}
    BY <1>1, <1>2, <1>3, SCommand, SSent
<1>5. Requests'
    <2>1. ASSUME NEW t \in Tickers
          PROVE  /\ Asks(t, cmds) =>
                        Asks(t, cmds') \/ (Silent(t, cmds') /\ t \in served' \cup owed')
                 /\ Silent(t, cmds) => Silent(t, cmds')
        BY <1>1, SCommand, AsksTail
    <2> QED
        BY <1>1, <1>4, <2>1 DEF SInv, Requests, Open, subs, hist
<1>6. Readied'
    <2>1. \A c \in Range(cmds) : c.cmd = "delete" => c \in Range(cmds')
        BY <1>1, SCommand
    <2> QED
        BY <1>1, <1>4, <2>1 DEF SInv, Readied, Open, hist
<1> QED
    BY <1>4, <1>5, <1>6 DEF SInv

LEMMA SStop == ASSUME KInv, SInv, Stop PROVE SInv'
<1> DEFINE m == Ok(seq + 1)
<1>1. /\ cmds # <<>> /\ Head(cmds).cmd = "delete" /\ cmds' = Tail(cmds)
      /\ served' = served \ Head(cmds).ts /\ owed' = owed \ Head(cmds).ts
      /\ UNCHANGED <<world, changes, merged, conn, subs, place, sync, halves, book, seen, hist>>
    BY DEF Stop
<1>2. m \in Messages /\ m.kind = "ok" /\ m.seq = seq + 1
    BY <1>1, SCommand, OkIs
<1>3. wire' = Append(wire, m) /\ seq' = seq + 1
    BY DEF Stop
<1> HIDE DEF m
<1>4. Whole' /\ Refusals' /\ Wants' /\ Range(wire') = Range(wire) \cup {m}
    BY <1>1, <1>2, <1>3, SCommand, SSent
<1>5. Requests'
    <2>1. ASSUME NEW t \in Tickers
          PROVE  /\ Asks(t, cmds) => Asks(t, cmds')
                 /\ Silent(t, cmds) => Silent(t, cmds') /\ t \notin Head(cmds).ts
        BY <1>1, SCommand, AsksTail
    <2> QED
        BY <1>1, <1>4, <2>1 DEF SInv, Requests, Open, subs, hist
<1>6. Readied'
    <2>1. \A t \in served' : \A c \in Range(cmds) :
              c.cmd = "delete" /\ t \in c.ts => c \in Range(cmds')
        BY <1>1, SCommand
    <2> QED
        BY <1>1, <1>4, <2>1 DEF SInv, Readied, Open, hist
<1> QED
    BY <1>4, <1>5, <1>6 DEF SInv

LEMMA SLose == ASSUME KInv, SInv, Lose PROVE SInv'
<1>1. /\ wire \in Seq(Messages) /\ wire # <<>> /\ wire' = Tail(wire) /\ lost' = TRUE
      /\ UNCHANGED <<kalshi, cmds, conn, subs, place, sync, halves, book, seen, ignored>>
    BY DEF Lose, KInv, KTypes
<1>2. Range(wire') \subseteq Range(wire)
    BY <1>1, RangeIs
<1> QED
    BY <1>1, <1>2 DEF SInv, Whole, Refusals, Requests, Wants, Readied, Open, kalshi, subs, place

LEMMA SConnect == ASSUME KInv, SInv, Connect PROVE SInv'
<1>1. /\ wire = <<>> /\ served = {} /\ requested' = {} /\ sync'.at = "start" /\ last' = 0
      /\ gap' = FALSE
      /\ UNCHANGED <<kalshi, cmds, wire, wanted, changed, rejected, halves, book, seen>>
    BY DEF Connect, KInv, NoConnection
<1> QED
    BY <1>1 DEF SInv, Whole, Refusals, Requests, Wants, Readied, Open, kalshi

LEMMA SDisconnect == ASSUME KInv, SInv, Disconnect PROVE SInv'
<1>1. conn' = "down" /\ wire' = <<>> /\ UNCHANGED <<world, rejected>>
    BY DEF Disconnect, subs
<1>2. Range(wire') = {}
    BY <1>1, NoRange
<1> QED
    BY <1>1, <1>2 DEF SInv, Whole, Refusals, Requests, Wants, Readied, Open

\* The feed asks for no more, or for less.
LEMMA SSetMarkets == ASSUME KInv, SInv, NEW w \in SUBSET world.markets, SetMarkets(w) PROVE SInv'
<1>1. /\ changed' = TRUE
      /\ UNCHANGED <<kalshi, cmds, wire, conn, requested, rejected, place, sync, halves, book, seen, hist>>
    BY DEF SetMarkets
<1>2. Wants'
    BY <1>1 DEF Wants
<1> QED
    BY <1>1, <1>2 DEF SInv, Whole, Refusals, Requests, Readied, Open, kalshi, place, hist

LEMMA SSyncDrop == ASSUME KInv, SInv, SyncDrop PROVE SInv'
<1>1. /\ requested' = requested \ Drops /\ sync'.at = "add"
      /\ book' = [t \in Tickers |-> IF t \in Drops THEN Down ELSE book[t]]
      /\ cmds' = Append(cmds, Delete(Drops)) /\ Drops \subseteq Tickers
      /\ UNCHANGED <<kalshi, wire, conn, wanted, rejected, place, halves, seen, hist>>
    BY DEF SyncDrop, KInv, KTypes, Drops
<1>2. /\ Delete(Drops) \in Commands /\ Delete(Drops).cmd = "delete" /\ Delete(Drops).ts = Drops
      /\ cmds \in Seq(Commands)
    BY <1>1 DEF Delete, Commands, KInv, KTypes
<1>3. Range(cmds') = Range(cmds) \cup {Delete(Drops)}
    BY <1>1, <1>2, RangeIs
<1>4. Requests'
    <2>1. ASSUME NEW t \in Tickers, t \in requested'
          PROVE  /\ Asks(t, cmds) => Asks(t, cmds')
                 /\ Silent(t, cmds) => Silent(t, cmds')
        BY <1>1, <1>2, <2>1, AsksAppend
    <2> QED
        BY <1>1, <2>1 DEF SInv, Requests, Open, kalshi, hist
<1>5. Readied'
    BY <1>1, <1>2, <1>3 DEF SInv, Readied, Open, kalshi, hist
<1>6. Wants'
    BY <1>1 DEF Wants
<1> QED
    BY <1>1, <1>4, <1>5, <1>6 DEF SInv, Whole, Refusals, Open, kalshi, place, hist

\* The feed subscribes to some markets.
LEMMA SSubscribed ==
    ASSUME KInv, SInv, Open, Open', NEW ts \in SUBSET Tickers,
           requested' = requested \cup ts,
           (ts = {} /\ cmds' = cmds) \/ cmds' = Append(cmds, Subscribe(ts)),
           UNCHANGED <<kalshi, wire, rejected, place, book, hist>>
    PROVE  Whole' /\ Refusals' /\ Requests' /\ Readied'
<1>1. /\ Subscribe(ts) \in Commands /\ Subscribe(ts).cmd = "subscribe" /\ Subscribe(ts).ts = ts
      /\ cmds \in Seq(Commands)
    BY DEF Subscribe, Commands, KInv, KTypes
<1>2. Whole' /\ Refusals'
    <2>1. UNCHANGED <<world, seq, wire, rejected, sid, last, gap, lost>>
        BY DEF kalshi, place, hist
    <2>2. Whole'
        BY <2>1 DEF SInv, Whole
    <2>3. Refusals'
        BY <2>1 DEF SInv, Refusals
    <2> QED
        BY <2>2, <2>3
<1>3. Range(cmds') \subseteq Range(cmds) \cup {Subscribe(ts)} /\ Range(cmds) \subseteq Range(cmds')
    <2>1. CASE cmds' = Append(cmds, Subscribe(ts))
        <3>1. \A e \in Commands : Range(Append(cmds, e)) = Range(cmds) \cup {e}
            BY <1>1, RangeIs
        <3> QED
            BY <1>1, <2>1, <3>1
    <2>2. CASE cmds' = cmds
        BY <2>2
    <2> QED
        BY <2>1, <2>2
<1>4. Requests'
    <2>1. ASSUME NEW t \in Tickers
          PROVE  /\ t \in ts => Asks(t, cmds')
                 /\ t \notin ts => /\ Asks(t, cmds) => Asks(t, cmds')
                                   /\ Silent(t, cmds) => Silent(t, cmds')
        <3>1. CASE ts = {} /\ cmds' = cmds
            BY <3>1
        <3>2. CASE cmds' = Append(cmds, Subscribe(ts))
            BY <1>1, <3>2, AsksAppend
        <3> QED
            BY <3>1, <3>2
    <2> QED
        BY <2>1 DEF SInv, Requests, kalshi, hist
<1>5. Readied'
    BY <1>1, <1>3 DEF SInv, Readied, kalshi, hist
<1> QED
    BY <1>2, <1>4, <1>5

LEMMA SSubscribeTo ==
    ASSUME KInv, SInv, Open, NEW todo \in SUBSET Tickers, SubscribeTo(todo),
           \A t \in Tickers : t \in wanted =>
               changed' \/ t \in todo \/ t \in requested \cup rejected \/ \E ts \in halves : t \in ts
    PROVE  SInv'
<1>1. UNCHANGED <<kalshi, wire, wanted, rejected, place, halves, book, seen, hist>>
    BY DEF SubscribeTo
<1>2. PICK ts \in SUBSET todo :
          /\ requested' = requested \cup ts
          /\ cmds' = IF ts = {} THEN cmds ELSE Append(cmds, Subscribe(ts))
          /\ sync' = IF ts = todo THEN Idle ELSE [at |-> "more", todo |-> todo \ ts]
          /\ conn' = IF ts = todo THEN "up" ELSE conn
    BY DEF SubscribeTo
<1>3. Open'
    BY <1>2 DEF Open
<1>4. Whole' /\ Refusals' /\ Requests' /\ Readied'
    BY <1>1, <1>2, <1>3, SSubscribed
<1>5. Wants'
    BY <1>1, <1>2 DEF Wants
<1> QED
    BY <1>4, <1>5 DEF SInv

LEMMA SSyncAdd == ASSUME KInv, SInv, SyncAdd PROVE SInv'
<1>1. Open /\ Adds \subseteq Tickers
    BY DEF KInv, SyncAdd, Begins, ToSync, NoConnection, Idle, KTypes, Adds, Open
<1>2. \A t \in Tickers : t \in wanted => t \in Adds \/ t \in requested \cup rejected
    BY DEF Adds
<1> QED
    BY <1>1, <1>2, SSubscribeTo DEF SyncAdd

LEMMA SSyncMore == ASSUME KInv, SInv, SyncMore PROVE SInv'
<1>1. Open /\ sync.todo \subseteq Tickers
    BY DEF KInv, SyncMore, NoConnection, Idle, KTypes, Open
<1>2. \A t \in Tickers : t \in wanted =>
          changed' \/ t \in sync.todo \/ t \in requested \cup rejected \/ \E ts \in halves : t \in ts
    BY <1>1 DEF SyncMore, SInv, Wants
<1> QED
    BY <1>1, <1>2, SSubscribeTo DEF SyncMore

LEMMA SSubscribeHalf == ASSUME KInv, SInv, NEW ts \in halves, SubscribeHalf(ts) PROVE SInv'
<1>1. /\ requested' = requested \cup ts /\ halves' = halves \ {ts}
      /\ UNCHANGED <<kalshi, wire, conn, wanted, changed, rejected, place, sync, book, seen, hist>>
    BY DEF SubscribeHalf
<1>2. Open /\ Open' /\ ts \subseteq Tickers
    BY DEF SubscribeHalf, Open, KInv, KTypes
<1>3. cmds' = Append(cmds, Subscribe(ts))
    BY DEF SubscribeHalf
<1>4. Whole' /\ Refusals' /\ Requests' /\ Readied'
    BY <1>1, <1>2, <1>3, SSubscribed
<1>5. Wants'
    BY <1>1, <1>2 DEF SInv, Wants
<1> QED
    BY <1>4, <1>5 DEF SInv

\* A message is handled: in order, unless one was lost.
LEMMA SReceived ==
    ASSUME KInv, SInv, NEW m, Receive(m), UNCHANGED <<seq, conn, lost>>, sid => sid',
           m.kind \in {"snapshot", "delta"} => sid'
    PROVE  /\ m \in Messages /\ m \in Range(wire)
           /\ Range(wire') \subseteq Range(wire) /\ \A n \in Range(wire) : n = m \/ n \in Range(wire')
           /\ Open /\ Open' /\ (last' # 0 => sid')
           /\ ~lost => Follows(m) /\ (last' = 0 \/ NoHole(wire', seq, last'))
<1>1. /\ wire \in Seq(Messages) /\ wire # <<>> /\ m = Head(wire) /\ wire' = Tail(wire)
      /\ seq \in Nat /\ last \in Nat /\ conn = "up" /\ Open /\ InSequence(wire, seq, last)
    BY DEF Receive, KInv, KTypes, Numbers, Open
<1>2. m \in Messages /\ m.seq \in Nat
    BY <1>1, TailIs, MessageIs
<1>3. /\ m \in Range(wire) /\ Range(wire') \subseteq Range(wire)
      /\ \A n \in Range(wire) : n = m \/ n \in Range(wire')
    BY <1>1, RangeIs
<1>4. Open' /\ (last' # 0 => sid')
    BY <1>1 DEF Open, Receive, Numbered, SInv, Whole
<1>5. ASSUME ~lost PROVE Follows(m) /\ (last' = 0 \/ NoHole(wire', seq, last'))
    <2>1. last = 0 \/ NoHole(wire, seq, last)
        BY <1>1, <1>5 DEF SInv, Whole
    <2>2. CASE Numbered(m)
        <3>1. m.seq # 0 /\ last' = m.seq
            BY <2>2 DEF Numbered, Receive
        <3>2. NoHole(wire', seq, last')
            BY <1>1, <3>1, SequenceTaken
        <3>3. last = 0 \/ m.seq = last + 1
            <4> SUFFICES ASSUME last # 0 PROVE m.seq = last + 1
                OBVIOUS
            <4>1. \A i \in 1..Len(wire) : wire[i] \in Messages /\ wire[i].seq \in Nat
                BY <1>1, MessageIs
            <4>2. m = wire[1] /\ 1 \in 1..Len(wire)
                BY <1>1, TailIs
            <4>3. m.seq > last /\ m.seq <= seq
                BY <1>1, <3>1, <4>2 DEF InSequence
            <4>4. PICK i \in 1..Len(wire) : wire[i].seq = last + 1
                BY <1>1, <1>2, <2>1, <4>3 DEF NoHole
            <4>5. CASE i = 1
                BY <4>2, <4>4, <4>5
            <4>6. CASE i # 1
                <5>1. 1 < i /\ wire[i].seq # 0
                    BY <1>1, <4>4, <4>6
                <5>2. m.seq < wire[i].seq
                    BY <1>1, <3>1, <4>2, <5>1 DEF InSequence
                <5> QED
                    BY <1>1, <1>2, <4>3, <4>4, <5>2
            <4> QED
                BY <4>5, <4>6
        <3> QED
            BY <3>2, <3>3 DEF Follows
    <2>3. CASE ~Numbered(m)
        <3>1. last' = last /\ Follows(m)
            BY <2>3 DEF Receive, Follows
        <3>2. CASE last = 0
            BY <3>1, <3>2
        <3>3. CASE last # 0
            <4>1. sid
                BY <1>1, <3>3 DEF SInv, Whole
            <4>2. m.seq = 0
                BY <2>3, <4>1 DEF Numbered
            <4>3. CASE last = seq
                BY <3>1, <4>3 DEF NoHole
            <4>4. CASE last # seq
                <5>1. PICK i \in 1..Len(wire) : wire[i].seq = last + 1
                    BY <2>1, <3>3, <4>4 DEF NoHole
                <5>2. i # 1
                    BY <1>1, <4>2, <5>1, TailIs
                <5>3. i - 1 \in 1..Len(wire') /\ wire'[i - 1] = wire[i]
                    BY <1>1, <5>2, TailIs
                <5> QED
                    BY <3>1, <5>1, <5>3 DEF NoHole
            <4> QED
                BY <4>3, <4>4
        <3> QED
            BY <3>2, <3>3
    <2> QED
        BY <2>2, <2>3
<1> QED
    BY <1>1, <1>2, <1>3, <1>4, <1>5

LEMMA SHandleGap == ASSUME KInv, SInv, NEW m, HandleGap(m) PROVE SInv'
<1>1. /\ Receive(m) /\ (gap \/ ~Follows(m)) /\ (sid => sid')
      /\ m.kind \in {"snapshot", "delta"} => sid'
      /\ UNCHANGED <<kalshi, cmds, conn, subs, sync, halves, seen, hist>>
    BY DEF HandleGap
<1>2. /\ Range(wire') \subseteq Range(wire) /\ Open /\ Open' /\ (last' # 0 => sid')
      /\ ~lost => Follows(m)
    BY <1>1, SReceived DEF kalshi, hist
<1>3. lost /\ lost'
    BY <1>1, <1>2 DEF SInv, Whole, hist
<1>4. Whole' /\ Requests' /\ Readied'
    BY <1>2, <1>3 DEF Whole, Requests, Readied
<1>5. Refusals' /\ Wants'
    BY <1>1, <1>2 DEF SInv, Refusals, Wants, subs, kalshi
<1> QED
    BY <1>4, <1>5 DEF SInv

\* What every message in order does.
LEMMA SInOrder ==
    ASSUME KInv, SInv, NEW m, InOrder(m), UNCHANGED <<kalshi, cmds, conn, gap, lost>>,
           sid => sid', m.kind \in {"snapshot", "delta"} => sid'
    PROVE  /\ m \in Messages /\ m \in Range(wire) /\ Open /\ Open'
           /\ Range(wire') \subseteq Range(wire) /\ \A n \in Range(wire) : n = m \/ n \in Range(wire')
           /\ Whole'
<1>1. Receive(m) /\ ~gap
    BY DEF InOrder
<1>2. /\ m \in Messages /\ m \in Range(wire) /\ Open /\ Open'
      /\ Range(wire') \subseteq Range(wire) /\ \A n \in Range(wire) : n = m \/ n \in Range(wire')
      /\ last' # 0 => sid'
      /\ ~lost => (last' = 0 \/ NoHole(wire', seq, last'))
    BY <1>1, SReceived DEF kalshi
<1> QED
    BY <1>1, <1>2 DEF Whole, kalshi

LEMMA SHandleDelta == ASSUME KInv, SInv, NEW m, HandleDelta(m) PROVE SInv'
<1>1. /\ InOrder(m) /\ m.kind = "delta" /\ sid'
      /\ UNCHANGED <<kalshi, cmds, conn, subs, gap, sync, halves, hist>>
    BY DEF HandleDelta
<1>2. /\ Range(wire') \subseteq Range(wire) /\ \A n \in Range(wire) : n = m \/ n \in Range(wire')
      /\ Open /\ Whole'
    BY <1>1, SInOrder DEF hist
<1>3. \A t \in Tickers : book[t].ready => book'[t].ready
    <2>1. CASE book[m.t].ready
        <3>1. book' = [book EXCEPT ![m.t].has = Append(@, m.n)]
            BY <2>1 DEF HandleDelta
        <3>2. book \in [Tickers -> [ready : BOOLEAN, has : Seq(Nat)]]
            BY DEF KInv, KTypes
        <3>3. ASSUME NEW t \in Tickers, t = m.t PROVE book'[t].ready = book[t].ready
            <4>1. book[t] \in [ready : BOOLEAN, has : Seq(Nat)]
                BY <3>2
            <4>2. book'[t] = [book[t] EXCEPT !.has = Append(book[t].has, m.n)]
                BY <3>1, <3>2, <3>3
            <4> QED
                BY <4>1, <4>2
        <3>4. ASSUME NEW t \in Tickers, t # m.t PROVE book'[t] = book[t]
            BY <3>1, <3>2, <3>4
        <3> QED
            BY <3>3, <3>4
    <2>2. CASE ~book[m.t].ready
        BY <2>2 DEF HandleDelta
    <2> QED
        BY <2>1, <2>2
<1>4. Refusals' /\ Wants'
    BY <1>1, <1>2 DEF SInv, Refusals, Wants, Open, subs, kalshi
<1>5. Requests'
    BY <1>1, <1>2 DEF SInv, Requests, Open, subs, kalshi, hist
<1>6. Readied'
    BY <1>1, <1>2, <1>3 DEF SInv, Readied, Open, kalshi, hist
<1> QED
    BY <1>2, <1>4, <1>5, <1>6 DEF SInv

LEMMA SHandleSnapshot == ASSUME KInv, SInv, NEW m, HandleSnapshot(m) PROVE SInv'
<1>1. /\ InOrder(m) /\ m.kind = "snapshot" /\ sid'
      /\ UNCHANGED <<kalshi, cmds, conn, subs, gap, sync, halves, lost>>
    BY DEF HandleSnapshot
<1>2. /\ m \in Messages /\ Open /\ Whole'
      /\ Range(wire') \subseteq Range(wire) /\ \A n \in Range(wire) : n = m \/ n \in Range(wire')
    BY <1>1, SInOrder
<1>3. m.t \in Tickers /\ m.n \in Nat
    BY <1>1, <1>2, MessageIs
<1>4. Refusals' /\ Wants'
    BY <1>1, <1>2 DEF SInv, Refusals, Wants, Open, subs, kalshi
<1>5. Requests'
    BY <1>1, <1>2 DEF SInv, Requests, Open, subs, kalshi
<1>6. /\ \A t \in Tickers : t # m.t => book'[t] = book[t] /\ (t \in ignored' <=> t \in ignored)
      /\ book'[m.t].ready \/ m.t \in ignored'
    <2>1. CASE m.t \in wanted
        <3>1. /\ book' = [book EXCEPT ![m.t] = Promise!Up(m.n)] /\ ignored' = ignored \ {m.t}
            BY <2>1 DEF HandleSnapshot
        <3> QED
            BY <1>3, <3>1, BookIs DEF KInv, KTypes
    <2>2. CASE m.t \notin wanted
        BY <2>2 DEF HandleSnapshot
    <2> QED
        BY <2>1, <2>2
<1>7. Readied'
    <2> SUFFICES ASSUME NEW t \in Tickers, Open', ~lost', t \in served' \ ignored',
                        \A n \in Range(wire') : ~(n.kind = "snapshot" /\ n.t = t),
                        \A c \in Range(cmds') : ~(c.cmd = "delete" /\ t \in c.ts)
                 PROVE  book'[t].ready
        BY DEF Readied
    <2>1. CASE t = m.t
        BY <1>6, <2>1
    <2>2. CASE t # m.t
        BY <1>1, <1>2, <1>6, <2>2 DEF SInv, Readied, Open, kalshi
    <2> QED
        BY <2>1, <2>2
<1> QED
    BY <1>2, <1>4, <1>5, <1>7 DEF SInv

LEMMA SHandleAck == ASSUME KInv, SInv, NEW m, HandleAck(m) PROVE SInv'
<1>1. /\ InOrder(m) /\ m.kind \in {"subscribed", "ok"} /\ (sid => sid')
      /\ UNCHANGED <<kalshi, cmds, conn, subs, gap, sync, halves, book, seen, hist>>
    BY DEF HandleAck
<1>2. /\ Range(wire') \subseteq Range(wire) /\ \A n \in Range(wire) : n = m \/ n \in Range(wire')
      /\ Open /\ Whole'
    BY <1>1, SInOrder DEF hist
<1>3. Refusals' /\ Wants'
    BY <1>1, <1>2 DEF SInv, Refusals, Wants, Open, subs, kalshi
<1>4. Requests'
    BY <1>1, <1>2 DEF SInv, Requests, Open, subs, kalshi, hist
<1>5. Readied'
    BY <1>1, <1>2 DEF SInv, Readied, Open, kalshi, hist
<1> QED
    BY <1>2, <1>3, <1>4, <1>5 DEF SInv

\* The markets of a refused batch are asked for again, or the one there is was unknown.
LEMMA SHandleError == ASSUME KInv, SInv, NEW m, HandleError(m) PROVE SInv'
<1>1. /\ InOrder(m) /\ m.kind = "error" /\ requested' = requested \ m.ts /\ sid' = sid
      /\ UNCHANGED <<kalshi, cmds, conn, wanted, changed, gap, sync, book, seen, hist>>
    BY DEF HandleError
<1>2. /\ m \in Messages /\ m \in Range(wire) /\ Open /\ Whole'
      /\ Range(wire') \subseteq Range(wire) /\ \A n \in Range(wire) : n = m \/ n \in Range(wire')
    BY <1>1, SInOrder DEF hist
<1>3. m.ts \subseteq Tickers /\ m.ts \cap world.refused # {}
    BY <1>1, <1>2, MessageIs DEF SInv, Refusals
<1>4. ASSUME Cardinality(m.ts) = 1
      PROVE  rejected' = rejected \cup m.ts /\ halves' = halves /\ m.ts \subseteq world.refused
    <2>1. IsFiniteSet(m.ts)
        BY <1>3, FS_Subset, TickersAssumption
    <2>2. PICK x : m.ts = {x}
        BY <1>4, <2>1, FS_Singleton
    <2> QED
        BY <1>3, <1>4, <2>2 DEF HandleError
<1>5. ASSUME Cardinality(m.ts) # 1
      PROVE  rejected' = rejected /\ \E a \in SUBSET m.ts : halves' = halves \cup {a, m.ts \ a}
    BY <1>5 DEF HandleError
<1>6. /\ rejected' \subseteq world.refused /\ rejected \subseteq rejected' /\ halves \subseteq halves'
      /\ \A t \in m.ts : t \in rejected' \/ \E ts \in halves' : t \in ts
    <2>1. rejected \subseteq world.refused
        BY DEF SInv, Refusals
    <2>2. CASE Cardinality(m.ts) = 1
        BY <1>4, <2>1, <2>2
    <2>3. CASE Cardinality(m.ts) # 1
        <3>1. PICK a \in SUBSET m.ts : halves' = halves \cup {a, m.ts \ a}
            BY <1>5, <2>3
        <3>2. \A t \in m.ts : t \in a \/ t \in m.ts \ a
            OBVIOUS
        <3> QED
            BY <1>5, <2>1, <2>3, <3>1, <3>2
    <2> QED
        BY <2>2, <2>3
<1>7. Refusals'
    BY <1>1, <1>2, <1>6 DEF SInv, Refusals, kalshi
<1>8. Wants'
    BY <1>1, <1>2, <1>6 DEF SInv, Wants, Open
<1>9. Requests'
    BY <1>1, <1>2 DEF SInv, Requests, Open, kalshi, hist
<1>10. Readied'
    BY <1>1, <1>2 DEF SInv, Readied, Open, kalshi, hist
<1> QED
    BY <1>2, <1>7, <1>8, <1>9, <1>10 DEF SInv

-----------------------------------------------------------------------------

LEMMA SStep == KInv /\ SInv /\ [Next]_vars => SInv'
<1> SUFFICES ASSUME KInv, SInv, [Next]_vars PROVE SInv'
    OBVIOUS
<1>1. ASSUME NEW t \in world.markets, Change(t) \/ SendSnapshot(t) PROVE SInv'
    BY <1>1, SChange, SSendSnapshot
<1>2. CASE Refuse \/ Accept \/ Stop \/ Lose
    BY <1>2, SRefuse, SAccept, SStop, SLose
<1>3. CASE Connect \/ Disconnect
    BY <1>3, SConnect, SDisconnect
<1>4. ASSUME NEW w \in SUBSET world.markets, SetMarkets(w) PROVE SInv'
    BY <1>4, SSetMarkets
<1>5. CASE SyncDrop \/ SyncAdd \/ SyncMore
    BY <1>5, SSyncDrop, SSyncAdd, SSyncMore
<1>6. ASSUME NEW ts \in halves, SubscribeHalf(ts) PROVE SInv'
    BY <1>6, SSubscribeHalf
<1>7. CASE Handle
    BY <1>7, SHandleGap, SHandleDelta, SHandleSnapshot, SHandleAck, SHandleError DEF Handle
<1>8. CASE UNCHANGED vars
    BY <1>8 DEF SInv, Whole, Refusals, Requests, Wants, Readied, Open, vars, kalshi, subs, place, hist
<1> QED
    BY <1>1, <1>2, <1>3, <1>4, <1>5, <1>6, <1>7, <1>8 DEF Next

LEMMA SServed == KInv /\ SInv => InLineUnlessIgnored
<1> SUFFICES ASSUME KInv, SInv, Quiet, NEW t \in wanted, t \notin world.refused, t \notin ignored
             PROVE  Served(t)
    BY DEF InLineUnlessIgnored
<1>1. /\ conn = "up" /\ Open /\ ~gap /\ cmds = <<>> /\ wire = <<>> /\ owed = {} /\ sync.at = "idle"
      /\ ~changed /\ halves = {} /\ ~lost /\ t \in Tickers
    BY DEF Quiet, Open, KInv, KTypes
<1>2. Range(wire) = {} /\ Range(cmds) = {} /\ ~Asks(t, cmds)
    BY <1>1, NoRange DEF Asks
<1>3. t \in requested
    <2>1. t \notin rejected
        BY DEF SInv, Refusals
    <2> QED
        BY <1>1, <2>1 DEF SInv, Wants
<1>4. t \in served
    BY <1>1, <1>2, <1>3 DEF SInv, Requests
<1>5. book[t].ready
    BY <1>1, <1>2, <1>4 DEF SInv, Readied
<1>6. /\ last # 0 /\ book[t] = Promise!Up(seen[t])
      /\ NoHole(wire, seq, last) => Continues(t, wire, seen[t], changes[t], served)
    BY <1>1, <1>5 DEF KInv, Held
<1>7. NoHole(wire, seq, last)
    BY <1>1, <1>6 DEF SInv, Whole
<1>8. \A i \in 1..Len(wire) : ~About(wire[i], t)
    BY <1>1
<1>9. seen[t] = changes[t]
    BY <1>4, <1>6, <1>7, <1>8 DEF Continues
<1> QED
    BY <1>6, <1>9 DEF Served

\* Once all is quiet, every market that is wanted and that Kalshi serves has its book, and
\* it is the exchange's, for any markets and any size of a batch, however commands,
\* answers, refusals and the changes of what is wanted interleave; unless its last
\* snapshot came while it was unwanted.
THEOREM InLine == Spec => []InLineUnlessIgnored
<1>1. Spec => []SInv
    BY SInit, SStep, KInvariance, PTL DEF Spec
<1> QED
    BY <1>1, SServed, KInvariance, PTL
-----------------------------------------------------------------------------
(* The types *)

\* The rest of the invariant: no change is the zeroth, no book has more changes than there
\* are, and a book that is up is made of changes.
NoZeroth == \A i \in 1..Len(wire) : wire[i].kind = "delta" => wire[i].n >= 1
Bounded == \A t \in Tickers : changes[t] <= MaxChanges
Made == \A t \in Tickers : book[t] = Down \/ (book[t].ready /\ book[t].has \in Seq(1..MaxChanges))
Flags ==
    /\ merged \in BOOLEAN /\ changed \in BOOLEAN /\ sid \in BOOLEAN /\ gap \in BOOLEAN /\ lost \in BOOLEAN
    /\ conn \in {"down", "opening", "up"} /\ rejected \subseteq Tickers /\ ignored \subseteq Tickers

RInv == NoZeroth /\ Bounded /\ Made /\ Flags

LEMMA RTypes ==
    ASSUME KInv, RInv
    PROVE  TypeOK
<1>1. KTypes /\ NoConnection /\ Numbers /\ Counts /\ RInv /\ MaxChanges \in Nat
    BY BoundsAssumption DEF KInv
<1>2. changes \in [Tickers -> 0..MaxChanges] /\ seen \in [Tickers -> 0..MaxChanges]
    <2>1. \A t \in Tickers : /\ changes[t] \in Nat /\ changes[t] <= MaxChanges
                             /\ seen[t] \in Nat /\ seen[t] <= changes[t]
        BY <1>1 DEF KTypes, RInv, Bounded, Counts, Tells
    <2>2. \A t \in Tickers : changes[t] \in 0..MaxChanges /\ seen[t] \in 0..MaxChanges
        BY <1>1, <2>1
    <2> QED
        BY <1>1, <2>2 DEF KTypes
<1>3. \A i \in DOMAIN cmds : cmds[i].cmd \in {"subscribe", "delete"} /\ cmds[i].ts \subseteq Tickers
    <2>1. \A i \in DOMAIN cmds : cmds[i] \in Commands
        BY <1>1 DEF KTypes
    <2> QED
        BY <2>1 DEF Commands
<1>4. \A i \in DOMAIN wire : /\ wire[i].kind \in {"snapshot", "delta", "subscribed", "ok", "error"}
                             /\ wire[i].seq \in 0..seq
    <2>1. SUFFICES ASSUME NEW i \in DOMAIN wire
                   PROVE  /\ wire[i].kind \in {"snapshot", "delta", "subscribed", "ok", "error"}
                          /\ wire[i].seq \in 0..seq
        OBVIOUS
    <2>2. wire[i] \in Messages /\ i \in 1..Len(wire) /\ wire # <<>> /\ seq \in Nat
        BY <1>1 DEF KTypes
    <2>3. wire[i].kind \in {"snapshot", "delta", "subscribed", "ok", "error"} /\ wire[i].seq \in Nat
        BY <2>2 DEF Messages, Booked, Answers, Errors
    <2>4. wire[i].seq <= seq
        BY <1>1, <2>2 DEF NoConnection, Numbers, InSequence
    <2> QED
        BY <2>2, <2>3, <2>4
<1>5. conn = "up" => last <= seq
    BY <1>1 DEF Numbers, InSequence
<1>6. sync.at \in {"idle", "start", "add", "more"} /\ sync.todo \subseteq Tickers
    BY <1>1 DEF KTypes
<1>7. /\ served \subseteq Tickers /\ owed \subseteq Tickers /\ seq \in Nat /\ last \in Nat
      /\ wanted \subseteq Tickers /\ requested \subseteq Tickers /\ halves \subseteq SUBSET Tickers
      /\ world \in Worlds
    BY <1>1 DEF KTypes
<1>8. Flags /\ \A t \in Tickers : book[t] = Down \/ (book[t].ready /\ book[t].has \in Seq(1..MaxChanges))
    BY <1>1 DEF RInv, Made
<1> QED
    BY <1>2, <1>3, <1>4, <1>5, <1>6, <1>7, <1>8 DEF TypeOK, Flags

\* What joins the wire is no zeroth change.
LEMMA NoZerothJoins ==
    ASSUME KTypes, NoZeroth,
           \/ wire' = wire \/ wire' = <<>> \/ (wire # <<>> /\ wire' = Tail(wire))
           \/ \E m \in Messages : wire' = Append(wire, m) /\ (m.kind = "delta" => m.n >= 1)
    PROVE  NoZeroth'
<1>1. wire \in Seq(Messages)
    BY DEF KTypes
<1>2. CASE wire' = wire \/ wire' = <<>>
    BY <1>2 DEF NoZeroth
<1>3. CASE wire # <<>> /\ wire' = Tail(wire)
    BY <1>1, <1>3, TailIs DEF NoZeroth
<1>4. ASSUME NEW m \in Messages, wire' = Append(wire, m), m.kind = "delta" => m.n >= 1 PROVE NoZeroth'
    <2>1. /\ Len(wire) \in Nat /\ Len(wire') = Len(wire) + 1 /\ wire'[Len(wire) + 1] = m
          /\ \A i \in 1..Len(wire) : wire'[i] = wire[i]
        BY <1>1, <1>4, AppendIs
    <2> QED
        BY <1>4, <2>1 DEF NoZeroth
<1> QED
    BY <1>2, <1>3, <1>4

LEMMA RExchange ==
    ASSUME KInv, RInv, \/ \E t \in world.markets : Change(t) \/ SendSnapshot(t)
                       \/ Refuse \/ Accept \/ Stop \/ Lose
    PROVE  RInv'
<1>1. KTypes /\ RInv /\ seq \in Nat /\ world.markets \subseteq Tickers /\ MaxChanges \in Nat
      /\ (cmds # <<>> => Head(cmds).ts \subseteq Tickers)
    <2>1. KTypes /\ RInv
        BY DEF KInv
    <2>2. cmds \in Seq(Commands) /\ world \in Worlds /\ seq \in Nat
        BY <2>1 DEF KTypes
    <2>3. cmds # <<>> => Head(cmds) \in Commands
        BY <2>2
    <2> QED
        BY <2>1, <2>2, <2>3, WorldsAssumption, BoundsAssumption DEF Commands
<1>2. \A t \in Tickers : changes[t] \in Nat /\ changes[t] <= MaxChanges
    BY <1>1 DEF KTypes, RInv, Bounded
\* What doesn't change the books.
<1>3. ASSUME NoZeroth', Bounded', merged' \in BOOLEAN, lost' \in BOOLEAN,
             UNCHANGED <<changed, sid, gap, conn, rejected, ignored, book>>
      PROVE  RInv'
    BY <1>1, <1>3 DEF RInv, Made, Flags
<1>4. ASSUME NEW t \in world.markets, Change(t) PROVE RInv'
    <2>1. t \in Tickers /\ changes \in [Tickers -> Nat] /\ SumFunction(changes) < MaxChanges
          /\ changes' = [changes EXCEPT ![t] = @ + 1]
        BY <1>1, <1>4 DEF Change, KTypes
    <2>2. SumFunctionOnSet(changes, Tickers) \in Nat /\ changes[t] <= SumFunctionOnSet(changes, Tickers)
        BY <2>1, SumNat, TickersAssumption
    <2>3. DOMAIN changes = Tickers /\ SumFunction(changes) = SumFunctionOnSet(changes, Tickers)
        BY <2>1 DEF SumFunction
    <2>4. changes[t] + 1 <= MaxChanges /\ changes'[t] = changes[t] + 1 /\ changes'[t] \in Nat
        BY <1>1, <1>2, <2>1, <2>2, <2>3
    <2>5. Bounded'
        BY <1>2, <2>1, <2>4 DEF Bounded
    <2>6. NoZeroth'
        <3>1. CASE t \in served
            <4>1. wire' = Append(wire, Delta(t, changes'[t], seq + 1))
                BY <1>4, <3>1 DEF Change
            <4>2. Delta(t, changes'[t], seq + 1) \in Messages /\ Delta(t, changes'[t], seq + 1).n >= 1
                BY <1>1, <1>2, <2>1, <2>4 DEF Delta, Messages, Booked
            <4> QED
                BY <1>1, <4>1, <4>2, NoZerothJoins DEF RInv
        <3>2. CASE t \notin served
            BY <1>1, <1>4, <3>2, NoZerothJoins DEF Change, RInv
        <3> QED
            BY <3>1, <3>2
    <2> QED
        BY <1>1, <1>3, <1>4, <2>5, <2>6 DEF Change, subs, place, hist, RInv, Flags
<1>5. ASSUME NEW t \in world.markets, SendSnapshot(t) PROVE RInv'
    <2>1. wire' = Append(wire, Snapshot(t, changes[t], seq + 1)) /\ t \in Tickers
        BY <1>1, <1>5 DEF SendSnapshot
    <2>2. Snapshot(t, changes[t], seq + 1) \in Messages /\ Snapshot(t, changes[t], seq + 1).kind # "delta"
        BY <1>1, <1>2, <2>1 DEF Snapshot, Messages, Booked
    <2>3. NoZeroth' /\ Bounded'
        BY <1>1, <1>5, <2>1, <2>2, NoZerothJoins DEF RInv, SendSnapshot, Bounded
    <2> QED
        BY <1>1, <1>3, <1>5, <2>3 DEF SendSnapshot, subs, place, hist, RInv, Flags
<1>6. CASE Refuse \/ Accept \/ Stop
    <2>1. \E m \in Messages : wire' = Append(wire, m) /\ m.kind # "delta"
        <3>1. CASE Refuse
            <4>1. Error(Head(cmds).ts) \in Messages /\ Error(Head(cmds).ts).kind # "delta"
                BY <1>1, <3>1 DEF Refuse, Error, Messages, Errors
            <4> QED
                BY <3>1, <4>1 DEF Refuse
        <3>2. CASE Accept \/ Stop
            <4>1. Ok(seq + 1) \in Messages /\ Ok(seq + 1).kind # "delta"
                BY <1>1 DEF Ok, Messages, Answers
            <4>2. Subscribed \in Messages /\ Subscribed.kind # "delta"
                BY DEF Subscribed, Messages, Answers
            <4> QED
                BY <3>2, <4>1, <4>2 DEF Accept, Stop
        <3> QED
            BY <1>6, <3>1, <3>2
    <2>2. NoZeroth'
        BY <1>1, <2>1, NoZerothJoins DEF RInv
    <2>3. changes' = changes /\ merged' \in BOOLEAN /\ UNCHANGED <<changed, sid, gap, conn, rejected, ignored, book, lost>>
        BY <1>1, <1>6 DEF Refuse, Accept, Stop, kalshi, subs, place, hist, RInv, Flags
    <2> QED
        BY <1>1, <1>3, <2>2, <2>3 DEF RInv, Bounded, Flags
<1>7. CASE Lose
    <2>1. NoZeroth' /\ Bounded'
        BY <1>1, <1>7, NoZerothJoins DEF RInv, Lose, kalshi, Bounded
    <2> QED
        BY <1>1, <1>3, <1>7, <2>1 DEF Lose, kalshi, subs, place, RInv, Flags
<1> QED
    BY <1>4, <1>5, <1>6, <1>7

LEMMA RConnection ==
    ASSUME KInv, RInv, \/ Connect \/ Disconnect \/ SyncDrop \/ SyncAdd \/ SyncMore
                       \/ \E w \in SUBSET world.markets : SetMarkets(w)
                       \/ \E ts \in halves : SubscribeHalf(ts)
                       \/ UNCHANGED vars
    PROVE  RInv'
<1>1. KTypes /\ RInv
    BY DEF KInv
<1>2. NoZeroth'
    BY <1>1, NoZerothJoins DEF RInv, Connect, Disconnect, SyncDrop, SyncAdd, SyncMore, SubscribeTo, SetMarkets,
       SubscribeHalf, vars
<1>3. Bounded'
    BY <1>1 DEF RInv, Bounded, Connect, Disconnect, SyncDrop, SyncAdd, SyncMore, SubscribeTo, SetMarkets,
       SubscribeHalf, vars, kalshi
<1>4. Made'
    <2>1. \A t \in Tickers : book'[t] = book[t] \/ book'[t] = Down
        BY DEF Connect, Disconnect, SyncDrop, SyncAdd, SyncMore, SubscribeTo, SetMarkets, SubscribeHalf, vars, AllDown
    <2> QED
        BY <1>1, <2>1 DEF RInv, Made
<1>5. Flags'
    <2>1. CASE Connect
        BY <1>1, <2>1 DEF RInv, Flags, Connect, kalshi
    <2>2. CASE Disconnect
        BY <1>1, <2>2 DEF RInv, Flags, Disconnect, subs, place, hist
    <2>3. CASE SyncDrop \/ SyncAdd \/ SyncMore
        <3>1. changed' \in BOOLEAN /\ conn' \in {conn, "up"} /\ UNCHANGED <<merged, sid, gap, lost, rejected, ignored>>
            BY <1>1, <2>3 DEF RInv, Flags, SyncDrop, SyncAdd, SyncMore, SubscribeTo, StillChanged, kalshi, place, hist
        <3> QED
            BY <1>1, <3>1 DEF RInv, Flags
    <2>4. CASE \E w \in SUBSET world.markets : SetMarkets(w)
        BY <1>1, <2>4 DEF RInv, Flags, SetMarkets, kalshi, place, hist
    <2>5. CASE \E ts \in halves : SubscribeHalf(ts)
        BY <1>1, <2>5 DEF RInv, Flags, SubscribeHalf, kalshi, place, hist
    <2>6. CASE UNCHANGED vars
        BY <1>1, <2>6 DEF RInv, Flags, vars, kalshi, subs, place, hist
    <2> QED
        BY <2>1, <2>2, <2>3, <2>4, <2>5, <2>6
<1> QED
    BY <1>2, <1>3, <1>4, <1>5 DEF RInv

LEMMA RHandle ==
    ASSUME KInv, RInv, Handle
    PROVE  RInv'
<1>1. PICK m \in {wire[i] : i \in DOMAIN wire} :
          HandleGap(m) \/ HandleDelta(m) \/ HandleSnapshot(m) \/ HandleAck(m) \/ HandleError(m)
    BY DEF Handle
<1>2. /\ KTypes /\ Counts /\ RInv /\ wire \in Seq(Messages) /\ MaxChanges \in Nat
      /\ wire # <<>> /\ m = Head(wire) /\ wire' = Tail(wire)
    BY <1>1, BoundsAssumption DEF KInv, KTypes, HandleGap, HandleDelta, HandleSnapshot, HandleAck, HandleError,
       InOrder, Receive
<1>3. m \in Messages /\ m = wire[1] /\ 1 \in 1..Len(wire)
    BY <1>2, TailIs
<1>4. NoZeroth' /\ Bounded'
    <2>1. changes' = changes
        BY <1>1 DEF HandleGap, HandleDelta, HandleSnapshot, HandleAck, HandleError, kalshi
    <2> QED
        BY <1>2, <2>1, NoZerothJoins DEF RInv, Bounded
<1>5. m.kind \in {"snapshot", "delta"} =>
          m.t \in Tickers /\ m.n \in Nat /\ m.n <= MaxChanges /\ (m.kind = "delta" => m.n \in 1..MaxChanges)
    <2>1. SUFFICES ASSUME m.kind \in {"snapshot", "delta"}
                   PROVE  m.t \in Tickers /\ m.n \in Nat /\ m.n <= MaxChanges /\ (m.kind = "delta" => m.n >= 1)
        BY <1>2
    <2>2. m.t \in Tickers /\ m.n \in Nat
        BY <1>3, <2>1, MessageIs
    <2>3. About(wire[1], m.t)
        BY <1>3, <2>1 DEF About
    <2>4. m.n <= changes[m.t] /\ changes[m.t] <= MaxChanges /\ changes[m.t] \in Nat
        BY <1>2, <1>3, <2>2, <2>3 DEF Counts, Tells, RInv, Bounded, KTypes
    <2>5. m.kind = "delta" => m.n >= 1
        BY <1>2, <1>3 DEF RInv, NoZeroth
    <2> QED
        BY <1>2, <2>2, <2>4, <2>5
<1>6. Made'
    <2>1. CASE HandleGap(m)
        BY <2>1 DEF HandleGap, Made, AllDown
    <2>2. CASE HandleDelta(m)
        <3>1. CASE book[m.t].ready
            <4>1. /\ book' = [book EXCEPT ![m.t].has = Append(@, m.n)] /\ m.t \in Tickers /\ m.n \in 1..MaxChanges
                  /\ book \in [Tickers -> [ready : BOOLEAN, has : Seq(Nat)]]
                BY <1>2, <1>5, <2>2, <3>1 DEF HandleDelta, KTypes
            <4>2. book[m.t].has \in Seq(1..MaxChanges)
                BY <1>2, <3>1, <4>1 DEF RInv, Made, Down
            <4>3. Append(book[m.t].has, m.n) \in Seq(1..MaxChanges)
                BY <4>1, <4>2
            <4>4. /\ book'[m.t].ready = book[m.t].ready /\ book'[m.t].has = Append(book[m.t].has, m.n)
                  /\ \A t \in Tickers \ {m.t} : book'[t] = book[t]
                BY <4>1
            <4> QED
                BY <1>2, <3>1, <4>3, <4>4 DEF RInv, Made
        <3>2. CASE ~book[m.t].ready
            BY <1>2, <2>2, <3>2 DEF HandleDelta, RInv, Made
        <3> QED
            BY <3>1, <3>2
    <2>3. CASE HandleSnapshot(m)
        <3>1. CASE m.t \in wanted
            <4>1. book' = [book EXCEPT ![m.t] = Promise!Up(m.n)] /\ m.t \in Tickers /\ m.n \in Nat /\ m.n <= MaxChanges
                BY <1>5, <2>3, <3>1 DEF HandleSnapshot
            <4>2. [i \in 1..m.n |-> i] \in Seq(1..MaxChanges)
                BY <1>2, <4>1
            <4>3. Promise!Up(m.n).ready = TRUE /\ Promise!Up(m.n).has \in Seq(1..MaxChanges)
                BY <4>2 DEF Promise!Up, Promise!Book
            <4>4. book'[m.t] = Promise!Up(m.n) /\ \A t \in Tickers \ {m.t} : book'[t] = book[t]
                BY <1>2, <4>1 DEF KTypes
            <4> QED
                BY <1>2, <4>3, <4>4 DEF RInv, Made
        <3>2. CASE m.t \notin wanted
            BY <1>2, <2>3, <3>2 DEF HandleSnapshot, RInv, Made
        <3> QED
            BY <3>1, <3>2
    <2>4. CASE HandleAck(m) \/ HandleError(m)
        BY <1>2, <2>4 DEF HandleAck, HandleError, RInv, Made
    <2> QED
        BY <1>1, <2>1, <2>2, <2>3, <2>4
<1>7. Flags'
    <2>1. CASE HandleGap(m)
        BY <1>2, <2>1 DEF HandleGap, RInv, Flags, kalshi, subs, hist
    <2>2. CASE HandleDelta(m)
        BY <1>2, <2>2 DEF HandleDelta, RInv, Flags, kalshi, subs, hist
    <2>3. CASE HandleSnapshot(m)
        BY <1>2, <1>5, <2>3 DEF HandleSnapshot, RInv, Flags, kalshi, subs
    <2>4. CASE HandleAck(m)
        BY <1>2, <2>4 DEF HandleAck, RInv, Flags, kalshi, subs, hist
    <2>5. CASE HandleError(m)
        <3>1. m.ts \subseteq Tickers
            BY <1>3, <2>5, MessageIs DEF HandleError
        <3>2. rejected' \subseteq Tickers
            BY <1>2, <2>5, <3>1 DEF HandleError, RInv, Flags
        <3> QED
            BY <1>2, <2>5, <3>2 DEF HandleError, RInv, Flags, kalshi, hist
    <2> QED
        BY <1>1, <2>1, <2>2, <2>3, <2>4, <2>5
<1> QED
    BY <1>4, <1>6, <1>7 DEF RInv

\* The types of Kalshi's feed go on.
LEMMA TypesStep ==
    ASSUME KInv, RInv, [Next]_vars
    PROVE  KInv' /\ RInv'
<1>1. KInv'
    BY KStep
<1>2. RInv'
    BY RExchange, RConnection, RHandle DEF Next
<1> QED
    BY <1>1, <1>2

LEMMA TypesInit == Init => KInv /\ RInv
<1> SUFFICES ASSUME Init PROVE RInv
    BY KInit
<1>1. NoZeroth
    BY DEF Init, NoZeroth
<1>2. Bounded
    <2>1. \A t \in Tickers : changes[t] = 0
        BY DEF Init
    <2> QED
        BY <2>1, BoundsAssumption DEF Bounded
<1>3. Made
    BY DEF Init, Made, AllDown
<1>4. Flags
    BY DEF Init, Flags
<1> QED
    BY <1>1, <1>2, <1>3, <1>4 DEF RInv



-----------------------------------------------------------------------------
(* Polymarket US: the invariant *)

Grants == [id : Nat, slugs : SUBSET Slugs]
Orders == [cmd : {"subscribe", "unsubscribe"}, req : Grants]
Deliveries == [id : Nat, slug : Slugs, n : Nat]
Syncs == [at : {"idle", "start", "clear", "add"}, todo : SUBSET Slugs] \cup [at : {"drop"}, todo : SUBSET Grants]
Sub(r) == [cmd |-> "subscribe", req |-> r]
Unsub(r) == [cmd |-> "unsubscribe", req |-> r]
Message(i, s, n) == [id |-> i, slug |-> s, n |-> n]

\* The requests commands cs are about.
Of(cs) == {cs[i].req : i \in 1..Len(cs)}

\* What the server serves after k of the commands cs, if it serves sv before.
After(sv, cs, k) ==
    {r \in sv \cup Of(cs) : /\ r \in sv \/ \E i \in 1..k : cs[i] = Sub(r)
                            /\ \A i \in 1..k : cs[i] # Unsub(r)}

Up(ln) == ln \in {"opening", "up"}

\* A connection, under the limits l: its state ln; what it is served, sv; its requests, sb; commands cs and
\* messages w on their way.  Nothing is without a connection; ids are of one request each;
\* one is subscribed to before it is served, and once; the commands lead to sb within limits.
AskedOf(l, ln, sv, sb, cs, w) ==
    /\ ~Up(ln) => sv = {} /\ cs = <<>> /\ w = <<>>
    /\ \A r, q \in sv \cup sb \cup Of(cs) : r.id = q.id => r = q
    /\ \A r \in sv \cup sb \cup Of(cs) : Cardinality(r.slugs) <= l.chunk
    /\ \A i, j \in 1..Len(cs) : i < j /\ cs[j].cmd = "subscribe" => cs[i].req # cs[j].req
    /\ \A i \in 1..Len(cs) : cs[i].cmd = "subscribe" =>
           cs[i].req \notin sv /\ \A j \in 1..Len(w) : w[j].id # cs[i].req.id
    /\ Up(ln) => After(sv, cs, Len(cs)) = sb
    /\ \A k \in 0..Len(cs) : Cardinality(After(sv, cs, k)) <= l.subs

Asked(c) == AskedOf(limit, links[c], streams[c], requests[c], asks[c], told[c])

\* What the messages w tell: of the markets of a request, none newer than the exchange's
\* books ex, and of each market that they tell of, the last one is that.
TellsOf(ex, sv, sb, w) ==
    /\ \A j \in 1..Len(w) : /\ w[j].n <= ex[w[j].slug] /\ w[j].n >= 1
                            /\ \A r \in sv \cup sb : w[j].id = r.id => w[j].slug \in r.slugs
    /\ \A r \in sv, s \in Slugs, j \in 1..Len(w) : w[j].id = r.id /\ w[j].slug = s =>
           \E k \in j..Len(w) : w[k] = Message(r.id, s, ex[s])

Latest(c) == TellsOf(exch, streams[c], requests[c], told[c])

Covers(sb) == UNION {r.slugs : r \in sb}
Chunks(l, n) == (n + l.chunk - 1) \div l.chunk

\* How far a _sync is: sy, with requests sb, of a connection that wants wn, ch if it has changed.
LineOf(l, ln, sy, sb, wn, ch) ==
    /\ \A r, q \in sb : r # q => r.slugs \cap q.slugs = {}
    /\ ln \in {"new", "down"} => sy.at = "idle"
    /\ ln = "opening" => sy.at # "idle"
    /\ ln = "new" => wn = {}
    /\ sy.at = "drop" => /\ sy.todo \subseteq sb
                         /\ ~ch => \A r \in sb \ sy.todo : r.slugs \subseteq wn
    /\ sy.at = "add" => /\ sy.todo \subseteq Slugs /\ sy.todo \cap Covers(sb) = {}
                        /\ Cardinality(sb) + Chunks(l, Cardinality(sy.todo)) <= l.subs
                        /\ ~ch => Covers(sb) \cup sy.todo = wn
    /\ ln = "up" /\ sy.at = "idle" /\ ~ch => Covers(sb) = wn

Line(c) == LineOf(limit, links[c], syncs[c], requests[c], wants[c], altered[c])

\* The exchange's book of a market that is served to its connection is up, or on its way.
RightOf(c, ms, rd, bk, ex, sv, sb, w) ==
    \A r \in sv \cap sb, s \in Slugs : s \in r.slugs =>
        \/ <<c, s>> \in ms
        \/ s \in rd /\ bk[s] = ex[s]
        \/ \E k \in 1..Len(w) : w[k] = Message(r.id, s, ex[s])

Right(c) == RightOf(c, missed, ready, books, exch, streams[c], requests[c], told[c])

FTypes ==
    /\ limit \in Limits
    /\ exch \in [Slugs -> 1..limit.books]
    /\ links \in [Conns -> {"new", "down", "opening", "up"}]
    /\ streams \in [Conns -> SUBSET Grants] /\ requests \in [Conns -> SUBSET Grants]
    /\ \A c \in Conns : IsFiniteSet(streams[c]) /\ IsFiniteSet(requests[c])
    /\ asks \in [Conns -> Seq(Orders)] /\ told \in [Conns -> Seq(Deliveries)]
    /\ wants \in [Conns -> SUBSET Slugs] /\ owned \in [Conns -> SUBSET Slugs]
    /\ altered \in [Conns -> BOOLEAN]
    /\ syncs \in [Conns -> Syncs]
    /\ books \in [Slugs -> Nat] /\ \A s \in Slugs : books[s] <= exch[s]
    /\ ready \subseteq {s \in Slugs : books[s] # 0}
    /\ missed \subseteq Conns \X Slugs

\* A market is wanted on one connection, and there is room for it.
Wanted ==
    /\ \A c, d \in Conns : c # d => wants[c] \cap wants[d] = {}
    /\ \A c \in Conns : Cardinality(wants[c]) <= limit.chunk * limit.subs

FInv == /\ FTypes /\ Wanted
        /\ \A c \in Conns : Asked(c) /\ Latest(c) /\ Line(c) /\ Right(c)

-----------------------------------------------------------------------------
(* Constants and the operators of libraries *)

LEMMA StreamConstants ==
    /\ Slugs \subseteq Nat /\ IsFiniteSet(Slugs) /\ \A c \in Conns : c \in Nat /\ c >= 1 /\ 1..(c - 1) \subseteq Conns
    /\ \A l \in Limits : l.chunk \in Nat \ {0} /\ l.subs \in Nat /\ l.books \in Nat \ {0} /\ l.slugs \subseteq Slugs
<1>1. /\ \A S : PM!IsFiniteSet(S) <=> IsFiniteSet(S)
      /\ \A S : PM!Cardinality(S) = Cardinality(S)
    BY DEF PM!IsFiniteSet, IsFiniteSet, PM!Cardinality, Cardinality
<1>2. /\ Slugs \subseteq Nat /\ IsFiniteSet(Slugs) /\ IsFiniteSet(Conns) /\ Conns = 1..Cardinality(Conns)
      /\ Limits \subseteq [chunk : Nat \ {0}, subs : Nat \ {0}, slugs : SUBSET Slugs, books : Nat \ {0}]
    BY <1>1, FeedsAssumption DEF PM!SizesFit
<1>3. Cardinality(Conns) \in Nat
    BY <1>2, FS_CardinalityType
<1> HIDE <1>1
<1>4. ASSUME NEW c \in Conns PROVE c \in Nat /\ c >= 1 /\ 1..(c - 1) \subseteq Conns
    <2> DEFINE n == Cardinality(Conns)
    <2>1. n \in Nat /\ Conns = 1..n
        BY <1>2, <1>3
    <2> HIDE DEF n
    <2> QED
        BY <2>1
<1>5. ASSUME NEW l \in Limits PROVE l.chunk \in Nat \ {0} /\ l.subs \in Nat /\ l.books \in Nat \ {0} /\ l.slugs \subseteq Slugs
    BY <1>2
<1> QED
    BY <1>2, <1>4, <1>5

LEMMA StreamSame ==
    /\ \A S : PM!Cardinality(S) = Cardinality(S)
    /\ \A f, S : PM!SumFunctionOnSet(f, S) = SumFunctionOnSet(f, S)
<1>1. ASSUME NEW f, NEW S PROVE PM!SumFunctionOnSet(f, S) = SumFunctionOnSet(f, S)
    BY DEF PM!SumFunctionOnSet, SumFunctionOnSet, PM!FoldFunctionOnSet, FoldFunctionOnSet,
           PM!MapThenFoldSet, MapThenFoldSet
<1> QED
    BY <1>1 DEF PM!Cardinality, Cardinality

\* The values of a function on a finite set.
LEMMA ImageFinite ==
    ASSUME NEW S, IsFiniteSet(S), NEW f
    PROVE  IsFiniteSet({f[x] : x \in S})
<1> DEFINE g == [x \in S |-> f[x]]
           T == {f[x] : x \in S}
<1>1. g \in Surjection(S, T)
    BY DEF Surjection
<1> HIDE DEF g, T
<1>2. IsFiniteSet(T)
    BY <1>1, FS_Surjection
<1> QED
    BY <1>2 DEF T

\* What SetToSeq makes of a finite set has each element, and no other.
LEMMA Listed ==
    ASSUME NEW S, IsFiniteSet(S)
    PROVE  /\ PM!SetToSeq(S) \in Seq(S) /\ Len(PM!SetToSeq(S)) = Cardinality(S)
           /\ \A x \in S : \E i \in 1..Cardinality(S) : PM!SetToSeq(S)[i] = x
<1> DEFINE n == Cardinality(S)
           q == PM!SetToSeq(S)
           Once(f) == \A a, b \in 1..n : f[a] = f[b] => a = b
<1>1. n \in Nat /\ \E f : f \in Bijection(1..n, S)
    <2>1. n \in Nat /\ ExistsBijection(1..n, S)
        BY FS_CardinalityType
    <2> HIDE DEF n
    <2> QED
        BY <2>1 DEF ExistsBijection
<1>2. \E f \in [1..n -> S] : PM!IsInjective(f)
    <2>1. PICK f : f \in Bijection(1..n, S)
        BY <1>1
    <2> HIDE DEF n
    <2>2. f \in [1..n -> S] /\ \A a, b \in 1..n : f[a] = f[b] => a = b
        BY <2>1 DEF Bijection, Injection, IsInjective
    <2>3. DOMAIN f = 1..n
        BY <2>2
    <2> QED
        BY <2>2, <2>3 DEF PM!IsInjective
<1>3. q = CHOOSE f \in [1..n -> S] : PM!IsInjective(f)
    BY StreamSame DEF PM!SetToSeq
<1>4. q \in [1..n -> S] /\ PM!IsInjective(q)
    <2> HIDE DEF n, q
    <2> QED
        BY <1>2, <1>3
<1>5. DOMAIN q = 1..n
    BY <1>4
<1>6. q \in Injection(1..n, S)
    <2> HIDE DEF q, n
    <2> QED
        BY <1>4, <1>5 DEF PM!IsInjective, Injection, IsInjective
<1>7. Cardinality(1..n) = n
    BY <1>1, FS_Interval
<1>8. q \in Surjection(1..n, S)
    BY <1>6, <1>7, FS_Injection
<1> HIDE DEF q, n
<1>9. q \in Seq(S) /\ Len(q) = n
    BY <1>1, <1>4
<1>10. \A x \in S : \E i \in 1..n : q[i] = x
    BY <1>8 DEF Surjection
<1> QED
    BY <1>9, <1>10 DEF q, n

\* An id that nothing has.
LEMMA FreshId ==
    ASSUME NEW U \in SUBSET Nat, IsFiniteSet(U)
    PROVE  PM!Min((0..PM!Cardinality(U)) \ U) \in Nat \ U
<1> DEFINE n == Cardinality(U)
           R == (0..n) \ U
<1>1. n \in Nat /\ R \subseteq Nat
    BY FS_CardinalityType
<1>2. R # {}
    <2>1. Cardinality(0..n) = n + 1
        BY <1>1, FS_Interval
    <2>2. ~(0..n \subseteq U)
        BY <1>1, <2>1, FS_Subset
    <2> QED
        BY <2>2
<1>3. \E x \in R : \A y \in R : x <= y
    <2> HIDE DEF R
    <2> QED
        BY <1>1, <1>2, HasLeast
<1>4. PM!Min(R) \in R
    <2> HIDE DEF R
    <2> QED
        BY <1>3 DEF PM!Min
<1> QED
    BY <1>4, StreamSame

\* Chunks: how many subscriptions n markets take.
LEMMA ChunksOf ==
    ASSUME NEW l \in Limits, NEW n \in Nat
    PROVE  /\ Chunks(l, n) \in Nat
           /\ n >= l.chunk => Chunks(l, n) = Chunks(l, n - l.chunk) + 1 /\ n - l.chunk \in Nat
           /\ n > 0 => Chunks(l, n) >= 1
           /\ Chunks(l, 0) = 0
           /\ n <= l.chunk * l.subs => Chunks(l, n) <= l.subs
<1> DEFINE k == l.chunk
           m == l.subs
<1>1. k \in Nat \ {0} /\ m \in Nat
    BY StreamConstants
<1>2. \A x : Chunks(l, x) = (x + k - 1) \div k
    BY DEF Chunks
<1> HIDE DEF k, m
<1>3. (n + k - 1) \div k \in Nat
    BY <1>1
<1>4. n >= k => (n + k - 1) \div k = ((n - k) + k - 1) \div k + 1 /\ n - k \in Nat
    BY <1>1
<1>5. n > 0 => (n + k - 1) \div k >= 1
    BY <1>1
<1>6. (0 + k - 1) \div k = 0
    BY <1>1
<1>7. n <= k * m => (n + k - 1) \div k <= m
    BY <1>1
<1> QED
    BY <1>2, <1>3, <1>4, <1>5, <1>6, <1>7 DEF k, m

-----------------------------------------------------------------------------
(* Commands *)

LEMMA OfMore ==
    ASSUME NEW cs \in Seq(Orders), NEW m \in Orders, NEW cs2, cs2 = Append(cs, m)
    PROVE  /\ cs2 \in Seq(Orders) /\ Len(cs2) = Len(cs) + 1 /\ cs2[Len(cs) + 1] = m
           /\ \A i \in 1..Len(cs) : cs2[i] = cs[i]
           /\ Of(cs2) = Of(cs) \cup {m.req} /\ Of(cs) \subseteq Grants /\ Of(cs2) \subseteq Grants
           /\ \A i \in 1..Len(cs) : cs[i] \in Orders
<1>1. /\ cs2 \in Seq(Orders) /\ Len(cs2) = Len(cs) + 1 /\ cs2[Len(cs) + 1] = m
      /\ \A i \in 1..Len(cs) : cs2[i] = cs[i]
      /\ \A i \in 1..Len(cs) : cs[i] \in Orders
      /\ Len(cs) \in Nat
    OBVIOUS
<1>2. Of(cs2) = Of(cs) \cup {m.req}
    BY <1>1 DEF Of
<1>3. Of(cs) \subseteq Grants /\ Of(cs2) \subseteq Grants
    BY <1>1, <1>2 DEF Of, Orders
<1> QED
    BY <1>1, <1>2, <1>3

LEMMA OfSub ==
    ASSUME NEW cs \in Seq(Orders), NEW r \in Grants
    PROVE  Of(Append(cs, Sub(r))) = Of(cs) \cup {r} /\ Of(Append(cs, Unsub(r))) = Of(cs) \cup {r}
<1>1. /\ Sub(r) \in Orders /\ Sub(r).req = r /\ Unsub(r) \in Orders /\ Unsub(r).req = r
    BY DEF Sub, Unsub, Orders
<1>2. \A m \in Orders : Of(Append(cs, m)) = Of(cs) \cup {m.req}
    BY OfMore, ZenonT(40)
<1> QED
    BY <1>1, <1>2

LEMMA AfterSub ==
    ASSUME NEW sv, NEW cs \in Seq(Orders), NEW r \in Grants, r \notin Of(cs)
    PROVE  /\ \A k \in 0..Len(cs) : After(sv, Append(cs, Sub(r)), k) = After(sv, cs, k)
           /\ After(sv, Append(cs, Sub(r)), Len(cs) + 1) = After(sv, cs, Len(cs)) \cup {r}
<1>1. Sub(r) \in Orders /\ Sub(r).req = r /\ Len(cs) \in Nat
    BY DEF Sub, Orders
<1>2. \A i \in 1..Len(cs) : cs[i] # Sub(r) /\ cs[i] # Unsub(r)
    BY <1>1 DEF Of, Sub, Unsub
<1> DEFINE cs2 == Append(cs, Sub(r))
<1>9. cs2 = Append(cs, Sub(r))
    OBVIOUS
<1> HIDE DEF cs2
<1>0. Of(cs2) = Of(cs) \cup {r}
    BY <1>9, OfSub
<1>3. \A q : Sub(r) # Unsub(q) /\ (Sub(r) = Sub(q) => r = q)
    BY DEF Sub, Unsub
<1>4. ASSUME NEW k \in 0..Len(cs) PROVE After(sv, cs2, k) = After(sv, cs, k)
    <2>1. k \in Nat /\ k <= Len(cs) /\ \A i \in 1..k : i \in 1..Len(cs) /\ cs2[i] = cs[i]
        BY <1>1, <1>9, OfMore
    <2>2. ASSUME NEW q PROVE (\E i \in 1..k : cs2[i] = Sub(q)) <=> \E i \in 1..k : cs[i] = Sub(q)
        BY <2>1
    <2>3. ASSUME NEW q PROVE (\A i \in 1..k : cs2[i] # Unsub(q)) <=> \A i \in 1..k : cs[i] # Unsub(q)
        BY <2>1
    <2>4. ~\E i \in 1..k : cs[i] = Sub(r)
        BY <1>2, <2>1
    <2> QED
        BY <1>0, <2>2, <2>3, <2>4 DEF After
<1>5. After(sv, cs2, Len(cs) + 1) = After(sv, cs, Len(cs)) \cup {r}
    <2>1. /\ Len(cs2) = Len(cs) + 1 /\ cs2[Len(cs) + 1] = Sub(r)
          /\ \A i \in 1..Len(cs) : cs2[i] = cs[i]
        BY <1>1, <1>9, OfMore
    <2>2. \A i \in 1..Len(cs2) : i \in 1..Len(cs) \/ i = Len(cs) + 1
        BY <1>1, <2>1
    <2>3. \A i \in 1..Len(cs) : i \in 1..Len(cs2)
        BY <1>1, <2>1
    <2>4. Len(cs) + 1 \in 1..Len(cs2)
        BY <1>1, <2>1
    <2>5. ASSUME NEW q PROVE (\E i \in 1..Len(cs2) : cs2[i] = Sub(q)) <=> q = r \/ \E i \in 1..Len(cs) : cs[i] = Sub(q)
        BY <1>3, <2>1, <2>2, <2>3, <2>4
    <2>6. ASSUME NEW q PROVE (\A i \in 1..Len(cs2) : cs2[i] # Unsub(q)) <=> \A i \in 1..Len(cs) : cs[i] # Unsub(q)
        BY <1>3, <2>1, <2>2, <2>3, <2>4
    <2> QED
        BY <1>0, <1>2, <2>1, <2>5, <2>6 DEF After
<1> QED
    BY <1>4, <1>5, <1>9

LEMMA AfterUnsub ==
    ASSUME NEW sv, NEW cs \in Seq(Orders), NEW r \in Grants, r \in sv \cup Of(cs)
    PROVE  /\ \A k \in 0..Len(cs) : After(sv, Append(cs, Unsub(r)), k) = After(sv, cs, k)
           /\ After(sv, Append(cs, Unsub(r)), Len(cs) + 1) = After(sv, cs, Len(cs)) \ {r}
<1>1. Unsub(r) \in Orders /\ Unsub(r).req = r /\ Len(cs) \in Nat
    BY DEF Unsub, Orders
<1> DEFINE cs2 == Append(cs, Unsub(r))
<1>9. cs2 = Append(cs, Unsub(r))
    OBVIOUS
<1> HIDE DEF cs2
<1>2. sv \cup Of(cs2) = sv \cup Of(cs)
    BY <1>9, OfSub
<1>3. \A q : Unsub(r) # Sub(q) /\ (Unsub(r) = Unsub(q) <=> r = q)
    BY DEF Sub, Unsub
<1>4. ASSUME NEW k \in 0..Len(cs) PROVE After(sv, cs2, k) = After(sv, cs, k)
    <2>1. k \in Nat /\ k <= Len(cs) /\ \A i \in 1..k : i \in 1..Len(cs) /\ cs2[i] = cs[i]
        BY <1>1, <1>9, OfMore
    <2> QED
        BY <1>2, <2>1 DEF After
<1>5. After(sv, cs2, Len(cs) + 1) = After(sv, cs, Len(cs)) \ {r}
    <2>1. /\ Len(cs2) = Len(cs) + 1 /\ cs2[Len(cs) + 1] = Unsub(r)
          /\ \A i \in 1..Len(cs) : cs2[i] = cs[i]
        BY <1>1, <1>9, OfMore
    <2>2. \A i \in 1..Len(cs2) : i \in 1..Len(cs) \/ i = Len(cs) + 1
        BY <1>1, <2>1
    <2>3. \A i \in 1..Len(cs) : i \in 1..Len(cs2)
        BY <1>1, <2>1
    <2>4. Len(cs) + 1 \in 1..Len(cs2)
        BY <1>1, <2>1
    <2>5. ASSUME NEW q PROVE (\E i \in 1..Len(cs2) : cs2[i] = Sub(q)) <=> \E i \in 1..Len(cs) : cs[i] = Sub(q)
        BY <1>3, <2>1, <2>2, <2>3, <2>4
    <2>6. ASSUME NEW q PROVE (\A i \in 1..Len(cs2) : cs2[i] # Unsub(q)) <=> q # r /\ \A i \in 1..Len(cs) : cs[i] # Unsub(q)
        BY <1>3, <2>1, <2>2, <2>3, <2>4
    <2> QED
        BY <1>2, <2>1, <2>5, <2>6 DEF After
<1> QED
    BY <1>4, <1>5, <1>9

\* The server takes the first command.
LEMMA AfterHead ==
    ASSUME NEW sv \in SUBSET Grants, NEW cs \in Seq(Orders), cs # <<>>,
           \A i, j \in 1..Len(cs) : i < j /\ cs[j].cmd = "subscribe" => cs[i].req # cs[j].req,
           NEW sv2, sv2 = IF cs[1].cmd = "subscribe" THEN sv \cup {cs[1].req} ELSE sv \ {cs[1].req},
           NEW k \in 0..(Len(cs) - 1)
    PROVE  After(sv2, Tail(cs), k) = After(sv, cs, k + 1)
<1>1. /\ Len(cs) \in Nat \ {0} /\ Tail(cs) \in Seq(Orders) /\ Len(Tail(cs)) = Len(cs) - 1
      /\ \A i \in 1..(Len(cs) - 1) : Tail(cs)[i] = cs[i + 1]
    OBVIOUS
<1>2. \A i \in 1..Len(cs) : cs[i] \in Orders
    OBVIOUS
<1> DEFINE r == cs[1].req
           n == Len(cs)
           t == Tail(cs)
<1>3. cs[1] \in Orders /\ r \in Grants
    BY <1>1, <1>2 DEF Orders
<1>4. ASSUME NEW q, NEW f \in {Sub(q), Unsub(q)}
      PROVE (\E i \in 1..(k + 1) : cs[i] = f) <=> cs[1] = f \/ \E i \in 1..k : t[i] = f
    <2>1. k \in Nat /\ k + 1 <= n
        BY <1>1
    <2>2. \A i \in 1..(k + 1) : i = 1 \/ (i - 1 \in 1..k /\ t[i - 1] = cs[i])
        BY <1>1, <2>1
    <2>3. \A i \in 1..k : i + 1 \in 1..(k + 1) /\ t[i] = cs[i + 1]
        BY <1>1, <2>1
    <2>4. 1 \in 1..(k + 1)
        BY <2>1
    <2> HIDE DEF t, n
    <2> QED
        BY <2>2, <2>3, <2>4, SMTT(20)
<1>5. Of(cs) = Of(t) \cup {r}
    <2>1. \A i \in 1..n : i = 1 \/ (i - 1 \in 1..Len(t) /\ t[i - 1] = cs[i])
        BY <1>1
    <2>2. \A i \in 1..Len(t) : i + 1 \in 1..n /\ t[i] = cs[i + 1]
        BY <1>1
    <2>3. 1 \in 1..n
        BY <1>1
    <2>4. Of(cs) = {cs[i].req : i \in 1..n} /\ Of(t) = {t[i].req : i \in 1..Len(t)}
        BY DEF Of
    <2> HIDE DEF t, n
    <2>5. ASSUME NEW i \in 1..n PROVE cs[i].req \in Of(t) \cup {cs[1].req}
        BY <2>1, <2>4
    <2>6. ASSUME NEW i \in 1..Len(t) PROVE t[i].req \in Of(cs)
        BY <2>2, <2>4
    <2>7. cs[1].req \in Of(cs)
        BY <2>3, <2>4
    <2>8. Of(cs) \subseteq Of(t) \cup {cs[1].req}
        BY <2>4, <2>5
    <2>9. Of(t) \subseteq Of(cs)
        BY <2>4, <2>6
    <2> QED
        BY <2>7, <2>8, <2>9
<1>6. \A i \in 1..k : t[i] # Sub(r)
    <2>1. ASSUME NEW i \in 1..k, t[i] = Sub(r) PROVE FALSE
        <3>1. i + 1 \in 1..n /\ 1 \in 1..n /\ t[i] = cs[i + 1] /\ 1 < i + 1
            BY <1>1
        <3>2. cs[i + 1].cmd = "subscribe" /\ cs[i + 1].req = r
            BY <2>1, <3>1 DEF Sub
        <3> QED
            BY <3>1, <3>2
    <2> QED
        BY <2>1
<1>7. (\A q : (cs[1] = Sub(q) <=> cs[1].cmd = "subscribe" /\ q = r)) /\ (\A q : cs[1] = Unsub(q) <=> cs[1].cmd # "subscribe" /\ q = r)
    BY <1>3 DEF Sub, Unsub, Orders
<1>8. \A q : (\A i \in 1..(k + 1) : cs[i] # Unsub(q)) <=> cs[1] # Unsub(q) /\ \A i \in 1..k : t[i] # Unsub(q)
    BY <1>4
<1>9. \A q : (\E i \in 1..(k + 1) : cs[i] = Sub(q)) <=> cs[1] = Sub(q) \/ \E i \in 1..k : t[i] = Sub(q)
    BY <1>4
<1> HIDE DEF t, n, r
<1>10. ASSUME NEW q PROVE q \in After(sv2, t, k) <=> q \in After(sv, cs, k + 1)
    <2>1. CASE cs[1].cmd = "subscribe"
        <3>1. sv2 = sv \cup {r}
            BY <2>1 DEF r
        <3> QED
            BY <1>5, <1>6, <1>7, <1>8, <1>9, <2>1, <3>1 DEF After
    <2>2. CASE cs[1].cmd # "subscribe"
        <3>1. sv2 = sv \ {r}
            BY <2>2 DEF r
        <3> QED
            BY <1>5, <1>6, <1>7, <1>8, <1>9, <2>2, <3>1 DEF After
    <2> QED
        BY <2>1, <2>2
<1> QED
    BY <1>10 DEF t

\* Commands: what is asked for stays in order when a request is made, or dropped, or is taken.
LEMMA AskMore ==
    ASSUME NEW l, NEW ln, NEW ln2, Up(ln), Up(ln2), NEW sv \in SUBSET Grants, NEW sb \in SUBSET Grants,
           NEW cs \in Seq(Orders), NEW w, AskedOf(l, ln, sv, sb, cs, w),
           NEW r \in Grants, \A q \in sv \cup sb \cup Of(cs) : q.id # r.id, \A j \in 1..Len(w) : w[j].id # r.id,
           Cardinality(r.slugs) <= l.chunk, NEW sb2, sb2 = sb \cup {r}, Cardinality(sb2) <= l.subs,
           NEW cs2, cs2 = Append(cs, Sub(r))
    PROVE  AskedOf(l, ln2, sv, sb2, cs2, w)
<1>1. Sub(r) \in Orders /\ Sub(r).req = r /\ Sub(r).cmd = "subscribe" /\ Len(cs) \in Nat
    BY DEF Sub, Orders
<1>2. r \notin Of(cs) /\ r \notin sv
    OBVIOUS
<1>3. /\ Len(cs2) = Len(cs) + 1 /\ cs2[Len(cs2)] = Sub(r)
      /\ \A i \in 1..Len(cs) : cs2[i] = cs[i]
    BY <1>1, OfMore
<1>4. Of(cs2) = Of(cs) \cup {r}
    BY OfSub
<1>5. \A i \in 1..Len(cs2) : (i \in 1..Len(cs) /\ cs2[i] = cs[i]) \/ (i = Len(cs2) /\ cs2[i] = Sub(r))
    BY <1>1, <1>3
<1>0. /\ \A k \in 0..Len(cs) : After(sv, Append(cs, Sub(r)), k) = After(sv, cs, k)
      /\ After(sv, Append(cs, Sub(r)), Len(cs) + 1) = After(sv, cs, Len(cs)) \cup {r}
    BY <1>2, AfterSub, SMTT(30)
<1>6. \A k \in 0..Len(cs) : After(sv, cs2, k) = After(sv, cs, k)
    BY <1>0
<1>7. After(sv, cs2, Len(cs2)) = sb2
    <2>1. After(sv, cs2, Len(cs2)) = After(sv, cs, Len(cs)) \cup {r}
        BY <1>0, <1>3
    <2> QED
        BY <2>1 DEF AskedOf
<1>8. \A q, p \in sv \cup sb2 \cup Of(cs2) : q.id = p.id => q = p
    BY <1>4 DEF AskedOf
<1>9. \A q \in sv \cup sb2 \cup Of(cs2) : Cardinality(q.slugs) <= l.chunk
    BY <1>4 DEF AskedOf
<1>10. \A i, j \in 1..Len(cs2) : i < j /\ cs2[j].cmd = "subscribe" => cs2[i].req # cs2[j].req
    <2> SUFFICES ASSUME NEW i \in 1..Len(cs2), NEW j \in 1..Len(cs2), i < j, cs2[j].cmd = "subscribe"
                 PROVE  cs2[i].req # cs2[j].req
        OBVIOUS
    <2>1. i \in 1..Len(cs) /\ cs2[i] = cs[i]
        BY <1>3, <1>5
    <2>2. cs[i].req \in Of(cs)
        BY <2>1 DEF Of
    <2>3. CASE j \in 1..Len(cs) /\ cs2[j] = cs[j]
        BY <2>1, <2>3 DEF AskedOf
    <2>4. CASE cs2[j] = Sub(r)
        BY <1>1, <1>2, <2>1, <2>2, <2>4
    <2> QED
        BY <1>5, <2>3, <2>4
<1>11. \A i \in 1..Len(cs2) : cs2[i].cmd = "subscribe" =>
           cs2[i].req \notin sv /\ \A j \in 1..Len(w) : w[j].id # cs2[i].req.id
    BY <1>1, <1>2, <1>5 DEF AskedOf
<1>12. \A k \in 0..Len(cs2) : Cardinality(After(sv, cs2, k)) <= l.subs
    <2>1. \A k \in 0..Len(cs2) : k \in 0..Len(cs) \/ k = Len(cs2)
        BY <1>1, <1>3
    <2> QED
        BY <1>6, <1>7, <2>1 DEF AskedOf
<1> QED
    BY <1>7, <1>8, <1>9, <1>10, <1>11, <1>12 DEF AskedOf

LEMMA AskDrop ==
    ASSUME NEW l \in Limits, NEW ln, NEW ln2, Up(ln), Up(ln2), NEW sv \in SUBSET Grants, NEW sb \in SUBSET Grants,
           IsFiniteSet(sb), NEW cs \in Seq(Orders), NEW w, AskedOf(l, ln, sv, sb, cs, w),
           NEW r \in sb, NEW sb2, sb2 = sb \ {r}, NEW cs2, cs2 = Append(cs, Unsub(r))
    PROVE  AskedOf(l, ln2, sv, sb2, cs2, w)
<1>1. Unsub(r) \in Orders /\ Unsub(r).req = r /\ Unsub(r).cmd # "subscribe" /\ Len(cs) \in Nat
    BY DEF Unsub, Orders
<1>2. r \in sv \cup Of(cs) /\ r \in Grants
    BY DEF AskedOf, After
<1>3. /\ Len(cs2) = Len(cs) + 1 /\ cs2[Len(cs2)] = Unsub(r)
      /\ \A i \in 1..Len(cs) : cs2[i] = cs[i]
    BY <1>1, OfMore
<1>4. Of(cs2) = Of(cs) \cup {r}
    BY <1>2, OfSub
<1>5. \A i \in 1..Len(cs2) : (i \in 1..Len(cs) /\ cs2[i] = cs[i]) \/ (i = Len(cs2) /\ cs2[i] = Unsub(r))
    BY <1>1, <1>3
<1>0. /\ \A k \in 0..Len(cs) : After(sv, Append(cs, Unsub(r)), k) = After(sv, cs, k)
      /\ After(sv, Append(cs, Unsub(r)), Len(cs) + 1) = After(sv, cs, Len(cs)) \ {r}
    BY <1>2, AfterUnsub, Zenon
<1>6. \A k \in 0..Len(cs) : After(sv, cs2, k) = After(sv, cs, k)
    BY <1>0
<1>7. After(sv, cs2, Len(cs2)) = sb2
    <2>1. After(sv, cs2, Len(cs2)) = After(sv, cs, Len(cs)) \ {r}
        BY <1>0, <1>3
    <2> QED
        BY <2>1 DEF AskedOf
<1>8. Cardinality(sb2) <= l.subs
    <2>1. Cardinality(sb) <= l.subs
        BY <1>1 DEF AskedOf
    <2>2. Cardinality(sb2) = Cardinality(sb) - 1 /\ Cardinality(sb) \in Nat
        BY FS_RemoveElement, FS_CardinalityType
    <2>3. l.subs \in Nat
        BY StreamConstants
    <2> QED
        BY <2>1, <2>2, <2>3
<1>9. \A q, p \in sv \cup sb2 \cup Of(cs2) : q.id = p.id => q = p
    BY <1>2, <1>4 DEF AskedOf
<1>10. \A q \in sv \cup sb2 \cup Of(cs2) : Cardinality(q.slugs) <= l.chunk
    BY <1>2, <1>4 DEF AskedOf
<1>11. \A i, j \in 1..Len(cs2) : i < j /\ cs2[j].cmd = "subscribe" => cs2[i].req # cs2[j].req
    <2> SUFFICES ASSUME NEW i \in 1..Len(cs2), NEW j \in 1..Len(cs2), i < j, cs2[j].cmd = "subscribe"
                 PROVE  cs2[i].req # cs2[j].req
        OBVIOUS
    <2>1. i \in 1..Len(cs) /\ cs2[i] = cs[i]
        BY <1>3, <1>5
    <2>2. j \in 1..Len(cs) /\ cs2[j] = cs[j]
        BY <1>1, <1>5
    <2> QED
        BY <2>1, <2>2 DEF AskedOf
<1>12. \A i \in 1..Len(cs2) : cs2[i].cmd = "subscribe" =>
           cs2[i].req \notin sv /\ \A j \in 1..Len(w) : w[j].id # cs2[i].req.id
    BY <1>1, <1>5 DEF AskedOf
<1>13. \A k \in 0..Len(cs2) : Cardinality(After(sv, cs2, k)) <= l.subs
    <2>1. \A k \in 0..Len(cs2) : k \in 0..Len(cs) \/ k = Len(cs2)
        BY <1>1, <1>3
    <2> QED
        BY <1>6, <1>7, <1>8, <2>1 DEF AskedOf
<1> QED
    BY <1>7, <1>9, <1>10, <1>11, <1>12, <1>13 DEF AskedOf

LEMMA AskAccept ==
    ASSUME NEW l, NEW ln, NEW sv \in SUBSET Grants, NEW sb \in SUBSET Grants,
           NEW cs \in Seq(Orders), cs # <<>>, NEW w, AskedOf(l, ln, sv, sb, cs, w),
           NEW sv2, sv2 = IF cs[1].cmd = "subscribe" THEN sv \cup {cs[1].req} ELSE sv \ {cs[1].req},
           NEW w2, \A j \in 1..Len(w2) : \/ \E i \in 1..Len(w) : w2[j].id = w[i].id
                                         \/ cs[1].cmd = "subscribe" /\ w2[j].id = cs[1].req.id
    PROVE  AskedOf(l, ln, sv2, sb, Tail(cs), w2)
<1> DEFINE t == Tail(cs)
           r == cs[1].req
<1>1. /\ Len(cs) \in Nat \ {0} /\ t \in Seq(Orders) /\ Len(t) = Len(cs) - 1
      /\ \A i \in 1..Len(t) : t[i] = cs[i + 1] /\ i + 1 \in 1..Len(cs)
      /\ 1 \in 1..Len(cs)
    OBVIOUS
<1>2. Up(ln)
    BY <1>1 DEF AskedOf
<1>3. r \in Of(cs) /\ Of(t) \subseteq Of(cs) /\ Of(cs) \subseteq Grants
    <2>1. \A i \in 1..Len(cs) : cs[i] \in Orders
        OBVIOUS
    <2>2. \A i \in 1..Len(cs) : cs[i].req \in Grants
        BY <2>1 DEF Orders
    <2> HIDE DEF t
    <2> QED
        BY <1>1, <2>2 DEF Of
<1>4. \A k \in 0..Len(t) : After(sv2, t, k) = After(sv, cs, k + 1) /\ k + 1 \in 0..Len(cs)
    <2>1. \A i, j \in 1..Len(cs) : i < j /\ cs[j].cmd = "subscribe" => cs[i].req # cs[j].req
        BY DEF AskedOf
    <2>2. \A k \in 0..(Len(cs) - 1) : After(sv2, t, k) = After(sv, cs, k + 1)
        BY <2>1, AfterHead
    <2> HIDE DEF t
    <2>3. \A k \in 0..Len(t) : k \in 0..(Len(cs) - 1) /\ k + 1 \in 0..Len(cs)
        BY <1>1
    <2> QED
        BY <2>2, <2>3
<1>5. After(sv2, t, Len(t)) = sb
    <2>1. Len(t) \in 0..Len(t) /\ Len(t) + 1 = Len(cs)
        BY <1>1
    <2> HIDE DEF t
    <2> QED
        BY <1>2, <1>4, <2>1 DEF AskedOf
<1> HIDE DEF t
<1>6. sv2 \cup sb \cup Of(t) \subseteq sv \cup sb \cup Of(cs)
    BY <1>3
<1>7. \A i, j \in 1..Len(t) : i < j /\ t[j].cmd = "subscribe" => t[i].req # t[j].req
    <2> SUFFICES ASSUME NEW i \in 1..Len(t), NEW j \in 1..Len(t), i < j, t[j].cmd = "subscribe"
                 PROVE  t[i].req # t[j].req
        OBVIOUS
    <2>1. i + 1 < j + 1 /\ i + 1 \in 1..Len(cs) /\ j + 1 \in 1..Len(cs) /\ t[i] = cs[i + 1] /\ t[j] = cs[j + 1]
        BY <1>1
    <2> QED
        BY <2>1 DEF AskedOf
<1>8. ASSUME NEW i \in 1..Len(t), t[i].cmd = "subscribe"
      PROVE  t[i].req \notin sv2 /\ \A j \in 1..Len(w2) : w2[j].id # t[i].req.id
    <2>1. 1 < i + 1 /\ i + 1 \in 1..Len(cs) /\ t[i] = cs[i + 1]
        BY <1>1
    <2>2. t[i].req # r
        BY <1>1, <1>8, <2>1 DEF AskedOf
    <2>3. t[i].req \notin sv /\ \A j \in 1..Len(w) : w[j].id # t[i].req.id
        BY <1>8, <2>1 DEF AskedOf
    <2>4. t[i].req \in Of(cs)
        BY <2>1 DEF Of
    <2>5. t[i].req.id # r.id
        BY <1>3, <2>2, <2>4 DEF AskedOf
    <2> QED
        BY <2>2, <2>3, <2>5
<1>9. \A k \in 0..Len(t) : Cardinality(After(sv2, t, k)) <= l.subs
    BY <1>4 DEF AskedOf
<1>10. /\ \A q, p \in sv2 \cup sb \cup Of(t) : q.id = p.id => q = p
       /\ \A q \in sv2 \cup sb \cup Of(t) : Cardinality(q.slugs) <= l.chunk
    BY <1>6 DEF AskedOf
<1>11. AskedOf(l, ln, sv2, sb, t, w2)
    BY <1>2, <1>5, <1>7, <1>8, <1>9, <1>10 DEF AskedOf
<1> QED
    BY <1>11 DEF t

\* Messages: new ones are of requests that are served.
LEMMA AskWire ==
    ASSUME NEW l, NEW ln, NEW sv, NEW sb, NEW cs, NEW w, AskedOf(l, ln, sv, sb, cs, w), Up(ln),
           NEW w2, \A j \in 1..Len(w2) : \/ \E i \in 1..Len(w) : w2[j].id = w[i].id
                                         \/ \E q \in sv : w2[j].id = q.id
    PROVE  AskedOf(l, ln, sv, sb, cs, w2)
<1>1. ASSUME NEW i \in 1..Len(cs), cs[i].cmd = "subscribe", NEW j \in 1..Len(w2)
      PROVE  w2[j].id # cs[i].req.id
    <2>1. cs[i].req \in Of(cs) /\ cs[i].req \notin sv
        BY <1>1 DEF Of, AskedOf
    <2>2. \A q \in sv : q.id # cs[i].req.id
        BY <2>1 DEF AskedOf
    <2> QED
        BY <1>1, <2>2 DEF AskedOf
<1> QED
    BY <1>1 DEF AskedOf

-----------------------------------------------------------------------------
(* Messages *)

\* w2 is w with messages ms behind.
Longer(w, ms, w2) ==
    /\ w2 \in Seq(Deliveries) /\ Len(w) \in Nat /\ Len(w2) \in Nat /\ Len(w) <= Len(w2)
    /\ \A j \in 1..Len(w) : j \in 1..Len(w2) /\ w2[j] = w[j]
    /\ \A j \in 1..Len(w2) : j \in 1..Len(w) \/ (Len(w) < j /\ w2[j] \in ms)
    /\ \A m \in ms : \E k \in 1..Len(w2) : Len(w) < k /\ w2[k] = m

LEMMA Behind ==
    ASSUME NEW w \in Seq(Deliveries), NEW ms \in SUBSET Deliveries, IsFiniteSet(ms)
    PROVE  Longer(w, ms, w \o PM!SetToSeq(ms))
<1> DEFINE q == PM!SetToSeq(ms)
           n == Cardinality(ms)
           w2 == w \o q
<1>1. q \in Seq(ms) /\ Len(q) = n /\ n \in Nat /\ \A x \in ms : \E i \in 1..n : q[i] = x
    BY Listed, FS_CardinalityType
<1>2. w2 = w \o q
    OBVIOUS
<1> HIDE DEF q, n, w2
<1>3. q \in Seq(Deliveries)
    BY <1>1
<1>10. w2 \in Seq(Deliveries) /\ Len(w) \in Nat /\ Len(w2) = Len(w) + n
    <2>1. \A v \in Seq(Deliveries), u \in Seq(Deliveries) :
              v \o u \in Seq(Deliveries) /\ Len(v) \in Nat /\ Len(v \o u) = Len(v) + Len(u)
        OBVIOUS
    <2> QED
        BY <1>1, <1>2, <1>3, <2>1
<1>11. \A j \in 1..Len(w) : w2[j] = w[j]
    <2>1. \A v \in Seq(Deliveries), u \in Seq(Deliveries) : \A j \in 1..Len(v) : (v \o u)[j] = v[j]
        OBVIOUS
    <2> QED
        BY <1>2, <1>3, <2>1
<1>12. \A j \in 1..n : w2[Len(w) + j] = q[j] /\ q[j] \in ms
    <2>1. \A v \in Seq(Deliveries), u \in Seq(Deliveries) : \A j \in 1..Len(u) : (v \o u)[Len(v) + j] = u[j]
        OBVIOUS
    <2>2. \A j \in 1..n : q[j] \in ms
        BY <1>1
    <2> QED
        BY <1>1, <1>2, <1>3, <2>1, <2>2
<1>4. /\ w2 \in Seq(Deliveries) /\ Len(w) \in Nat /\ Len(w2) = Len(w) + n
      /\ \A j \in 1..Len(w) : w2[j] = w[j]
      /\ \A j \in 1..n : w2[Len(w) + j] = q[j] /\ q[j] \in ms
    BY <1>10, <1>11, <1>12
<1>5. \A j \in 1..Len(w2) : j \in 1..Len(w) \/ (Len(w) < j /\ j - Len(w) \in 1..n /\ w2[j] = q[j - Len(w)])
    BY <1>1, <1>4
<1>6. \A i \in 1..n : Len(w) + i \in 1..Len(w2) /\ Len(w) < Len(w) + i
    BY <1>1, <1>4
<1>7. ASSUME NEW m \in ms PROVE \E k \in 1..Len(w2) : Len(w) < k /\ w2[k] = m
    <2>1. PICK i \in 1..n : q[i] = m
        BY <1>1
    <2> QED
        BY <1>4, <1>6, <2>1
<1>8. \A j \in 1..Len(w2) : j \in 1..Len(w) \/ (Len(w) < j /\ w2[j] \in ms)
    BY <1>4, <1>5
<1>9. Len(w2) \in Nat /\ Len(w) <= Len(w2) /\ \A j \in 1..Len(w) : j \in 1..Len(w2)
    BY <1>1, <1>4
<1> QED
    BY <1>4, <1>7, <1>8, <1>9 DEF Longer, w2, q

LEMMA DeliveryIs ==
    ASSUME NEW i, NEW s, NEW n
    PROVE  /\ Message(i, s, n).id = i /\ Message(i, s, n).slug = s /\ Message(i, s, n).n = n
           /\ i \in Nat /\ s \in Slugs /\ n \in Nat => Message(i, s, n) \in Deliveries
           /\ PM!MarketData(i, s, n) = Message(i, s, n)
    BY DEF Message, Deliveries, PM!MarketData

\* The exchange's books, which were ex, are ex2, and its requests, which were sv, are sv2: it
\* sends the messages ms of those that differ.
Sends(ex, ex2, sv, sv2, sb, w, ms) ==
    /\ sv \subseteq sv2 /\ \A r, q \in sv2 \cup sb : r.id = q.id => r = q
    /\ \A r \in sv2 \ sv : \A j \in 1..Len(w) : w[j].id # r.id
    /\ \A s \in Slugs : ex[s] <= ex2[s]
    /\ \A m \in ms : m.n >= 1 /\ \E r \in sv2 : m.slug \in r.slugs /\ m = Message(r.id, m.slug, ex2[m.slug])
    /\ \A r \in sv2, s \in Slugs : s \in r.slugs => \/ r \in sv /\ ex2[s] = ex[s]
                                                 \/ Message(r.id, s, ex2[s]) \in ms

\* What they then make of the messages w, which are w2.
Told(ex, ex2, sv, sv2, sb, w, w2) ==
    /\ w2 \in Seq(Deliveries) /\ TellsOf(ex2, sv2, sb, w2)
    /\ \A j \in 1..Len(w2) : \/ \E i \in 1..Len(w) : w2[j].id = w[i].id
                             \/ \E q \in sv2 : w2[j].id = q.id
    /\ \A c, gs, rd, bk : RightOf(c, gs, rd, bk, ex, sv, sb, w) => RightOf(c, gs, rd, bk, ex2, sv2, sb, w2)

LEMMA TellNews ==
    ASSUME NEW sv \in SUBSET Grants, NEW sv2 \in SUBSET Grants, NEW sb \in SUBSET Grants, NEW w \in Seq(Deliveries),
           NEW ex \in [Slugs -> Nat], NEW ex2 \in [Slugs -> Nat], NEW ms \in SUBSET Deliveries, IsFiniteSet(ms),
           Sends(ex, ex2, sv, sv2, sb, w, ms), TellsOf(ex, sv, sb, w)
    PROVE  Told(ex, ex2, sv, sv2, sb, w, w \o PM!SetToSeq(ms))
<1> DEFINE w2 == w \o PM!SetToSeq(ms)
<1>0. /\ sv \subseteq sv2 /\ \A r, q \in sv2 \cup sb : r.id = q.id => r = q
      /\ \A r \in sv2 \ sv : \A j \in 1..Len(w) : w[j].id # r.id
      /\ \A s \in Slugs : ex[s] <= ex2[s]
      /\ \A m \in ms : m.n >= 1 /\ \E r \in sv2 : m.slug \in r.slugs /\ m = Message(r.id, m.slug, ex2[m.slug])
      /\ \A r \in sv2, s \in Slugs : s \in r.slugs => \/ r \in sv /\ ex2[s] = ex[s]
                                                   \/ Message(r.id, s, ex2[s]) \in ms
    BY DEF Sends
<1>1. /\ w2 \in Seq(Deliveries) /\ Len(w) \in Nat /\ Len(w2) \in Nat /\ Len(w) <= Len(w2)
      /\ \A j \in 1..Len(w) : j \in 1..Len(w2) /\ w2[j] = w[j]
      /\ \A j \in 1..Len(w2) : j \in 1..Len(w) \/ (Len(w) < j /\ w2[j] \in ms)
      /\ \A m \in ms : \E k \in 1..Len(w2) : Len(w) < k /\ w2[k] = m
    <2>1. Longer(w, ms, w2)
        BY Behind
    <2> HIDE DEF w2
    <2> QED
        BY ONLY <2>1 DEF Longer
<1> HIDE DEF w2
<1>2. ASSUME NEW m \in ms
      PROVE  /\ m.n >= 1 /\ m.slug \in Slugs /\ m.n = ex2[m.slug] /\ m.n \in Nat
             /\ \E r \in sv2 : m.slug \in r.slugs /\ m.id = r.id /\ m = Message(r.id, m.slug, ex2[m.slug])
    <2>1. PICK r \in sv2 : m.slug \in r.slugs /\ m = Message(r.id, m.slug, ex2[m.slug])
        BY <1>0
    <2>2. m.id = r.id /\ m.n = ex2[m.slug]
        BY <2>1, DeliveryIs
    <2>3. m \in Deliveries
        OBVIOUS
    <2>4. m.slug \in Slugs /\ m.n \in Nat
        BY <2>3 DEF Deliveries
    <2> QED
        BY <1>0, <2>1, <2>2, <2>4
<1>3. \A j \in 1..Len(w) : w[j] \in Deliveries /\ w[j].slug \in Slugs /\ w[j].n \in Nat
    <2>1. \A j \in 1..Len(w) : w[j] \in Deliveries
        OBVIOUS
    <2> QED
        BY <2>1 DEF Deliveries
<1>4. ASSUME NEW j \in 1..Len(w2) PROVE w2[j].n <= ex2[w2[j].slug] /\ w2[j].n >= 1
    <2>1. CASE j \in 1..Len(w)
        <3>1. w2[j] = w[j] /\ w[j].n <= ex[w[j].slug] /\ w[j].n >= 1 /\ w[j].slug \in Slugs /\ w[j].n \in Nat
            BY <1>1, <1>3, <2>1 DEF TellsOf
        <3>2. ex[w[j].slug] <= ex2[w[j].slug] /\ ex[w[j].slug] \in Nat /\ ex2[w[j].slug] \in Nat
            BY <1>0, <3>1
        <3> QED
            BY <3>1, <3>2
    <2>2. CASE w2[j] \in ms
        BY <1>2, <2>2
    <2> QED
        BY <1>1, <2>1, <2>2
<1>5. ASSUME NEW j \in 1..Len(w2), NEW r \in sv2 \cup sb, w2[j].id = r.id PROVE w2[j].slug \in r.slugs
    <2>1. CASE j \in 1..Len(w)
        <3>1. r \in sv \cup sb
            BY <1>0, <1>1, <1>5, <2>1
        <3> QED
            BY <1>1, <1>5, <2>1, <3>1 DEF TellsOf
    <2>2. CASE w2[j] \in ms
        <3>1. PICK q \in sv2 : w2[j].slug \in q.slugs /\ w2[j].id = q.id
            BY <1>2, <2>2
        <3>2. q = r
            BY <1>0, <1>5, <3>1
        <3> QED
            BY <3>1, <3>2
    <2> QED
        BY <1>1, <2>1, <2>2
<1>6. ASSUME NEW r \in sv2, NEW t \in Slugs, NEW j \in 1..Len(w2), w2[j].id = r.id, w2[j].slug = t
      PROVE  \E k \in j..Len(w2) : w2[k] = Message(r.id, t, ex2[t])
    <2>1. t \in r.slugs
        BY <1>5, <1>6
    <2>2. CASE w2[j] \in ms
        <3>1. w2[j] = Message(r.id, t, ex2[t])
            BY <1>2, <1>6, <2>2
        <3>2. j \in j..Len(w2)
            BY <1>1
        <3> QED
            BY <3>1, <3>2
    <2>3. CASE j \in 1..Len(w) /\ Message(r.id, t, ex2[t]) \in ms
        <3>1. PICK k \in 1..Len(w2) : Len(w) < k /\ w2[k] = Message(r.id, t, ex2[t])
            BY <1>1, <2>3
        <3>2. k \in j..Len(w2)
            BY <1>1, <2>3, <3>1
        <3> QED
            BY <3>1, <3>2
    <2>4. CASE j \in 1..Len(w) /\ r \in sv /\ ex2[t] = ex[t]
        <3>1. PICK k \in j..Len(w) : w[k] = Message(r.id, t, ex[t])
            BY <1>1, <1>6, <2>4, SMTT(20) DEF TellsOf
        <3>2. k \in 1..Len(w) /\ k \in j..Len(w2)
            BY <1>1, <2>4, <3>1
        <3> QED
            BY <1>1, <2>4, <3>1, <3>2
    <2> QED
        BY <1>0, <1>1, <2>1, <2>2, <2>3, <2>4
<1>7. TellsOf(ex2, sv2, sb, w2)
    <2>1. \A j \in 1..Len(w2) : /\ w2[j].n <= ex2[w2[j].slug] /\ w2[j].n >= 1
                                /\ \A r \in sv2 \cup sb : w2[j].id = r.id => w2[j].slug \in r.slugs
        BY ONLY <1>4, <1>5
    <2>2. \A r \in sv2, t \in Slugs, j \in 1..Len(w2) : w2[j].id = r.id /\ w2[j].slug = t =>
              \E k \in j..Len(w2) : w2[k] = Message(r.id, t, ex2[t])
        BY ONLY <1>6
    <2> QED
        BY ONLY <2>1, <2>2 DEF TellsOf
<1>8. ASSUME NEW j \in 1..Len(w2)
      PROVE  (\E i \in 1..Len(w) : w2[j].id = w[i].id) \/ \E q \in sv2 : w2[j].id = q.id
    <2>1. CASE j \in 1..Len(w)
        BY <1>1, <2>1
    <2>2. CASE w2[j] \in ms
        <3>1. \E r \in sv2 : w2[j].id = r.id
            BY <1>2, <2>2
        <3> QED
            BY ONLY <3>1
    <2> QED
        BY <1>1, <2>1, <2>2
<1>9. ASSUME NEW c, NEW gs, NEW rd, NEW bk, RightOf(c, gs, rd, bk, ex, sv, sb, w)
      PROVE  RightOf(c, gs, rd, bk, ex2, sv2, sb, w2)
    <2> SUFFICES ASSUME NEW r \in sv2 \cap sb, NEW t \in Slugs, t \in r.slugs,
                        <<c, t>> \notin gs, ~(t \in rd /\ bk[t] = ex2[t])
                 PROVE  \E k \in 1..Len(w2) : w2[k] = Message(r.id, t, ex2[t])
        BY DEF RightOf
    <2>1. CASE Message(r.id, t, ex2[t]) \in ms
        BY <1>1, <2>1
    <2>2. CASE r \in sv /\ ex2[t] = ex[t]
        <3>1. PICK k \in 1..Len(w) : w[k] = Message(r.id, t, ex[t])
            BY <1>9, <2>2 DEF RightOf
        <3> QED
            BY <1>1, <2>2, <3>1
    <2> QED
        BY <1>0, <2>1, <2>2
<1>10. Told(ex, ex2, sv, sv2, sb, w, w2)
    BY ONLY <1>1, <1>7, <1>8, <1>9 DEF Told
<1> QED
    BY <1>10 DEF w2

\* Subscriptions go, or one is made that nothing on its way is of.
LEMMA TellFewer ==
    ASSUME NEW ex, NEW sv, NEW sb, NEW w, TellsOf(ex, sv, sb, w), NEW sv2, sv2 \subseteq sv, NEW sb2, sb2 \subseteq sb
    PROVE  /\ TellsOf(ex, sv2, sb2, w)
           /\ \A c, gs, rd, bk : RightOf(c, gs, rd, bk, ex, sv, sb, w) => RightOf(c, gs, rd, bk, ex, sv2, sb2, w)
<1>1. TellsOf(ex, sv2, sb2, w)
    BY DEF TellsOf
<1>2. \A c, gs, rd, bk : RightOf(c, gs, rd, bk, ex, sv, sb, w) => RightOf(c, gs, rd, bk, ex, sv2, sb2, w)
    BY DEF RightOf
<1> QED
    BY <1>1, <1>2

LEMMA TellMore ==
    ASSUME NEW ex, NEW sv, NEW sb, NEW w, TellsOf(ex, sv, sb, w), NEW r, r \notin sv,
           \A j \in 1..Len(w) : w[j].id # r.id, NEW sb2, sb2 = sb \cup {r}
    PROVE  /\ TellsOf(ex, sv, sb2, w)
           /\ \A c, gs, rd, bk : RightOf(c, gs, rd, bk, ex, sv, sb, w) => RightOf(c, gs, rd, bk, ex, sv, sb2, w)
<1>1. TellsOf(ex, sv, sb2, w)
    BY DEF TellsOf
<1>2. \A c, gs, rd, bk : RightOf(c, gs, rd, bk, ex, sv, sb, w) => RightOf(c, gs, rd, bk, ex, sv, sb2, w)
    BY DEF RightOf
<1> QED
    BY <1>1, <1>2

\* The first message is handled: it may be the last there is of its market.
LEMMA TellTail ==
    ASSUME NEW ex, NEW sv, NEW sb, NEW w \in Seq(Deliveries), w # <<>>, TellsOf(ex, sv, sb, w)
    PROVE  /\ Tail(w) \in Seq(Deliveries) /\ TellsOf(ex, sv, sb, Tail(w))
           /\ \A j \in 1..Len(Tail(w)) : \E i \in 1..Len(w) : Tail(w)[j].id = w[i].id
           /\ Len(w) \in Nat \ {0} /\ 1 \in 1..Len(w)
           /\ \A k \in 1..Len(w) : k = 1 \/ \E j \in 1..Len(Tail(w)) : Tail(w)[j] = w[k]
<1> DEFINE t == Tail(w)
<1>1. /\ t \in Seq(Deliveries) /\ Len(w) \in Nat \ {0} /\ Len(t) = Len(w) - 1 /\ 1 \in 1..Len(w)
      /\ \A j \in 1..Len(t) : t[j] = w[j + 1] /\ j + 1 \in 1..Len(w)
    OBVIOUS
<1> HIDE DEF t
<1>2. \A j \in 1..Len(t) : /\ t[j].n <= ex[t[j].slug] /\ t[j].n >= 1
                           /\ \A r \in sv \cup sb : t[j].id = r.id => t[j].slug \in r.slugs
    BY <1>1 DEF TellsOf
<1>3. ASSUME NEW r \in sv, NEW s \in Slugs, NEW j \in 1..Len(t), t[j].id = r.id, t[j].slug = s
      PROVE  \E k \in j..Len(t) : t[k] = Message(r.id, s, ex[s])
    <2>1. PICK k \in (j + 1)..Len(w) : w[k] = Message(r.id, s, ex[s])
        BY <1>1, <1>3 DEF TellsOf
    <2>2. k - 1 \in j..Len(t) /\ k - 1 \in 1..Len(t) /\ (k - 1) + 1 = k
        BY <1>1, <2>1
    <2>3. t[k - 1] = w[k]
        BY <1>1, <2>2
    <2> QED
        BY <2>1, <2>2, <2>3
<1>4. TellsOf(ex, sv, sb, t)
    BY <1>2, <1>3 DEF TellsOf
<1>5. \A k \in 1..Len(w) : k = 1 \/ (k - 1 \in 1..Len(t) /\ t[k - 1] = w[k])
    <2> SUFFICES ASSUME NEW k \in 1..Len(w), k # 1 PROVE k - 1 \in 1..Len(t) /\ t[k - 1] = w[k]
        OBVIOUS
    <2>1. k - 1 \in 1..Len(t) /\ (k - 1) + 1 = k
        BY <1>1
    <2>2. t[k - 1] = w[(k - 1) + 1]
        BY <1>1, <2>1
    <2> QED
        BY <2>1, <2>2
<1> QED
    BY <1>1, <1>4, <1>5 DEF t

Apart(sb) == \A r, q \in sb : r # q => r.slugs \cap q.slugs = {}

\* The first of the messages w comes from one of the subscriptions sb, is of a market
\* that is wanted, too, and is no older than its book.
Known(sb, w) == \E r \in sb : r.id = w[1].id
Ours(sb, wn, w) == Known(sb, w) /\ w[1].slug \in wn
Newer(sb, wn, rd, bk, w) == Ours(sb, wn, w) /\ ~(w[1].slug \in rd /\ w[1].n < bk[w[1].slug])

\* What then becomes of the books.
Handled(c, sb, wn, w, gs, rd, bk, gs2, rd2, bk2) ==
    /\ bk2 = IF Newer(sb, wn, rd, bk, w) THEN [bk EXCEPT ![w[1].slug] = w[1].n] ELSE bk
    /\ rd2 = IF Newer(sb, wn, rd, bk, w) THEN rd \cup {w[1].slug} ELSE rd
    /\ gs2 = IF Ours(sb, wn, w) THEN gs \ {<<c, w[1].slug>>}
             ELSE IF Known(sb, w) THEN gs \cup {<<c, w[1].slug>>} ELSE gs

\* Books bk, those in rd up, are none that the exchange hasn't had.
Below(rd, bk, ex) == /\ bk \in [Slugs -> Nat] /\ \A s \in Slugs : bk[s] <= ex[s]
                     /\ rd \subseteq {s \in Slugs : bk[s] # 0}

LEMMA RightHead ==
    ASSUME NEW c, NEW gs, NEW rd, NEW bk, NEW ex \in [Slugs -> Nat], Below(rd, bk, ex),
           NEW sv, NEW sb, NEW wn, NEW w \in Seq(Deliveries), w # <<>>, TellsOf(ex, sv, sb, w), Apart(sb),
           NEW gs2, NEW rd2, NEW bk2, Handled(c, sb, wn, w, gs, rd, bk, gs2, rd2, bk2)
    PROVE  /\ Below(rd2, bk2, ex)
           /\ RightOf(c, gs, rd, bk, ex, sv, sb, w) => RightOf(c, gs2, rd2, bk2, ex, sv, sb, Tail(w))
           /\ \A d, svd, sbd, wd : d # c /\ RightOf(d, gs, rd, bk, ex, svd, sbd, wd)
                                   => RightOf(d, gs2, rd2, bk2, ex, svd, sbd, wd)
<1> DEFINE known == Known(sb, w)
           ours == Ours(sb, wn, w)
           up == Newer(sb, wn, rd, bk, w)
<1>0. /\ known <=> \E r \in sb : r.id = w[1].id
      /\ ours => known
      /\ (known /\ w[1].slug \in wn) <=> ours
      /\ up <=> ours /\ ~(w[1].slug \in rd /\ w[1].n < bk[w[1].slug])
      /\ bk2 = IF up THEN [bk EXCEPT ![w[1].slug] = w[1].n] ELSE bk
      /\ rd2 = IF up THEN rd \cup {w[1].slug} ELSE rd
      /\ gs2 = IF ours THEN gs \ {<<c, w[1].slug>>} ELSE IF known THEN gs \cup {<<c, w[1].slug>>} ELSE gs
      /\ bk \in [Slugs -> Nat] /\ \A s \in Slugs : bk[s] <= ex[s]
      /\ rd \subseteq {s \in Slugs : bk[s] # 0}
    BY DEF Handled, Known, Ours, Newer, Below
<1> HIDE DEF known, ours, up
<1> DEFINE m == w[1]
           t == Tail(w)
<1>1. 1 \in 1..Len(w) /\ \A k \in 1..Len(w) : k = 1 \/ \E j \in 1..Len(t) : t[j] = w[k]
    BY TellTail
<1>2. m.slug \in Slugs /\ m.n \in Nat /\ m.n <= ex[m.slug] /\ m.n >= 1
    <2>1. m \in Deliveries
        BY <1>1
    <2>2. m.n <= ex[m.slug] /\ m.n >= 1
        BY <1>1 DEF TellsOf
    <2> QED
        BY <2>1, <2>2 DEF Deliveries
<1> HIDE DEF m, t
<1>3. bk2 \in [Slugs -> Nat] /\ \A s \in Slugs : bk2[s] <= ex[s]
    BY <1>0, <1>2 DEF m
<1>4. rd2 \subseteq {s \in Slugs : bk2[s] # 0}
    BY <1>0, <1>2 DEF m
\* A book that was right stays so: no older one takes its place.
<1>5. ASSUME NEW s \in Slugs, s \in rd, bk[s] = ex[s] PROVE s \in rd2 /\ bk2[s] = ex[s]
    <2>1. CASE up /\ s = m.slug
        <3>1. ~(m.n < bk[m.slug])
            BY <1>0, <1>5, <2>1 DEF m
        <3>2. m.n = ex[s] /\ bk2[s] = m.n /\ s \in rd2
            BY <1>0, <1>2, <1>5, <2>1, <3>1 DEF m
        <3> QED
            BY <3>2
    <2>2. CASE ~up \/ s # m.slug
        BY <1>0, <1>5, <2>2 DEF m
    <2> QED
        BY <2>1, <2>2
<1>6. ASSUME RightOf(c, gs, rd, bk, ex, sv, sb, w) PROVE RightOf(c, gs2, rd2, bk2, ex, sv, sb, t)
    <2> SUFFICES ASSUME NEW r \in sv \cap sb, NEW s \in Slugs, s \in r.slugs, <<c, s>> \notin gs2, ~(s \in rd2 /\ bk2[s] = ex[s])
                 PROVE  \E j \in 1..Len(t) : t[j] = Message(r.id, s, ex[s])
        BY DEF RightOf
    \* If the message is the newest of the market, its book is up now;
    <2>1. CASE m = Message(r.id, s, ex[s])
        <3>1. m.slug = s /\ m.n = ex[s] /\ m.id = r.id
            BY <2>1, DeliveryIs
        <3>2. ours
            BY <1>0, <3>1 DEF m
        <3>3. bk[s] <= m.n /\ bk[s] \in Nat
            BY <1>0, <1>2, <3>1
        <3>4. up
            BY <1>0, <3>1, <3>2, <3>3, <1>2 DEF m
        <3>5. s \in rd2 /\ bk2[s] = ex[s]
            BY <1>0, <3>1, <3>4 DEF m
        <3> QED
            BY <3>5
    \* otherwise the newest is behind it.
    <2>2. CASE m # Message(r.id, s, ex[s])
        <3>1. \E k \in 1..Len(w) : w[k] = Message(r.id, s, ex[s])
            <4>1. CASE <<c, s>> \notin gs
                BY <1>5, <1>6, <4>1 DEF RightOf
            <4>2. CASE <<c, s>> \in gs
                <5>1. ours /\ s = m.slug
                    BY <1>0, <4>2 DEF m
                <5>2. PICK q \in sb : q.id = m.id
                    BY <1>0, <5>1 DEF m
                <5>3. m.slug \in q.slugs
                    BY <1>1, <5>2 DEF TellsOf, m
                <5>4. q = r
                    BY <5>1, <5>3 DEF Apart
                <5>5. \E k \in 1..Len(w) : w[k] = Message(r.id, s, ex[s])
                    BY <1>1, <5>1, <5>2, <5>4 DEF TellsOf, m
                <5> QED
                    BY <5>5
            <4> QED
                BY <4>1, <4>2
        <3> QED
            BY <1>1, <2>2, <3>1 DEF m
    <2> QED
        BY <2>1, <2>2
<1>7. ASSUME NEW d, NEW svd, NEW sbd, NEW wd, d # c, RightOf(d, gs, rd, bk, ex, svd, sbd, wd)
      PROVE  RightOf(d, gs2, rd2, bk2, ex, svd, sbd, wd)
    <2>1. \A s : <<d, s>> \in gs => <<d, s>> \in gs2
        BY <1>0, <1>7
    <2> QED
        BY <1>5, <1>7, <2>1 DEF RightOf
<1> QED
    BY <1>3, <1>4, <1>6, <1>7 DEF t, Below

-----------------------------------------------------------------------------
(* A _sync *)

\* The next subscription: what is left takes one less.
Packs(l, ln, sb, wn, ch, todo, ts, r, sb2, sy2, ln2) ==
    /\ l \in Limits /\ ln \in {"opening", "up"} /\ sb \in SUBSET Grants /\ IsFiniteSet(sb) /\ Apart(sb)
    /\ todo \in SUBSET Slugs /\ todo \cap Covers(sb) = {}
    /\ Cardinality(sb) + Chunks(l, Cardinality(todo)) <= l.subs
    /\ ~ch => Covers(sb) \cup todo = wn
    /\ ts \in SUBSET todo /\ (Cardinality(ts) = l.chunk \/ (ts = todo /\ Cardinality(ts) < l.chunk))
    /\ r.slugs = ts
    /\ sb2 = IF ts = {} THEN sb ELSE sb \cup {r}
    /\ sy2 = IF ts = todo THEN PM!Idle ELSE [at |-> "add", todo |-> todo \ ts]
    /\ ln2 = IF ts = todo THEN "up" ELSE ln

LEMMA LineAdd ==
    ASSUME NEW l, NEW ln, NEW sb, NEW wn, NEW ch, NEW todo, NEW ts, NEW r, NEW sb2, NEW sy2, NEW ln2,
           Packs(l, ln, sb, wn, ch, todo, ts, r, sb2, sy2, ln2)
    PROVE  /\ LineOf(l, ln2, sy2, sb2, wn, ch) /\ sy2 \in Syncs /\ IsFiniteSet(sb2)
           /\ Cardinality(ts) <= l.chunk /\ (ts # {} => Cardinality(sb2) <= l.subs)
<1> l \in Limits /\ ln \in {"opening", "up"} /\ sb \in SUBSET Grants /\ IsFiniteSet(sb) /\ Apart(sb)
    BY DEF Packs
<1> todo \in SUBSET Slugs /\ todo \cap Covers(sb) = {}
    BY DEF Packs
<1> Cardinality(sb) + Chunks(l, Cardinality(todo)) <= l.subs
    BY DEF Packs
<1> ~ch => Covers(sb) \cup todo = wn
    BY DEF Packs
<1> ts \in SUBSET todo /\ (Cardinality(ts) = l.chunk \/ (ts = todo /\ Cardinality(ts) < l.chunk))
    BY DEF Packs
<1> r.slugs = ts
    BY DEF Packs
<1> sb2 = IF ts = {} THEN sb ELSE sb \cup {r}
    BY DEF Packs
<1> sy2 = IF ts = todo THEN PM!Idle ELSE [at |-> "add", todo |-> todo \ ts]
    BY DEF Packs
<1> ln2 = IF ts = todo THEN "up" ELSE ln
    BY DEF Packs
<1> DEFINE n == Cardinality(todo)
           k == Cardinality(ts)
           b == Cardinality(sb)
           left == Cardinality(todo \ ts)
<1>1. /\ l.chunk \in Nat \ {0} /\ l.subs \in Nat
      /\ IsFiniteSet(todo) /\ IsFiniteSet(ts) /\ IsFiniteSet(todo \ ts)
    BY StreamConstants, FS_Subset
<1>2. n \in Nat /\ k \in Nat /\ b \in Nat /\ left \in Nat
    BY <1>1, FS_CardinalityType
<1>3. left = n - k
    <2>1. todo \cap ts = ts
        OBVIOUS
    <2> QED
        BY <1>1, <2>1, FS_Difference
<1>4. ts = {} => k = 0
    BY FS_EmptySet
<1>5. ts # {} => k > 0
    BY <1>1, <1>2, FS_EmptySet
<1>6. ts = {} => ts = todo
    BY <1>1, <1>4
<1>7. k <= n
    BY <1>2, <1>3
<1> HIDE DEF n, k, b, left
<1>8. Chunks(l, n) \in Nat /\ (n > 0 => Chunks(l, n) >= 1) /\ (n >= l.chunk => Chunks(l, n) = Chunks(l, n - l.chunk) + 1)
    BY <1>2, ChunksOf
<1>9. b + Chunks(l, n) <= l.subs
    BY DEF b, n
<1>10. ts # todo => k = l.chunk
    BY DEF k
<1>11. k <= l.chunk
    <2>1. ts = todo => k = n
        BY DEF k, n
    <2>2. k = l.chunk \/ (ts = todo /\ k < l.chunk)
        BY DEF k
    <2> QED
        BY <1>1, <1>2, <2>2
<1>12. ASSUME ts # {} PROVE r \notin sb /\ IsFiniteSet(sb2) /\ Cardinality(sb2) = b + 1 /\ b + 1 <= l.subs
    <2>1. r \notin sb
        BY <1>12 DEF Covers
    <2>2. sb2 = sb \cup {r}
        BY <1>12
    <2>3. IsFiniteSet(sb2) /\ Cardinality(sb2) = b + 1
        <3>1. IsFiniteSet(sb \cup {r}) /\ Cardinality(sb \cup {r}) = Cardinality(sb) + 1
            BY ONLY IsFiniteSet(sb), <2>1, FS_AddElement
        <3> QED
            BY <2>2, <3>1 DEF b
    <2>4. Chunks(l, n) >= 1
        BY <1>2, <1>5, <1>7, <1>8, <1>12
    <2> QED
        BY <1>1, <1>2, <1>8, <1>9, <2>1, <2>3, <2>4
<1>13. IsFiniteSet(sb2)
    BY <1>12
<1>14. Apart(sb2)
    <2>1. \A q \in sb : q.slugs \subseteq Covers(sb)
        BY DEF Covers
    <2>2. \A q \in sb : q.slugs \cap r.slugs = {}
        BY <2>1
    <2> QED
        BY <2>2 DEF Apart
<1>15. Covers(sb2) = Covers(sb) \cup ts
    <2>1. CASE ts = {}
        BY <2>1
    <2>2. CASE ts # {}
        BY <2>2 DEF Covers
    <2> QED
        BY <2>1, <2>2
<1>16. CASE ts = todo
    <2>1. sy2 = [at |-> "idle", todo |-> {}] /\ ln2 = "up"
        BY <1>16 DEF PM!Idle
    <2>2. sy2.at = "idle"
        BY <2>1
    <2>3. sy2 \in Syncs
        BY <2>1 DEF Syncs
    <2>4. ~ch => Covers(sb2) = wn
        BY <1>15, <1>16
    <2>5. LineOf(l, ln2, sy2, sb2, wn, ch)
        BY ONLY <1>14, <2>1, <2>2, <2>4 DEF LineOf, Apart
    <2> QED
        BY <1>11, <1>12, <1>13, <2>3, <2>5 DEF k
<1>17. CASE ts # todo
    <2>0. ts # {}
        BY <1>6, <1>17
    <2>1. sy2 = [at |-> "add", todo |-> todo \ ts] /\ ln2 = ln
        BY <1>17
    <2>2. sy2.at = "add" /\ sy2.todo = todo \ ts
        BY <2>1
    <2>3. sy2 \in Syncs
        BY <2>1 DEF Syncs
    <2>4. ~ch => Covers(sb2) \cup (todo \ ts) = wn
        BY <1>15
    <2>5. (todo \ ts) \cap Covers(sb2) = {}
        BY <1>15
    <2>6. Cardinality(sb2) + Chunks(l, Cardinality(todo \ ts)) <= l.subs
        <3>1. left = n - l.chunk /\ n >= l.chunk
            BY <1>1, <1>2, <1>3, <1>7, <1>10, <1>17
        <3>2. Chunks(l, n) = Chunks(l, left) + 1
            BY <1>8, <3>1
        <3>3. Chunks(l, left) \in Nat
            BY <1>2, ChunksOf
        <3> QED
            BY <1>1, <1>2, <1>9, <1>12, <2>0, <3>2, <3>3 DEF left
    <2>7. LineOf(l, ln2, sy2, sb2, wn, ch)
        <3>1. todo \ ts \subseteq Slugs
            OBVIOUS
        <3> QED
            BY ONLY <1>14, <2>1, <2>2, <2>4, <2>5, <2>6, <3>1, ln \in {"opening", "up"} DEF LineOf, Apart
    <2> QED
        BY <1>11, <1>12, <1>13, <2>0, <2>3, <2>7 DEF k
<1> QED
    BY <1>16, <1>17

\* A subscription is dropped, of those that hold a market that isn't wanted, or of all.
LEMMA LineDrop ==
    ASSUME NEW l, NEW ln \in {"opening", "up"}, NEW sb \in SUBSET Grants, Apart(sb), NEW wn, NEW ch,
           NEW todo \in SUBSET sb, ~ch => \A q \in sb \ todo : q.slugs \subseteq wn,
           NEW r \in sb, NEW sb2, sb2 = sb \ {r}, NEW sy2,
           sy2 = [at |-> "drop", todo |-> todo \ {r}] \/ sy2 = [at |-> "clear", todo |-> {}]
    PROVE  LineOf(l, ln, sy2, sb2, wn, ch) /\ sy2 \in Syncs
<1>1. Apart(sb2) /\ sb \ {r} \subseteq sb
    BY DEF Apart
<1>2. CASE sy2 = [at |-> "drop", todo |-> todo \ {r}]
    <2>1. sy2.at = "drop" /\ sy2.todo = todo \ {r}
        BY <1>2
    <2>2. sy2.todo \subseteq sb2 /\ (~ch => \A q \in sb2 \ sy2.todo : q.slugs \subseteq wn)
        BY <2>1
    <2>3. sy2 \in Syncs
        BY <1>2 DEF Syncs
    <2> QED
        BY <1>1, <2>1, <2>2, <2>3 DEF LineOf, Apart
<1>3. CASE sy2 = [at |-> "clear", todo |-> {}]
    <2>1. sy2.at = "clear"
        BY <1>3
    <2>2. sy2 \in Syncs
        BY <1>3 DEF Syncs
    <2> QED
        BY <1>1, <2>1, <2>2 DEF LineOf, Apart
<1> QED
    BY <1>2, <1>3

-----------------------------------------------------------------------------
(* PMFeed.set_markets *)

\* Differently numbered elements are no more than the numbers.
LEMMA CountedBy ==
    ASSUME NEW S, IsFiniteSet(S), NEW n \in Nat, NEW f, \A x \in S : f[x] \in 0..(n - 1),
           \A x, y \in S : f[x] = f[y] => x = y
    PROVE  Cardinality(S) <= n
<1> DEFINE T == 0..(n - 1)
           g == [x \in S |-> f[x]]
<1>1. IsFiniteSet(T) /\ Cardinality(T) <= n /\ Cardinality(T) \in Nat
    <2>1. CASE n = 0
        <3>1. T = {}
            BY <2>1
        <3> QED
            BY <2>1, <3>1, FS_EmptySet
    <2>2. CASE n # 0
        <3>1. IsFiniteSet(0..(n - 1)) /\ Cardinality(0..(n - 1)) = IF 0 > n - 1 THEN 0 ELSE (n - 1) - 0 + 1
            BY FS_Interval
        <3> QED
            BY <2>2, <3>1
    <2> QED
        BY <2>1, <2>2
<1>2. g \in [S -> T] /\ \A x, y \in S : g[x] = g[y] => x = y
    OBVIOUS
<1> HIDE DEF g, T
<1>3. ~(Cardinality(S) > Cardinality(T))
    BY <1>1, <1>2, FS_PigeonHole
<1>4. Cardinality(S) \in Nat
    BY FS_CardinalityType
<1> QED
    BY <1>1, <1>3, <1>4

\* A connection's part of the new markets takes the ranks from SpaceBefore(c) on, as many as it
\* has space for: no other connection's, and no more than fit.
LEMMA RoomForAll ==
    ASSUME FTypes, Wanted, NEW new \in SUBSET limit.slugs
    PROVE  /\ \A c \in Conns : PM!Assigned(c, new) \in SUBSET Slugs
           /\ \A c \in Conns : Cardinality(PM!Assigned(c, new)) <= limit.chunk * limit.subs
           /\ \A c, d \in Conns : c # d => PM!Assigned(c, new) \cap PM!Assigned(d, new) = {}
<1> DEFINE room == limit.chunk * limit.subs
           news == PM!NewOf(new)
           kept(c) == wants[c] \cap new
           f == PM!Spaces(new)
           before(c) == SumFunctionOnSet(f, 1..(c - 1))
           rank == [s \in news |-> Cardinality({t \in news : t < s})]
           Part(c) == {s \in news : rank[s] - before(c) \in 0..(f[c] - 1)}
<1>1. new \subseteq Slugs /\ Slugs \subseteq Nat /\ room \in Nat /\ \A c \in Conns : wants[c] \in SUBSET Slugs
    <2>1. limit.chunk \in Nat /\ limit.subs \in Nat /\ limit.slugs \subseteq Slugs
        BY StreamConstants DEF FTypes
    <2>2. \A a, b \in Nat : a * b \in Nat
        OBVIOUS
    <2> QED
        BY <2>1, <2>2, StreamConstants DEF FTypes
<1>2. news = new \ UNION {wants[c] : c \in Conns}
    BY DEF PM!NewOf
<1>3. news \subseteq Slugs /\ news \subseteq Nat /\ IsFiniteSet(news)
    BY <1>1, <1>2, StreamConstants, FS_Subset
<1>4. \A c \in Conns : f[c] = room - Cardinality(kept(c))
    BY StreamSame DEF PM!Spaces, PM!Space, PM!Room
<1>5. \A c \in Conns : PM!Assigned(c, new) = kept(c) \cup Part(c)
    <2>1. ASSUME NEW c \in Conns PROVE PM!Assigned(c, new) = kept(c) \cup Part(c)
        <3>1. \A s \in news : rank[s] = PM!Rank(s, new)
            BY StreamSame DEF PM!Rank
        <3>2. before(c) = PM!SpaceBefore(c, new)
            BY StreamSame DEF PM!SpaceBefore
        <3>3. f[c] = PM!Space(c, new)
            BY DEF PM!Spaces
        <3> HIDE DEF rank, before, f, news
        <3> QED
            BY <3>1, <3>2, <3>3 DEF PM!Assigned, news
    <2> QED
        BY <2>1
<1>6. \A c \in Conns : IsFiniteSet(kept(c)) /\ Cardinality(kept(c)) \in Nat /\ f[c] \in Nat
    <2>1. ASSUME NEW c \in Conns PROVE IsFiniteSet(kept(c)) /\ Cardinality(kept(c)) \in Nat /\ f[c] \in Nat
        <3>1. IsFiniteSet(wants[c])
            BY <1>1, StreamConstants, FS_Subset
        <3>2. IsFiniteSet(kept(c)) /\ Cardinality(kept(c)) <= Cardinality(wants[c])
            BY <3>1, FS_Subset
        <3>3. Cardinality(wants[c]) \in Nat /\ Cardinality(kept(c)) \in Nat
            BY <3>1, <3>2, FS_CardinalityType
        <3>4. Cardinality(wants[c]) <= room
            BY DEF Wanted
        <3> HIDE DEF room, kept, f
        <3> QED
            BY <1>1, <1>4, <3>2, <3>3, <3>4
    <2> QED
        BY <2>1
<1>7. \A s, t \in news : s < t => rank[s] < rank[t]
    <2> SUFFICES ASSUME NEW s \in news, NEW t \in news, s < t
                 PROVE  Cardinality({u \in news : u < s}) < Cardinality({u \in news : u < t})
        OBVIOUS
    <2> DEFINE S == {u \in news : u < s}
               T == {u \in news : u < t}
    <2>1. S \in SUBSET T /\ s \in T /\ s \notin S /\ T \subseteq news
        BY <1>3
    <2> HIDE DEF S, T, news
    <2>2. IsFiniteSet(T)
        BY <1>3, <2>1, FS_Subset
    <2>3. Cardinality(S) <= Cardinality(T) /\ Cardinality(S) # Cardinality(T) /\ IsFiniteSet(S)
        BY <2>1, <2>2, FS_Subset
    <2>4. Cardinality(S) \in Nat /\ Cardinality(T) \in Nat
        BY <2>2, <2>3, FS_CardinalityType
    <2>5. Cardinality(S) < Cardinality(T)
        BY <2>3, <2>4
    <2> QED
        BY <2>5 DEF S, T
<1>8. \A s \in news : rank[s] \in Nat
    <2>1. ASSUME NEW s \in news PROVE Cardinality({t \in news : t < s}) \in Nat
        <3>1. IsFiniteSet({t \in news : t < s})
            BY <1>3, FS_Subset
        <3> QED
            BY <3>1, FS_CardinalityType
    <2> QED
        BY <2>1
<1> HIDE DEF rank
<1>9. \A s, t \in news : rank[s] = rank[t] => s = t
    <2>1. \A s, t \in news : s \in Nat /\ t \in Nat /\ rank[s] \in Nat /\ rank[t] \in Nat
        BY <1>3, <1>8
    <2> QED
        BY <1>7, <2>1
<1> HIDE DEF news, f
<1>10. \A c, d \in Conns : c < d => before(c) + f[c] <= before(d)
    <2> SUFFICES ASSUME NEW c \in Conns, NEW d \in Conns, c < d PROVE before(c) + f[c] <= before(d)
        OBVIOUS
    <2> DEFINE S == 1..(d - 1)
               R == 1..(c - 1)
    <2>1. S \subseteq Conns /\ c \in Nat /\ d \in Nat /\ c >= 1
        BY StreamConstants
    <2>2. R \in SUBSET S /\ c \in S \ R
        BY <2>1
    <2>3. IsFiniteSet(S)
        BY <2>1, FS_Interval
    <2>4. \A x \in S : f[x] \in Nat
        BY <1>6, <2>1
    <2> HIDE DEF S, R
    <2>5. SumFunctionOnSet(f, S) = SumFunctionOnSet(f, R) + SumFunctionOnSet(f, S \ R)
        <3>1. \A x \in S : f[x] \in Int
            BY <2>4
        <3> QED
            BY <2>2, <2>3, <3>1, SumSplit
    <2>6. IsFiniteSet(S \ R) /\ IsFiniteSet(R)
        BY <2>2, <2>3, FS_Subset
    <2>7. SumFunctionOnSet(f, S \ R) \in Nat /\ f[c] <= SumFunctionOnSet(f, S \ R)
        <3>1. \A x \in S \ R : f[x] \in Nat
            BY <2>4
        <3> QED
            BY <2>2, <2>6, <3>1, SumNat
    <2>8. SumFunctionOnSet(f, R) \in Nat
        <3>1. \A x \in R : f[x] \in Nat
            BY <2>2, <2>4
        <3> QED
            BY <2>6, <3>1, SumNat
    <2>9. before(c) = SumFunctionOnSet(f, R) /\ before(d) = SumFunctionOnSet(f, S)
        BY DEF R, S
    <2>10. f[c] \in Nat
        BY <1>6
    <2> HIDE DEF before
    <2> QED
        BY <2>5, <2>7, <2>8, <2>9, <2>10
<1>11. \A c \in Conns : before(c) \in Nat
    <2>1. ASSUME NEW c \in Conns PROVE SumFunctionOnSet(f, 1..(c - 1)) \in Nat
        <3>1. 1..(c - 1) \subseteq Conns /\ c - 1 \in Int
            BY StreamConstants
        <3>2. IsFiniteSet(1..(c - 1))
            BY <3>1, FS_Interval
        <3>3. \A x \in 1..(c - 1) : f[x] \in Nat
            BY <1>6, <3>1
        <3> QED
            BY <3>2, <3>3, SumNat
    <2> QED
        BY <2>1
<1> HIDE DEF before
<1>12. \A c, d \in Conns : c # d => Part(c) \cap Part(d) = {}
    <2>1. ASSUME NEW c \in Conns, NEW d \in Conns, c < d PROVE Part(c) \cap Part(d) = {}
        <3>1. before(c) + f[c] <= before(d) /\ before(c) \in Nat /\ before(d) \in Nat /\ f[c] \in Nat
            BY <1>6, <1>10, <1>11, <2>1
        <3>2. ASSUME NEW s \in news, rank[s] - before(c) \in 0..(f[c] - 1), rank[s] - before(d) \in 0..(f[d] - 1)
              PROVE  FALSE
            <4>1. rank[s] \in Nat /\ f[d] \in Nat
                BY <1>6, <1>8
            <4> QED
                BY <3>1, <3>2, <4>1
        <3> QED
            BY <3>2
    <2> SUFFICES ASSUME NEW c \in Conns, NEW d \in Conns, c # d PROVE Part(c) \cap Part(d) = {}
        OBVIOUS
    <2>2. c \in Nat /\ d \in Nat
        BY StreamConstants
    <2>3. c < d \/ d < c
        BY <2>2
    <2> HIDE DEF Part
    <2> QED
        BY <2>1, <2>3
<1>13. \A c \in Conns : IsFiniteSet(Part(c)) /\ Cardinality(Part(c)) <= f[c]
    <2> SUFFICES ASSUME NEW c \in Conns PROVE IsFiniteSet(Part(c)) /\ Cardinality(Part(c)) <= f[c]
        OBVIOUS
    <2> DEFINE P == Part(c)
               n == f[c]
               g == [s \in P |-> rank[s] - before(c)]
    <2>1. n \in Nat /\ IsFiniteSet(P) /\ P \subseteq news
        BY <1>3, <1>6, FS_Subset
    <2>2. \A s \in P : g[s] \in 0..(n - 1)
        OBVIOUS
    <2>3. ASSUME NEW x \in P, NEW y \in P, g[x] = g[y] PROVE x = y
        <3>1. rank[x] \in Nat /\ rank[y] \in Nat /\ before(c) \in Nat /\ rank[x] - before(c) = rank[y] - before(c)
            BY <1>8, <1>11, <2>3
        <3>2. rank[x] = rank[y]
            BY <3>1
        <3> QED
            BY <1>9, <2>1, <3>2
    <2> HIDE DEF P, g, n
    <2>4. Cardinality(P) <= n
        BY <2>1, <2>2, <2>3, CountedBy
    <2> QED
        BY <2>1, <2>4 DEF P, n
<1>14. \A c \in Conns : Part(c) \subseteq news
    OBVIOUS
<1> HIDE DEF Part, room
<1>15. \A c \in Conns : kept(c) \cap news = {} /\ kept(c) \subseteq wants[c]
    BY <1>2
<1>16. ASSUME NEW c \in Conns PROVE Cardinality(PM!Assigned(c, new)) <= room
    <2> DEFINE K == kept(c)
               P == Part(c)
    <2>0. IsFiniteSet(K) /\ IsFiniteSet(P)
        BY <1>6, <1>13
    <2>1. K \cap P = {} /\ f[c] = room - Cardinality(K) /\ Cardinality(P) <= f[c]
        BY <1>4, <1>13, <1>14, <1>15
    <2> HIDE DEF K, P
    <2>2. Cardinality(K \cup P) = Cardinality(K) + Cardinality(P)
        <3>1. Cardinality(K \cap P) = 0
            BY <2>1, FS_EmptySet
        <3>2. Cardinality(K) \in Nat /\ Cardinality(P) \in Nat
            BY <2>0, FS_CardinalityType
        <3>3. Cardinality(K \cup P) = Cardinality(K) + Cardinality(P) - Cardinality(K \cap P)
            BY <2>0, FS_Union
        <3> QED
            BY <3>1, <3>2, <3>3
    <2>3. Cardinality(K) \in Nat /\ Cardinality(P) \in Nat
        BY <2>0, FS_CardinalityType
    <2>4. Cardinality(K \cup P) <= room
        BY <1>1, <2>1, <2>2, <2>3
    <2> QED
        BY <1>5, <2>4 DEF K, P
<1>17. ASSUME NEW c \in Conns PROVE PM!Assigned(c, new) \in SUBSET Slugs
    BY <1>1, <1>3, <1>5, <1>14, <1>15
<1>18. ASSUME NEW c \in Conns, NEW d \in Conns, c # d PROVE PM!Assigned(c, new) \cap PM!Assigned(d, new) = {}
    <2>1. wants[c] \cap wants[d] = {}
        BY <1>18 DEF Wanted
    <2>2. Part(c) \cap Part(d) = {}
        BY <1>12, <1>18
    <2> QED
        BY <1>5, <1>14, <1>15, <2>1, <2>2
<1> QED
    BY <1>16, <1>17, <1>18 DEF room

-----------------------------------------------------------------------------
(* The steps of Polymarket US *)

\* What holds of one connection.
Holds(c) == Asked(c) /\ Latest(c) /\ Line(c) /\ Right(c)

LEMMA Connection ==
    ASSUME FTypes, NEW c \in Conns
    PROVE  /\ limit \in Limits /\ exch \in [Slugs -> Nat]
           /\ streams[c] \in SUBSET Grants /\ requests[c] \in SUBSET Grants
           /\ IsFiniteSet(streams[c]) /\ IsFiniteSet(requests[c])
           /\ asks[c] \in Seq(Orders) /\ told[c] \in Seq(Deliveries)
           /\ wants[c] \in SUBSET Slugs /\ altered[c] \in BOOLEAN /\ syncs[c] \in Syncs
           /\ links[c] \in {"new", "down", "opening", "up"}
    BY DEF FTypes

LEMMA ChangeStep ==
    ASSUME FInv, NEW s \in limit.slugs, PM!Change(s)
    PROVE  FInv'
<1>1. /\ s \in Slugs /\ limit.books \in Nat /\ limit \in Limits
      /\ exch \in [Slugs -> Nat] /\ exch[s] < limit.books /\ exch[s] >= 1
    <2>1. limit \in Limits /\ exch \in [Slugs -> 1..limit.books] /\ exch[s] < limit.books
        BY DEF FInv, FTypes, PM!Change
    <2>2. limit.books \in Nat /\ limit.slugs \subseteq Slugs
        BY <2>1, StreamConstants
    <2>3. s \in Slugs
        BY <2>2
    <2>4. exch \in [Slugs -> Nat] /\ exch[s] >= 1
        BY <2>1, <2>2, <2>3
    <2> QED
        BY <2>1, <2>2, <2>3, <2>4
<1>2. /\ exch' = [exch EXCEPT ![s] = exch[s] + 1]
      /\ told' = [c \in Conns |-> told[c] \o PM!Streamed(c, s, exch'[s])]
      /\ limit' = limit /\ links' = links /\ streams' = streams /\ asks' = asks /\ wants' = wants /\ altered' = altered
      /\ owned' = owned /\ requests' = requests /\ syncs' = syncs /\ books' = books /\ ready' = ready /\ missed' = missed
    BY DEF PM!Change
<1>3. /\ exch' \in [Slugs -> 1..limit.books] /\ exch' \in [Slugs -> Nat] /\ exch'[s] = exch[s] + 1
      /\ \A t \in Slugs : exch[t] <= exch'[t] /\ (t # s => exch'[t] = exch[t])
    <2>1. exch \in [Slugs -> 1..limit.books]
        BY DEF FInv, FTypes
    <2> QED
        BY <1>1, <1>2, <2>1
<1>4. ASSUME NEW c \in Conns PROVE told'[c] \in Seq(Deliveries) /\ Holds(c)'
    <2> DEFINE in == {x \in streams[c] : s \in x.slugs}
               ms == {Message(r.id, s, exch'[s]) : r \in in}
               sv == streams[c]
               sb == requests[c]
               w == told[c]
               w2 == told'[c]
    <2>0. FTypes /\ Holds(c)
        BY DEF FInv, Holds
    <2>1. sv \in SUBSET Grants /\ sb \in SUBSET Grants /\ IsFiniteSet(sv) /\ w \in Seq(Deliveries)
        BY <2>0, Connection
    <2>2. ms \in SUBSET Deliveries
        <3>1. \A r \in in : r.id \in Nat
            BY <2>1 DEF Grants
        <3> QED
            BY <1>1, <1>3, <3>1, DeliveryIs
    <2>3. IsFiniteSet(ms)
        <3>1. IsFiniteSet(in)
            BY <2>1, FS_Subset
        <3> DEFINE f == [r \in in |-> Message(r.id, s, exch'[s])]
        <3>2. IsFiniteSet({f[r] : r \in in})
            <4> HIDE DEF f, in
            <4> QED
                BY <3>1, ImageFinite
        <3>3. ms = {f[r] : r \in in}
            OBVIOUS
        <3> QED
            BY <3>2, <3>3, Zenon
    <2>4. w2 = w \o PM!SetToSeq(ms)
        <3>1. PM!Streamed(c, s, exch'[s]) = PM!SetToSeq({PM!MarketData(r.id, s, exch'[s]) : r \in in})
            BY DEF PM!Streamed
        <3>2. {PM!MarketData(r.id, s, exch'[s]) : r \in in} = ms
            BY DeliveryIs
        <3> QED
            BY <1>2, <3>1, <3>2
    <2>5. \A m \in ms : m.n >= 1 /\ \E r \in sv : m.slug \in r.slugs /\ m = Message(r.id, m.slug, exch'[m.slug])
        <3>1. \A r \in in : /\ Message(r.id, s, exch'[s]).slug = s /\ Message(r.id, s, exch'[s]).n = exch'[s]
                            /\ r \in sv /\ s \in r.slugs
            BY DeliveryIs
        <3>2. exch'[s] >= 1
            BY <1>1, <1>3
        <3> QED
            BY <3>1, <3>2
    <2>6. \A r \in sv, t \in Slugs : t \in r.slugs => \/ r \in sv /\ exch'[t] = exch[t]
                                                   \/ Message(r.id, t, exch'[t]) \in ms
        BY <1>3
    <2>7. AskedOf(limit, links[c], sv, sb, asks[c], w) /\ TellsOf(exch, sv, sb, w)
        BY <2>0 DEF Holds, Asked, Latest
    <2>8. RightOf(c, missed, ready, books, exch, sv, sb, w)
        BY <2>0 DEF Holds, Right
    <2> HIDE DEF in, ms, w, w2, sv, sb
    <2>9. /\ w2 \in Seq(Deliveries) /\ TellsOf(exch', sv, sb, w2)
          /\ \A j \in 1..Len(w2) : \/ \E i \in 1..Len(w) : w2[j].id = w[i].id
                                   \/ \E q \in sv : w2[j].id = q.id
          /\ RightOf(c, missed, ready, books, exch', sv, sb, w2)
        <3>1. \A r, q \in sv \cup sb : r.id = q.id => r = q
            BY <2>7 DEF AskedOf
        <3>2. \A t \in Slugs : exch[t] <= exch'[t]
            BY <1>3
        <3>3. Sends(exch, exch', sv, sv, sb, w, ms)
            BY ONLY <2>5, <2>6, <3>1, <3>2 DEF Sends
        <3>4. Told(exch, exch', sv, sv, sb, w, w2)
            BY <1>1, <1>3, <2>1, <2>2, <2>3, <2>4, <2>7, <3>3, TellNews
        <3> QED
            BY ONLY <2>8, <3>4 DEF Told
    <2>10. AskedOf(limit, links[c], sv, sb, asks[c], w2)
        <3>1. CASE Up(links[c])
            BY <2>7, <2>9, <3>1, AskWire
        <3>2. CASE ~Up(links[c])
            <4>1. sv = {} /\ w = <<>>
                BY <2>7, <3>2 DEF AskedOf
            <4>2. ~\E j \in 1..Len(w2) : TRUE
                BY <2>9, <4>1
            <4>3. w2 = <<>>
                BY <2>9, <4>2
            <4> QED
                BY <2>7, <4>1, <4>3, Zenon
        <3> QED
            BY <3>1, <3>2
    <2>11. Line(c)'
        BY <1>2, <2>0 DEF Holds, Line
    <2> QED
        BY <1>2, <2>9, <2>10, <2>11 DEF Holds, Asked, Latest, Right, sv, sb, w2
<1>5. FTypes'
    <2>1. told' \in [Conns -> Seq(Deliveries)]
        <3>1. \A c \in Conns : told'[c] \in Seq(Deliveries)
            BY <1>4
        <3> QED
            BY <1>2, <3>1
    <2>2. \A t \in Slugs : books[t] <= exch'[t]
        <3>1. \A t \in Slugs : books[t] \in Nat /\ books[t] <= exch[t] /\ exch[t] \in Nat /\ exch'[t] \in Nat
            BY <1>1, <1>3 DEF FInv, FTypes
        <3> QED
            BY <1>3, <3>1
    <2> QED
        BY <1>2, <1>3, <2>1, <2>2 DEF FInv, FTypes
<1>6. Wanted'
    BY <1>2 DEF FInv, Wanted
<1> QED
    BY <1>4, <1>5, <1>6 DEF FInv, Holds

LEMMA AcceptStep ==
    ASSUME FInv, NEW c \in Conns, PM!Accept(c)
    PROVE  FInv'
<1> DEFINE sv == streams[c]
           sb == requests[c]
           w == told[c]
           cs == asks[c]
           r == cs[1].req
           subscribes == cs[1].cmd = "subscribe"
           ms == {Message(r.id, s, exch[s]) : s \in r.slugs}
           sv2 == IF subscribes THEN sv \cup {r} ELSE sv \ {r}
           w2 == IF subscribes THEN w \o PM!SetToSeq(ms) ELSE w
<1>0. FTypes /\ Holds(c)
    BY DEF FInv, Holds
<1>1. /\ limit \in Limits /\ exch \in [Slugs -> Nat] /\ sv \in SUBSET Grants /\ sb \in SUBSET Grants
      /\ IsFiniteSet(sv) /\ w \in Seq(Deliveries) /\ cs \in Seq(Orders) /\ cs # <<>>
    BY <1>0, Connection DEF PM!Accept
<1>2. cs[1] \in Orders /\ r \in Grants /\ 1 \in 1..Len(cs)
    <2>1. cs[1] \in Orders /\ 1 \in 1..Len(cs)
        BY <1>1
    <2> QED
        BY <2>1 DEF Orders
<1>3. Head(cs) = cs[1]
    BY <1>1
<1>4. asks' = [asks EXCEPT ![c] = Tail(asks[c])] /\ UNCHANGED <<limit, exch, links, wants, altered, owned, requests, syncs, books, ready, missed>>
    BY DEF PM!Accept
<1>5. streams' = [streams EXCEPT ![c] = sv2] /\ told' = [told EXCEPT ![c] = w2]
    <2>1. told \in [Conns -> Seq(Deliveries)]
        BY <1>0 DEF FTypes
    <2>2. {PM!MarketData(Head(cs).req.id, s, exch[s]) : s \in Head(cs).req.slugs} = ms
        BY <1>3, DeliveryIs
    <2>3. CASE subscribes
        <3>1. Head(asks[c]).cmd = "subscribe"
            BY <1>3, <2>3
        <3>2. /\ streams' = [streams EXCEPT ![c] = streams[c] \cup {Head(cs).req}]
              /\ told' = [told EXCEPT ![c] = told[c]
                            \o PM!SetToSeq({PM!MarketData(Head(cs).req.id, s, exch[s]) : s \in Head(cs).req.slugs})]
            BY <3>1, Zenon DEF PM!Accept
        <3> QED
            BY <1>3, <2>2, <2>3, <3>2
    <2>4. CASE ~subscribes
        <3>1. streams' = [streams EXCEPT ![c] = streams[c] \ {r}] /\ told' = told
            BY <1>3, <2>4 DEF PM!Accept
        <3> QED
            BY <2>1, <2>4, <3>1
    <2> QED
        BY <2>3, <2>4
<1>6. AskedOf(limit, links[c], sv, sb, cs, w) /\ TellsOf(exch, sv, sb, w) /\ RightOf(c, missed, ready, books, exch, sv, sb, w)
    BY <1>0 DEF Holds, Asked, Latest, Right
<1>7. sv2 \in SUBSET Grants /\ IsFiniteSet(sv2)
    <2>1. IsFiniteSet(sv \cup {r}) /\ IsFiniteSet(sv \ {r})
        BY <1>1, FS_AddElement, FS_RemoveElement
    <2> QED
        BY <1>1, <1>2, <2>1
<1>11. ms \in SUBSET Deliveries /\ IsFiniteSet(ms)
    <2>1. r.slugs \in SUBSET Slugs /\ r.id \in Nat
        BY <1>2 DEF Grants
    <2>2. ms \in SUBSET Deliveries
        BY <1>1, <2>1, DeliveryIs
    <2>3. IsFiniteSet(ms)
        <3>1. IsFiniteSet(r.slugs)
            BY <2>1, StreamConstants, FS_Subset
        <3> DEFINE f == [s \in r.slugs |-> Message(r.id, s, exch[s])]
        <3>2. IsFiniteSet({f[s] : s \in r.slugs})
            <4> HIDE DEF f, r
            <4> QED
                BY <3>1, ImageFinite
        <3>3. ms = {f[s] : s \in r.slugs}
            OBVIOUS
        <3> QED
            BY <3>2, <3>3, Zenon
    <2> QED
        BY <2>2, <2>3
<1>8. Told(exch, exch, sv, sv2, sb, w, w2) \/ (sv2 \subseteq sv /\ w2 = w)
    <2> SUFFICES ASSUME subscribes PROVE Told(exch, exch, sv, sv2, sb, w, w2)
        OBVIOUS
    <2>1. r.slugs \in SUBSET Slugs /\ r.id \in Nat
        BY <1>2 DEF Grants
    <2>2. ms \in SUBSET Deliveries /\ IsFiniteSet(ms)
        BY <1>11
    <2>4. \A m \in ms : m.n >= 1 /\ \E q \in sv2 : m.slug \in q.slugs /\ m = Message(q.id, m.slug, exch[m.slug])
        <3>1. \A s \in Slugs : exch[s] >= 1
            <4>1. exch \in [Slugs -> 1..limit.books] /\ limit.books \in Nat
                BY <1>0, <1>1, StreamConstants DEF FTypes
            <4> QED
                BY <4>1
        <3>2. \A s \in r.slugs : /\ Message(r.id, s, exch[s]).slug = s /\ Message(r.id, s, exch[s]).n = exch[s]
                                 /\ s \in Slugs
            BY <2>1, DeliveryIs
        <3>3. r \in sv2
            OBVIOUS
        <3> HIDE DEF sv2
        <3> QED
            BY <3>1, <3>2, <3>3
    <2>5. \A q \in sv2, s \in Slugs : s \in q.slugs => \/ q \in sv /\ exch[s] = exch[s]
                                                    \/ Message(q.id, s, exch[s]) \in ms
        OBVIOUS
    <2>6. sv \subseteq sv2 /\ sv2 \subseteq sv \cup Of(cs)
        BY <1>2 DEF Of
    <2>7. \A q, p \in sv2 \cup sb : q.id = p.id => q = p
        BY <1>6, <2>6 DEF AskedOf
    <2>8. \A q \in sv2 \ sv : \A j \in 1..Len(w) : w[j].id # q.id
        <3>1. \A j \in 1..Len(w) : w[j].id # r.id
            BY <1>2, <1>6 DEF AskedOf
        <3> QED
            BY <3>1
    <2>9. \A s \in Slugs : exch[s] <= exch[s]
        BY <1>1
    <2>10. w2 = w \o PM!SetToSeq(ms)
        OBVIOUS
    <2> HIDE DEF sv, sb, w, w2, ms, sv2
    <2>11. Sends(exch, exch, sv, sv2, sb, w, ms)
        BY ONLY <2>4, <2>5, <2>6, <2>7, <2>8, <2>9 DEF Sends
    <2> QED
        BY <1>1, <1>6, <1>7, <2>2, <2>10, <2>11, TellNews
<1>9. w2 \in Seq(Deliveries) /\ TellsOf(exch, sv2, sb, w2) /\ RightOf(c, missed, ready, books, exch, sv2, sb, w2)
    <2> HIDE DEF sv, sb, w, w2, sv2
    <2>1. CASE Told(exch, exch, sv, sv2, sb, w, w2)
        BY ONLY <1>6, <2>1 DEF Told
    <2>2. CASE sv2 \subseteq sv /\ w2 = w
        BY <1>1, <1>6, <2>2, TellFewer
    <2> QED
        BY <1>8, <2>1, <2>2
<1>10. AskedOf(limit, links[c], sv2, sb, Tail(cs), w2) /\ Tail(cs) \in Seq(Orders)
    <2>1. \A j \in 1..Len(w2) : \/ \E i \in 1..Len(w) : w2[j].id = w[i].id
                                \/ cs[1].cmd = "subscribe" /\ w2[j].id = cs[1].req.id
        <3>1. CASE subscribes
            <4>1. Longer(w, ms, w2)
                <5>1. ms \in SUBSET Deliveries /\ IsFiniteSet(ms)
                    BY <1>11, <3>1
                <5> HIDE DEF ms, w
                <5>2. Longer(w, ms, w \o PM!SetToSeq(ms))
                    BY <1>1, <5>1, Behind
                <5> QED
                    BY <3>1, <5>2
            <4>2. \A m \in ms : m.id = r.id
                BY DeliveryIs
            <4> HIDE DEF ms, w2, w
            <4> QED
                BY <3>1, <4>1, <4>2 DEF Longer
        <3>2. CASE ~subscribes
            BY <3>2
        <3> QED
            BY <3>1, <3>2
    <2>2. sv2 = IF cs[1].cmd = "subscribe" THEN sv \cup {cs[1].req} ELSE sv \ {cs[1].req}
        OBVIOUS
    <2>3. Tail(cs) \in Seq(Orders)
        BY <1>1
    <2> HIDE DEF sv, sb, w, w2, sv2, cs
    <2> QED
        BY <1>1, <1>6, <2>1, <2>2, <2>3, AskAccept
<1>12. streams'[c] = sv2 /\ told'[c] = w2 /\ asks'[c] = Tail(cs)
    BY <1>0, <1>4, <1>5 DEF FTypes
<1>13. Holds(c)'
    <2>1. Line(c)'
        BY <1>0, <1>4 DEF Holds, Line
    <2>2. Asked(c)' /\ Latest(c)' /\ Right(c)'
        <3> HIDE DEF sv2, w2
        <3> QED
            BY <1>4, <1>9, <1>10, <1>12 DEF Asked, Latest, Right
    <2> QED
        BY <2>1, <2>2 DEF Holds
<1>14. \A d \in Conns \ {c} : Holds(d)'
    <2> SUFFICES ASSUME NEW d \in Conns \ {c} PROVE Holds(d)'
        OBVIOUS
    <2>1. streams'[d] = streams[d] /\ told'[d] = told[d] /\ asks'[d] = asks[d]
        BY <1>0, <1>4, <1>5 DEF FTypes
    <2>2. Holds(d)
        BY DEF FInv, Holds
    <2> QED
        BY <1>4, <2>1, <2>2 DEF Holds, Asked, Latest, Line, Right
<1>15. FTypes'
    <2>1. streams' \in [Conns -> SUBSET Grants] /\ \A d \in Conns : IsFiniteSet(streams'[d])
        BY <1>0, <1>5, <1>7 DEF FTypes
    <2>2. told' \in [Conns -> Seq(Deliveries)] /\ asks' \in [Conns -> Seq(Orders)]
        BY <1>0, <1>4, <1>5, <1>9, <1>10 DEF FTypes
    <2> QED
        BY <1>0, <1>4, <2>1, <2>2 DEF FTypes
<1>16. Wanted'
    BY <1>4 DEF FInv, Wanted
<1>17. \A d \in Conns : Holds(d)'
    BY <1>13, <1>14
<1> QED
    BY <1>15, <1>16, <1>17 DEF FInv, Holds

-----------------------------------------------------------------------------
(* The steps of the feed and its connections *)

\* A connection stays as it is, and so does what it gets right.
LEMMA Others ==
    ASSUME FInv, NEW d \in Conns, limit' = limit, exch' = exch, streams'[d] = streams[d], told'[d] = told[d],
           asks'[d] = asks[d], requests'[d] = requests[d], links'[d] = links[d], wants'[d] = wants[d],
           altered'[d] = altered[d], syncs'[d] = syncs[d],
           RightOf(d, missed', ready', books', exch, streams[d], requests[d], told[d])
    PROVE  Holds(d)'
<1>1. Holds(d)
    BY DEF FInv, Holds
<1>2. Asked(d)'
    BY <1>1 DEF Holds, Asked
<1>3. Latest(d)'
    BY <1>1 DEF Holds, Latest
<1>4. Line(d)'
    BY <1>1 DEF Holds, Line
<1>5. Right(d)'
    BY DEF Right
<1> QED
    BY <1>2, <1>3, <1>4, <1>5 DEF Holds

\* Without commands, messages and anything served.
LEMMA Nothing ==
    ASSUME NEW l \in Limits, NEW ln, NEW sb, \A r, q \in sb : r.id = q.id => r = q,
           \A r \in sb : Cardinality(r.slugs) <= l.chunk, Up(ln) => sb = {}
    PROVE  /\ AskedOf(l, ln, {}, sb, <<>>, <<>>)
           /\ \A ex : TellsOf(ex, {}, sb, <<>>)
           /\ \A c, gs, rd, bk, ex : RightOf(c, gs, rd, bk, ex, {}, sb, <<>>)
<1>1. Of(<<>>) = {} /\ \A k : After({}, <<>>, k) = {}
    BY DEF Of, After
<1>2. Cardinality({}) = 0 /\ l.subs \in Nat
    BY FS_EmptySet, StreamConstants
<1>3. Len(<<>>) = 0 /\ 1..0 = {}
    OBVIOUS
<1> DEFINE none == <<>>
<1>4. AskedOf(l, ln, {}, sb, none, none)
    <2>1. none = <<>> /\ Of(none) = {} /\ (\A k : After({}, none, k) = {}) /\ Len(none) = 0
        BY <1>1, <1>3
    <2> HIDE DEF none
    <2>2. {} \cup sb \cup Of(none) = sb
        BY <2>1
    <2>3. \A i \in 1..Len(none) : FALSE
        BY <2>1
    <2>4. \A k : Cardinality(After({}, none, k)) <= l.subs
        <3>1. ASSUME NEW k PROVE Cardinality(After({}, none, k)) = 0
            <4>1. After({}, none, k) = {}
                BY <2>1
            <4> QED
                BY <1>2, <4>1, Zenon
        <3>2. 0 <= l.subs
            BY <1>2
        <3> QED
            BY ONLY <3>1, <3>2
    <2>5. Up(ln) => After({}, none, Len(none)) = sb
        BY <2>1
    <2>6. /\ \A r, q \in {} \cup sb \cup Of(none) : r.id = q.id => r = q
          /\ \A r \in {} \cup sb \cup Of(none) : Cardinality(r.slugs) <= l.chunk
        BY <2>2
    <2> QED
        BY ONLY <2>1, <2>3, <2>4, <2>5, <2>6 DEF AskedOf
<1>5. \A ex : TellsOf(ex, {}, sb, <<>>)
    BY <1>3 DEF TellsOf
<1>6. \A c, gs, rd, bk, ex : RightOf(c, gs, rd, bk, ex, {}, sb, <<>>)
    BY DEF RightOf
<1> QED
    BY <1>4, <1>5, <1>6

LEMMA SetMarketsStep ==
    ASSUME FInv, NEW new \in SUBSET limit.slugs, PM!SetMarkets(new)
    PROVE  FInv'
<1>0. FTypes /\ Wanted
    BY DEF FInv
<1>1. /\ wants' = [c \in Conns |-> PM!Assigned(c, new)]
      /\ altered' = [c \in Conns |-> altered[c] \/ wants'[c] # wants[c]]
      /\ links' = [c \in Conns |-> IF links[c] = "new" /\ wants'[c] # {} THEN "down" ELSE links[c]]
      /\ limit' = limit /\ exch' = exch /\ streams' = streams /\ asks' = asks /\ told' = told
      /\ owned' = owned /\ requests' = requests /\ syncs' = syncs /\ books' = books /\ ready' = ready /\ missed' = missed
    BY DEF PM!SetMarkets, PM!side
<1>2. /\ \A c \in Conns : PM!Assigned(c, new) \in SUBSET Slugs
      /\ \A c \in Conns : Cardinality(PM!Assigned(c, new)) <= limit.chunk * limit.subs
      /\ \A c, d \in Conns : c # d => PM!Assigned(c, new) \cap PM!Assigned(d, new) = {}
    BY <1>0, RoomForAll
<1>3. Wanted'
    BY <1>1, <1>2 DEF Wanted
<1>4. FTypes'
    <2>1. wants' \in [Conns -> SUBSET Slugs] /\ altered' \in [Conns -> BOOLEAN]
        BY <1>1, <1>2
    <2>2. links' \in [Conns -> {"new", "down", "opening", "up"}]
        BY <1>0, <1>1 DEF FTypes
    <2> QED
        BY <1>0, <1>1, <2>1, <2>2 DEF FTypes
<1>5. ASSUME NEW c \in Conns PROVE Holds(c)'
    <2>1. Holds(c)
        BY DEF FInv, Holds
    <2>2. Up(links'[c]) <=> Up(links[c])
        BY <1>1 DEF Up
    <2>3. Asked(c)'
        <3> DEFINE a == links'[c]
        <3>1. AskedOf(limit, links[c], streams[c], requests[c], asks[c], told[c])
            BY <2>1 DEF Holds, Asked
        <3>2. AskedOf(limit, a, streams[c], requests[c], asks[c], told[c])
            BY <2>2, <3>1 DEF AskedOf
        <3> QED
            BY <1>1, <3>2 DEF Asked
    <2>4. Line(c)'
        <3> DEFINE a == links'[c]
                   wn == wants'[c]
                   ch == altered'[c]
        <3>1. LineOf(limit, links[c], syncs[c], requests[c], wants[c], altered[c])
            BY <2>1 DEF Holds, Line
        <3>2. /\ a = IF links[c] = "new" /\ wn # {} THEN "down" ELSE links[c]
              /\ ch = (altered[c] \/ wn # wants[c])
            BY <1>1
        <3> HIDE DEF a, wn, ch
        <3>3. LineOf(limit, a, syncs[c], requests[c], wn, ch)
            <4>1. CASE wn = wants[c] /\ a = links[c] /\ ch = altered[c]
                BY <3>1, <4>1, Zenon
            <4>2. CASE ch /\ a = links[c] /\ (a = "new" => wn = {})
                BY <3>1, <4>2 DEF LineOf
            <4>3. CASE ch /\ links[c] = "new" /\ a = "down"
                BY <3>1, <4>3 DEF LineOf
            <4>4. altered[c] \in BOOLEAN
                BY <1>0 DEF FTypes
            <4>5. links[c] = "new" => wants[c] = {}
                BY <3>1 DEF LineOf
            <4> QED
                BY <3>2, <4>1, <4>2, <4>3, <4>4, <4>5
        <3> QED
            BY <1>1, <3>3 DEF Line, a, wn, ch
    <2>5. Latest(c)' /\ Right(c)'
        BY <1>1, <2>1 DEF Holds, Latest, Right
    <2> QED
        BY <2>3, <2>4, <2>5 DEF Holds
<1> QED
    BY <1>3, <1>4, <1>5 DEF FInv, Holds

LEMMA ConnectStep ==
    ASSUME FInv, NEW c \in Conns, PM!Connect(c)
    PROVE  FInv'
<1>0. FTypes /\ Wanted /\ Holds(c)
    BY DEF FInv, Holds
<1>1. /\ links[c] = "down" /\ links' = [links EXCEPT ![c] = "opening"]
      /\ requests' = [requests EXCEPT ![c] = {}]
      /\ syncs' = [syncs EXCEPT ![c] = [at |-> "start", todo |-> {}]]
      /\ limit' = limit /\ exch' = exch /\ streams' = streams /\ asks' = asks /\ told' = told /\ wants' = wants
      /\ altered' = altered /\ owned' = owned /\ books' = books /\ ready' = ready /\ missed' = missed
    BY DEF PM!Connect, PM!side
<1>2. /\ links'[c] = "opening" /\ requests'[c] = {} /\ syncs'[c] = [at |-> "start", todo |-> {}]
      /\ \A d \in Conns \ {c} : links'[d] = links[d] /\ requests'[d] = requests[d] /\ syncs'[d] = syncs[d]
    BY <1>0, <1>1 DEF FTypes
<1>3. streams[c] = {} /\ asks[c] = <<>> /\ told[c] = <<>>
    <2>1. ~Up(links[c])
        BY <1>1 DEF Up
    <2> QED
        BY <1>0, <2>1 DEF Holds, Asked, AskedOf
<1>4. FTypes'
    <2>1. links' \in [Conns -> {"new", "down", "opening", "up"}]
        BY <1>0, <1>1 DEF FTypes
    <2>2. requests' \in [Conns -> SUBSET Grants] /\ \A d \in Conns : IsFiniteSet(requests'[d])
        <3>1. IsFiniteSet({})
            BY FS_EmptySet
        <3> QED
            BY <1>0, <1>1, <1>2, <3>1 DEF FTypes
    <2>3. syncs' \in [Conns -> Syncs]
        <3>1. [at |-> "start", todo |-> {}] \in Syncs
            BY DEF Syncs
        <3> QED
            BY <1>0, <1>1, <3>1 DEF FTypes
    <2> QED
        BY <1>0, <1>1, <2>1, <2>2, <2>3 DEF FTypes
<1>5. Wanted'
    BY <1>0, <1>1 DEF Wanted
<1>6. Holds(c)'
    <2>1. limit \in Limits
        BY <1>0 DEF FTypes
    <2>2. /\ AskedOf(limit, "opening", {}, {}, <<>>, <<>>) /\ TellsOf(exch, {}, {}, <<>>)
          /\ RightOf(c, missed, ready, books, exch, {}, {}, <<>>)
        BY <2>1, Nothing
    <2>3. LineOf(limit, "opening", [at |-> "start", todo |-> {}], {}, wants[c], altered[c])
        BY DEF LineOf
    <2> QED
        BY <1>1, <1>2, <1>3, <2>2, <2>3 DEF Holds, Asked, Latest, Line, Right
<1>7. ASSUME NEW d \in Conns \ {c} PROVE Holds(d)'
    <2>1. RightOf(d, missed', ready', books', exch, streams[d], requests[d], told[d])
        BY <1>1 DEF FInv, Right
    <2> QED
        BY <1>1, <1>2, <2>1, Others
<1> QED
    BY <1>4, <1>5, <1>6, <1>7 DEF FInv, Holds

\* Books gone for a connection are gone for the others too.
LEMMA GoneForAll ==
    ASSUME FInv, NEW d \in Conns, NEW gone, missed' = missed \cup PM!Bereft(gone), ready' = ready \ gone,
           \A s \in Slugs \ gone : books'[s] = books[s]
    PROVE  RightOf(d, missed', ready', books', exch, streams[d], requests[d], told[d])
<1>1. RightOf(d, missed, ready, books, exch, streams[d], requests[d], told[d])
    BY DEF FInv, Right
<1>2. \A r \in requests[d], s \in Slugs : s \in r.slugs /\ s \in gone => <<d, s>> \in missed'
    <2> SUFFICES ASSUME NEW r \in requests[d], NEW s \in Slugs, s \in r.slugs, s \in gone PROVE <<d, s>> \in missed'
        OBVIOUS
    <2>1. s \in PM!Subscribed(d)
        BY DEF PM!Subscribed
    <2>2. <<d, s>> \in PM!Bereft(gone)
        BY <2>1 DEF PM!Bereft
    <2> QED
        BY <2>2
<1> SUFFICES ASSUME NEW r \in streams[d] \cap requests[d], NEW s \in Slugs, s \in r.slugs, <<d, s>> \notin missed'
             PROVE  (s \in ready' /\ books'[s] = exch[s]) \/ \E k \in 1..Len(told[d]) : told[d][k] = Message(r.id, s, exch[s])
    BY DEF RightOf
<1>3. s \notin gone /\ <<d, s>> \notin missed
    BY <1>2
<1>4. (s \in ready /\ books[s] = exch[s]) \/ \E k \in 1..Len(told[d]) : told[d][k] = Message(r.id, s, exch[s])
    BY <1>1, <1>3 DEF RightOf
<1> QED
    BY <1>3, <1>4

LEMMA DisconnectStep ==
    ASSUME FInv, NEW c \in Conns, PM!Disconnect(c)
    PROVE  FInv'
<1>0. FTypes /\ Wanted /\ Holds(c)
    BY DEF FInv, Holds
<1>1. /\ links[c] \in {"opening", "up"} /\ links' = [links EXCEPT ![c] = "down"]
      /\ ready' = ready \ wants[c] /\ syncs' = [syncs EXCEPT ![c] = PM!Idle]
      /\ asks' = [asks EXCEPT ![c] = <<>>] /\ told' = [told EXCEPT ![c] = <<>>]
      /\ streams' = [streams EXCEPT ![c] = {}]
      /\ missed' = missed \cup PM!Bereft(wants[c])
      /\ limit' = limit /\ exch' = exch /\ wants' = wants
      /\ altered' = altered /\ owned' = owned /\ books' = books /\ requests' = requests
    BY DEF PM!Disconnect, PM!TakenDown
<1>2. /\ links'[c] = "down" /\ syncs'[c] = PM!Idle /\ asks'[c] = <<>> /\ told'[c] = <<>> /\ streams'[c] = {}
      /\ \A d \in Conns \ {c} : /\ links'[d] = links[d] /\ syncs'[d] = syncs[d] /\ asks'[d] = asks[d]
                                /\ told'[d] = told[d] /\ streams'[d] = streams[d]
    BY <1>0, <1>1 DEF FTypes
<1>3. missed' \subseteq Conns \X Slugs
    <2>1. wants[c] \subseteq Slugs
        BY <1>0 DEF FTypes
    <2>2. PM!Bereft(wants[c]) \subseteq Conns \X Slugs
        <3> DEFINE ts == wants[c]
        <3>1. Conns \X ts \subseteq Conns \X Slugs
            BY <2>1
        <3>2. PM!Bereft(ts) \subseteq Conns \X ts
            BY DEF PM!Bereft
        <3> QED
            BY <3>1, <3>2
    <2>3. missed \subseteq Conns \X Slugs
        BY <1>0 DEF FTypes
    <2> QED
        BY <1>1, <2>2, <2>3
<1>4. FTypes'
    <2>1. links' \in [Conns -> {"new", "down", "opening", "up"}]
        BY <1>0, <1>1 DEF FTypes
    <2>2. streams' \in [Conns -> SUBSET Grants] /\ \A d \in Conns : IsFiniteSet(streams'[d])
        <3>1. IsFiniteSet({})
            BY FS_EmptySet
        <3> QED
            BY <1>0, <1>1, <1>2, <3>1 DEF FTypes
    <2>3. syncs' \in [Conns -> Syncs]
        <3>1. PM!Idle \in Syncs
            BY DEF Syncs, PM!Idle
        <3> QED
            BY <1>0, <1>1, <3>1 DEF FTypes
    <2>4. asks' \in [Conns -> Seq(Orders)] /\ told' \in [Conns -> Seq(Deliveries)]
        BY <1>0, <1>1 DEF FTypes
    <2> QED
        BY <1>0, <1>1, <1>3, <2>1, <2>2, <2>3, <2>4 DEF FTypes
<1>5. Wanted'
    BY <1>0, <1>1 DEF Wanted
<1>6. Holds(c)'
    <2>1. limit \in Limits
        BY <1>0 DEF FTypes
    <2>2. /\ \A r, q \in requests[c] : r.id = q.id => r = q
          /\ \A r \in requests[c] : Cardinality(r.slugs) <= limit.chunk
        BY <1>0 DEF Holds, Asked, AskedOf
    <2>3. ~Up("down")
        BY DEF Up
    <2>4. /\ AskedOf(limit, "down", {}, requests[c], <<>>, <<>>) /\ TellsOf(exch, {}, requests[c], <<>>)
          /\ RightOf(c, missed', ready', books', exch, {}, requests[c], <<>>)
        BY <2>1, <2>2, <2>3, Nothing
    <2>5. LineOf(limit, "down", PM!Idle, requests[c], wants[c], altered[c])
        <3>1. PM!Idle.at = "idle"
            BY DEF PM!Idle
        <3> QED
            BY <1>0, <3>1 DEF Holds, Line, LineOf
    <2> QED
        BY <1>1, <1>2, <2>4, <2>5 DEF Holds, Asked, Latest, Line, Right
<1>7. ASSUME NEW d \in Conns \ {c} PROVE Holds(d)'
    <2>1. RightOf(d, missed', ready', books', exch, streams[d], requests[d], told[d])
        BY <1>1, GoneForAll
    <2> QED
        BY <1>1, <1>2, <2>1, Others
<1> QED
    BY <1>4, <1>5, <1>6, <1>7 DEF FInv, Holds

LEMMA HandleStep ==
    ASSUME FInv, NEW c \in Conns, PM!Handle(c)
    PROVE  FInv'
<1> DEFINE w == told[c]
           sv == streams[c]
           sb == requests[c]
           wn == wants[c]
           gs == missed'
           rd == ready'
           bk == books'
<1>0. FTypes /\ Wanted /\ Holds(c)
    BY DEF FInv, Holds
<1>1. /\ w # <<>> /\ told' = [told EXCEPT ![c] = Tail(w)]
      /\ limit' = limit /\ exch' = exch /\ streams' = streams /\ asks' = asks /\ wants' = wants /\ links' = links
      /\ altered' = altered /\ owned' = owned /\ requests' = requests /\ syncs' = syncs
    BY DEF PM!Handle, PM!side
<1>2. limit \in Limits /\ exch \in [Slugs -> Nat] /\ w \in Seq(Deliveries) /\ Below(ready, books, exch)
    BY <1>0, Connection DEF FTypes, Below
<1>3. Head(w) = w[1]
    BY <1>1, <1>2
<1>4. /\ bk = IF Newer(sb, wn, ready, books, w) THEN [books EXCEPT ![w[1].slug] = w[1].n] ELSE books
      /\ rd = IF Newer(sb, wn, ready, books, w) THEN ready \cup {w[1].slug} ELSE ready
      /\ gs = IF Ours(sb, wn, w) THEN missed \ {<<c, w[1].slug>>}
              ELSE IF Known(sb, w) THEN missed \cup {<<c, w[1].slug>>} ELSE missed
    BY <1>3 DEF PM!Handle, PM!Known, PM!Updated, Known, Ours, Newer
<1>5. Handled(c, sb, wn, w, missed, ready, books, gs, rd, bk)
    BY <1>4 DEF Handled
<1>7. /\ AskedOf(limit, links[c], sv, sb, asks[c], w) /\ TellsOf(exch, sv, sb, w)
      /\ RightOf(c, missed, ready, books, exch, sv, sb, w)
    BY <1>0 DEF Holds, Asked, Latest, Right
<1>8. Apart(sb)
    BY <1>0 DEF Holds, Line, LineOf, Apart
<1> HIDE DEF w, sv, sb, wn, gs, rd, bk
<1>9. /\ Below(rd, bk, exch)
      /\ RightOf(c, missed, ready, books, exch, sv, sb, w) => RightOf(c, gs, rd, bk, exch, sv, sb, Tail(w))
      /\ \A d, svd, sbd, wd : d # c /\ RightOf(d, missed, ready, books, exch, svd, sbd, wd)
                              => RightOf(d, gs, rd, bk, exch, svd, sbd, wd)
    BY <1>1, <1>2, <1>5, <1>7, <1>8, RightHead
<1>10. /\ Tail(w) \in Seq(Deliveries) /\ TellsOf(exch, sv, sb, Tail(w))
       /\ \A j \in 1..Len(Tail(w)) : \E i \in 1..Len(w) : Tail(w)[j].id = w[i].id
       /\ w[1] \in Deliveries
    <2>1. w[1] \in Deliveries
        BY <1>1, <1>2
    <2>2. w \in Seq(Deliveries) /\ w # <<>> /\ TellsOf(exch, sv, sb, w)
        BY <1>1, <1>2, <1>7
    <2>3. TellsOf(exch, sv, sb, Tail(w)) /\ \A j \in 1..Len(Tail(w)) : \E i \in 1..Len(w) : Tail(w)[j].id = w[i].id
        BY ONLY <2>2, TellTail
    <2> QED
        BY <2>1, <2>2, <2>3
<1>11. AskedOf(limit, links[c], sv, sb, asks[c], Tail(w))
    <2>1. Up(links[c])
        BY <1>1, <1>7 DEF AskedOf
    <2> QED
        BY <1>7, <1>10, <2>1, AskWire
<1>12. told'[c] = Tail(w) /\ \A d \in Conns \ {c} : told'[d] = told[d]
    BY <1>0, <1>1 DEF FTypes
<1>13. FTypes'
    <2>1. told' \in [Conns -> Seq(Deliveries)]
        BY <1>0, <1>1, <1>10 DEF FTypes
    <2>2. /\ books' \in [Slugs -> Nat] /\ \A s \in Slugs : books'[s] <= exch[s]
          /\ ready' \subseteq {s \in Slugs : books'[s] # 0}
        BY <1>9 DEF bk, rd, Below
    <2>3. missed' \subseteq Conns \X Slugs
        <3>1. missed \subseteq Conns \X Slugs
            BY <1>0 DEF FTypes
        <3>2. w[1].slug \in Slugs
            BY <1>10 DEF Deliveries
        <3> QED
            BY <1>4, <3>1, <3>2 DEF gs
    <2> QED
        BY <1>0, <1>1, <2>1, <2>2, <2>3 DEF FTypes
<1>14. Wanted'
    BY <1>0, <1>1 DEF Wanted
<1>15. Holds(c)'
    <2>1. Line(c)'
        BY <1>0, <1>1 DEF Holds, Line
    <2>2. Asked(c)' /\ Latest(c)'
        BY <1>1, <1>10, <1>11, <1>12 DEF Asked, Latest, sv, sb
    <2>3. Right(c)'
        BY <1>1, <1>7, <1>9, <1>12 DEF Right, sv, sb, gs, rd, bk
    <2> QED
        BY <2>1, <2>2, <2>3 DEF Holds
<1>16. ASSUME NEW d \in Conns \ {c} PROVE Holds(d)'
    <2>1. RightOf(d, missed, ready, books, exch, streams[d], requests[d], told[d])
        BY DEF FInv, Right
    <2>2. RightOf(d, missed', ready', books', exch, streams[d], requests[d], told[d])
        BY <1>9, <2>1 DEF gs, rd, bk
    <2> QED
        BY <1>1, <1>12, <2>2, Others
<1> QED
    BY <1>13, <1>14, <1>15, <1>16 DEF FInv, Holds

-----------------------------------------------------------------------------
(* The steps of a _sync *)

\* A new subscription's id is no other's.
LEMMA FreshOf ==
    ASSUME FTypes, NEW c \in Conns
    PROVE  /\ PM!Fresh(c) \in Nat
           /\ \A q \in streams[c] \cup requests[c] \cup Of(asks[c]) : q.id # PM!Fresh(c)
           /\ \A j \in 1..Len(told[c]) : told[c][j].id # PM!Fresh(c)
<1> DEFINE rs == requests[c] \cup streams[c]
           cs == asks[c]
           w == told[c]
           A == {r.id : r \in rs}
           B == {cs[k].req.id : k \in DOMAIN cs}
           C == {w[k].id : k \in DOMAIN w}
           U == PM!Used(c)
<1>1. /\ rs \in SUBSET Grants /\ IsFiniteSet(rs) /\ cs \in Seq(Orders) /\ w \in Seq(Deliveries)
    BY Connection, FS_Union
<1>2. U = A \cup B \cup C
    BY DEF PM!Used
<1>3. A \subseteq Nat /\ IsFiniteSet(A)
    <2>1. A \subseteq Nat
        BY <1>1 DEF Grants
    <2> DEFINE f == [r \in rs |-> r.id]
    <2>2. IsFiniteSet({f[r] : r \in rs})
        <3> HIDE DEF f, rs
        <3> QED
            BY <1>1, ImageFinite
    <2>3. A = {f[r] : r \in rs}
        OBVIOUS
    <2> QED
        BY <2>1, <2>2, <2>3
<1>4. B \subseteq Nat /\ IsFiniteSet(B) /\ \A q \in Of(cs) : q.id \in B
    <2>1. DOMAIN cs = 1..Len(cs) /\ Len(cs) \in Nat /\ \A k \in 1..Len(cs) : cs[k] \in Orders
        BY <1>1
    <2>2. \A k \in 1..Len(cs) : cs[k].req \in Grants /\ cs[k].req.id \in Nat
        BY <2>1 DEF Orders, Grants
    <2>3. B \subseteq Nat
        BY <2>1, <2>2
    <2>4. IsFiniteSet(1..Len(cs))
        BY <2>1, FS_Interval
    <2> DEFINE D == 1..Len(cs)
               f == [k \in D |-> cs[k].req.id]
    <2>5. IsFiniteSet({f[k] : k \in D})
        <3> HIDE DEF f
        <3> QED
            BY <2>4, ImageFinite
    <2>6. B = {f[k] : k \in D}
        BY <2>1
    <2>7. \A q \in Of(cs) : q.id \in B
        BY <2>1 DEF Of
    <2> QED
        BY <2>3, <2>5, <2>6, <2>7
<1>5. C \subseteq Nat /\ IsFiniteSet(C) /\ \A j \in 1..Len(w) : w[j].id \in C
    <2>1. DOMAIN w = 1..Len(w) /\ Len(w) \in Nat /\ \A k \in 1..Len(w) : w[k] \in Deliveries
        BY <1>1
    <2>2. C \subseteq Nat
        BY <2>1 DEF Deliveries
    <2>4. IsFiniteSet(1..Len(w))
        BY <2>1, FS_Interval
    <2> DEFINE D == 1..Len(w)
               f == [k \in D |-> w[k].id]
    <2>5. IsFiniteSet({f[k] : k \in D})
        <3> HIDE DEF f
        <3> QED
            BY <2>4, ImageFinite
    <2>6. C = {f[k] : k \in D}
        BY <2>1
    <2> QED
        BY <2>1, <2>2, <2>5, <2>6
<1>6. \A q \in rs : q.id \in A
    OBVIOUS
<1> HIDE DEF A, B, C, U
<1>7. U \in SUBSET Nat /\ IsFiniteSet(U)
    <2>1. IsFiniteSet(A \cup B)
        BY <1>3, <1>4, FS_Union
    <2>2. IsFiniteSet((A \cup B) \cup C)
        BY <1>5, <2>1, FS_Union
    <2> QED
        BY <1>2, <1>3, <1>4, <1>5, <2>2
<1>8. PM!Fresh(c) = PM!Min((0..PM!Cardinality(U)) \ U)
    BY DEF PM!Fresh, U
<1>9. PM!Fresh(c) \in Nat \ U
    BY <1>7, <1>8, FreshId
<1> QED
    BY <1>2, <1>4, <1>5, <1>6, <1>9

\* The requests of connection c change, and the server is told so.
Moves(c) ==
    /\ requests' \in [Conns -> SUBSET Grants] /\ IsFiniteSet(requests'[c]) /\ asks' \in [Conns -> Seq(Orders)]
    /\ \A d \in Conns \ {c} : requests'[d] = requests[d] /\ asks'[d] = asks[d]
    /\ AskedOf(limit, links'[c], streams[c], requests'[c], asks'[c], told[c])
    /\ TellsOf(exch, streams[c], requests'[c], told[c])
    /\ \A gs, rd, bk : RightOf(c, gs, rd, bk, exch, streams[c], requests[c], told[c])
                       => RightOf(c, gs, rd, bk, exch, streams[c], requests'[c], told[c])

\* Connection c's _sync goes on; books may have been taken down before.
Goes(c) ==
    /\ \A d \in Conns \ {c} : links'[d] = links[d] /\ syncs'[d] = syncs[d] /\ altered'[d] = altered[d]
    /\ links' \in [Conns -> {"new", "down", "opening", "up"}] /\ syncs' \in [Conns -> Syncs]
    /\ altered' \in [Conns -> BOOLEAN] /\ owned' \in [Conns -> SUBSET Slugs]
    /\ LineOf(limit, links'[c], syncs'[c], requests'[c], wants[c], altered'[c])

Takes ==
    /\ Below(ready', books', exch) /\ missed' \subseteq Conns \X Slugs
    /\ \A d \in Conns : RightOf(d, missed', ready', books', exch, streams[d], requests[d], told[d])

Stays == limit' = limit /\ exch' = exch /\ streams' = streams /\ told' = told /\ wants' = wants

LEMMA Syncing ==
    ASSUME FInv, NEW c \in Conns, Stays, Moves(c), Goes(c), Takes
    PROVE  FInv'
<1>0. FTypes /\ Wanted
    BY DEF FInv
<1>1. FTypes'
    <2>1. \A d \in Conns : IsFiniteSet(streams'[d]) /\ IsFiniteSet(requests'[d])
        <3>1. \A d \in Conns : IsFiniteSet(streams[d]) /\ IsFiniteSet(requests[d])
            BY <1>0 DEF FTypes
        <3> QED
            BY <3>1 DEF Stays, Moves
    <2>2. /\ limit' \in Limits /\ exch' \in [Slugs -> 1..limit'.books] /\ streams' \in [Conns -> SUBSET Grants]
          /\ told' \in [Conns -> Seq(Deliveries)] /\ wants' \in [Conns -> SUBSET Slugs]
        BY <1>0 DEF FTypes, Stays
    <2>3. requests' \in [Conns -> SUBSET Grants] /\ asks' \in [Conns -> Seq(Orders)]
        BY DEF Moves
    <2>4. /\ links' \in [Conns -> {"new", "down", "opening", "up"}] /\ syncs' \in [Conns -> Syncs]
          /\ altered' \in [Conns -> BOOLEAN] /\ owned' \in [Conns -> SUBSET Slugs]
        BY DEF Goes
    <2>5. /\ books' \in [Slugs -> Nat] /\ \A s \in Slugs : books'[s] <= exch'[s]
          /\ ready' \subseteq {s \in Slugs : books'[s] # 0} /\ missed' \subseteq Conns \X Slugs
        BY DEF Takes, Below, Stays
    <2> QED
        BY ONLY <2>1, <2>2, <2>3, <2>4, <2>5 DEF FTypes
<1>2. Wanted'
    BY <1>0 DEF Wanted, Stays
<1>3. Holds(c)'
    <2>1. Asked(c)'
        BY DEF Asked, Stays, Moves
    <2>2. Latest(c)'
        BY DEF Latest, Stays, Moves
    <2>3. Line(c)'
        BY DEF Line, Stays, Goes
    <2>4. Right(c)'
        <3> DEFINE gs == missed'
                   rd == ready'
                   bk == books'
        <3>1. RightOf(c, gs, rd, bk, exch, streams[c], requests[c], told[c])
            BY DEF Takes
        <3>2. RightOf(c, gs, rd, bk, exch, streams[c], requests[c], told[c])
              => RightOf(c, gs, rd, bk, exch, streams[c], requests'[c], told[c])
            BY Zenon DEF Moves
        <3> QED
            BY <3>1, <3>2 DEF Right, Stays
    <2> QED
        BY <2>1, <2>2, <2>3, <2>4 DEF Holds
<1>4. ASSUME NEW d \in Conns \ {c} PROVE Holds(d)'
    <2>1. /\ requests'[d] = requests[d] /\ asks'[d] = asks[d] /\ links'[d] = links[d] /\ syncs'[d] = syncs[d]
          /\ altered'[d] = altered[d]
        BY DEF Moves, Goes
    <2>2. limit' = limit /\ exch' = exch /\ streams'[d] = streams[d] /\ told'[d] = told[d] /\ wants'[d] = wants[d]
        BY DEF Stays
    <2>3. RightOf(d, missed', ready', books', exch, streams[d], requests[d], told[d])
        BY DEF Takes
    <2> QED
        BY <2>1, <2>2, <2>3, Others
<1> QED
    BY <1>1, <1>2, <1>3, <1>4 DEF FInv, Holds

\* The books stay.
LEMMA TakesNone ==
    ASSUME FInv, books' = books, ready' = ready, missed' = missed
    PROVE  Takes
<1>1. Below(ready, books, exch) /\ missed \subseteq Conns \X Slugs
    BY DEF FInv, FTypes, Below
<1>2. \A d \in Conns : RightOf(d, missed, ready, books, exch, streams[d], requests[d], told[d])
    BY DEF FInv, Right
<1> QED
    BY <1>1, <1>2 DEF Takes

LEMMA Dropping ==
    ASSUME FInv, NEW c \in Conns, links[c] \in {"opening", "up"}, links'[c] = links[c], NEW r \in requests[c], PM!Drop(c, r)
    PROVE  Moves(c) /\ requests'[c] = requests[c] \ {r}
<1> DEFINE sv == streams[c]
           sb == requests[c]
           cs == asks[c]
           w == told[c]
           sb2 == sb \ {r}
           cs2 == Append(cs, Unsub(r))
<1>0. FTypes /\ Holds(c)
    BY DEF FInv, Holds
<1>1. requests' = [requests EXCEPT ![c] = sb2] /\ asks' = [asks EXCEPT ![c] = cs2]
    BY DEF PM!Drop, PM!Unsubscribe, Unsub
<1>2. /\ requests'[c] = sb2 /\ asks'[c] = cs2
      /\ \A d \in Conns \ {c} : requests'[d] = requests[d] /\ asks'[d] = asks[d]
    BY <1>0, <1>1 DEF FTypes
<1>3. /\ limit \in Limits /\ sv \in SUBSET Grants /\ sb \in SUBSET Grants /\ IsFiniteSet(sb) /\ cs \in Seq(Orders)
    BY <1>0, Connection
<1>4. AskedOf(limit, links[c], sv, sb, cs, w) /\ TellsOf(exch, sv, sb, w) /\ Up(links[c])
    BY <1>0 DEF Holds, Asked, Latest, Up
<1>5. cs2 \in Seq(Orders)
    <2>1. Unsub(r) \in Orders
        BY <1>3 DEF Unsub, Orders
    <2> QED
        BY <1>3, <2>1
<1>6. sb2 \in SUBSET Grants /\ IsFiniteSet(sb2) /\ sb2 \subseteq sb
    BY <1>3, FS_RemoveElement
<1>7. requests' \in [Conns -> SUBSET Grants] /\ asks' \in [Conns -> Seq(Orders)]
    BY <1>0, <1>1, <1>5, <1>6 DEF FTypes
<1>8. AskedOf(limit, links[c], sv, sb2, cs2, w)
    <2>1. sb2 = sb \ {r} /\ cs2 = Append(cs, Unsub(r)) /\ r \in sb
        OBVIOUS
    <2> HIDE DEF sv, sb, cs, w, sb2, cs2
    <2> QED
        BY <1>3, <1>4, <2>1, AskDrop
<1>9. /\ TellsOf(exch, sv, sb2, w)
      /\ \A gs, rd, bk : RightOf(c, gs, rd, bk, exch, sv, sb, w) => RightOf(c, gs, rd, bk, exch, sv, sb2, w)
    <2> HIDE DEF sv, sb, w, sb2
    <2> QED
        BY <1>4, <1>6, TellFewer
<1>10. AskedOf(limit, links'[c], streams[c], requests'[c], asks'[c], told[c])
    BY <1>2, <1>8
<1>11. IsFiniteSet(requests'[c]) /\ TellsOf(exch, streams[c], requests'[c], told[c])
    BY <1>2, <1>6, <1>9
<1>12. \A gs, rd, bk : RightOf(c, gs, rd, bk, exch, streams[c], requests[c], told[c])
                       => RightOf(c, gs, rd, bk, exch, streams[c], requests'[c], told[c])
    <2> DEFINE x == requests'[c]
    <2>1. x = sb2
        BY <1>2
    <2> HIDE DEF x, sv, sb, w, sb2
    <2>2. \A gs, rd, bk : RightOf(c, gs, rd, bk, exch, sv, sb, w) => RightOf(c, gs, rd, bk, exch, sv, x, w)
        BY ONLY <1>9, <2>1
    <2> QED
        BY <2>2 DEF x, sv, sb, w
<1>13. Moves(c)
    BY ONLY <1>2, <1>7, <1>10, <1>11, <1>12 DEF Moves
<1> QED
    BY <1>2, <1>13

LEMMA AskLink ==
    ASSUME NEW l, NEW ln, NEW ln2, Up(ln), Up(ln2), NEW sv, NEW sb, NEW cs, NEW w, AskedOf(l, ln, sv, sb, cs, w)
    PROVE  AskedOf(l, ln2, sv, sb, cs, w)
    BY DEF AskedOf

LEMMA Adding ==
    ASSUME FInv, NEW c \in Conns, links[c] \in {"opening", "up"}, NEW todo \in SUBSET Slugs,
           todo \cap Covers(requests[c]) = {},
           Cardinality(requests[c]) + Chunks(limit, Cardinality(todo)) <= limit.subs,
           NEW ch, ~ch => Covers(requests[c]) \cup todo = wants[c], PM!Add(c, todo)
    PROVE  /\ Moves(c) /\ LineOf(limit, links'[c], syncs'[c], requests'[c], wants[c], ch)
           /\ \A d \in Conns \ {c} : links'[d] = links[d] /\ syncs'[d] = syncs[d]
           /\ links' \in [Conns -> {"new", "down", "opening", "up"}] /\ syncs' \in [Conns -> Syncs]
<1> DEFINE sv == streams[c]
           sb == requests[c]
           cs == asks[c]
           w == told[c]
           id == PM!Fresh(c)
           ln == links[c]
           wn == wants[c]
<1>0. FTypes /\ Holds(c)
    BY DEF FInv, Holds
<1>1. PICK ts \in SUBSET todo :
          /\ Cardinality(ts) = limit.chunk \/ (ts = todo /\ Cardinality(ts) < limit.chunk)
          /\ ts = {} => requests' = requests /\ asks' = asks
          /\ ts # {} => /\ requests' = [requests EXCEPT ![c] = sb \cup {PM!Request(id, ts)}]
                        /\ asks' = [asks EXCEPT ![c] = Append(cs, PM!Subscribe(PM!Request(id, ts)))]
          /\ syncs' = [syncs EXCEPT ![c] = IF ts = todo THEN PM!Idle ELSE [at |-> "add", todo |-> todo \ ts]]
          /\ ts = todo => PM!Synced(c)
          /\ ts # todo => links' = links
    BY StreamSame DEF PM!Add
<1> DEFINE r == [id |-> id, slugs |-> ts]
           sb2 == IF ts = {} THEN sb ELSE sb \cup {r}
           cs2 == IF ts = {} THEN cs ELSE Append(cs, Sub(r))
           sy2 == IF ts = todo THEN PM!Idle ELSE [at |-> "add", todo |-> todo \ ts]
           ln2 == IF ts = todo THEN "up" ELSE ln
<1>2. /\ limit \in Limits /\ sv \in SUBSET Grants /\ sb \in SUBSET Grants /\ IsFiniteSet(sb) /\ cs \in Seq(Orders)
    BY <1>0, Connection
<1>3. AskedOf(limit, ln, sv, sb, cs, w) /\ TellsOf(exch, sv, sb, w) /\ Apart(sb) /\ Up(ln)
    BY <1>0 DEF Holds, Asked, Latest, Line, LineOf, Apart, Up
<1>4. id \in Nat /\ (\A q \in sv \cup sb \cup Of(cs) : q.id # id) /\ \A j \in 1..Len(w) : w[j].id # id
    BY <1>0, FreshOf
<1>5. r \in Grants /\ r.id = id /\ r.slugs = ts /\ Sub(r) \in Orders
    <2>1. r \in Grants /\ r.id = id /\ r.slugs = ts
        BY <1>4 DEF Grants
    <2> QED
        BY <2>1 DEF Sub, Orders
<1>6. requests' = [requests EXCEPT ![c] = sb2] /\ asks' = [asks EXCEPT ![c] = cs2] /\ syncs' = [syncs EXCEPT ![c] = sy2]
    <2>1. requests \in [Conns -> SUBSET Grants] /\ asks \in [Conns -> Seq(Orders)]
        BY <1>0 DEF FTypes
    <2>2. PM!Request(id, ts) = r /\ PM!Subscribe(r) = Sub(r)
        BY DEF PM!Request, PM!Subscribe, Sub
    <2>3. CASE ts = {}
        BY <1>1, <2>1, <2>3
    <2>4. CASE ts # {}
        BY <1>1, <2>2, <2>4
    <2> QED
        BY <1>1, <2>3, <2>4
<1>7. links' = [links EXCEPT ![c] = ln2]
    <2>1. links \in [Conns -> {"new", "down", "opening", "up"}]
        BY <1>0 DEF FTypes
    <2> QED
        BY <1>1, <2>1 DEF PM!Synced
<1>8. LineOf(limit, ln2, sy2, sb2, wn, ch) /\ sy2 \in Syncs /\ IsFiniteSet(sb2)
      /\ Cardinality(ts) <= limit.chunk /\ (ts # {} => Cardinality(sb2) <= limit.subs)
    <2>1. sb2 = IF ts = {} THEN sb ELSE sb \cup {r}
        OBVIOUS
    <2>2. sy2 = IF ts = todo THEN PM!Idle ELSE [at |-> "add", todo |-> todo \ ts]
        OBVIOUS
    <2>3. ln2 = IF ts = todo THEN "up" ELSE ln
        OBVIOUS
    <2>4. ln \in {"opening", "up"}
        OBVIOUS
    <2>5. todo \cap Covers(sb) = {} /\ (~ch => Covers(sb) \cup todo = wn)
        OBVIOUS
    <2>6. Cardinality(sb) + Chunks(limit, Cardinality(todo)) <= limit.subs
        OBVIOUS
    <2>7. Cardinality(ts) = limit.chunk \/ (ts = todo /\ Cardinality(ts) < limit.chunk)
        BY <1>1
    <2>8. limit \in Limits /\ sb \in SUBSET Grants /\ IsFiniteSet(sb) /\ Apart(sb) /\ r.slugs = ts
        BY <1>2, <1>3, <1>5
    <2>9. ts \in SUBSET todo /\ todo \in SUBSET Slugs
        BY <1>1
    <2> HIDE DEF sb, ln, wn, r, sb2, sy2, ln2
    <2>10. Packs(limit, ln, sb, wn, ch, todo, ts, r, sb2, sy2, ln2)
        BY ONLY <2>1, <2>2, <2>3, <2>4, <2>5, <2>6, <2>7, <2>8, <2>9, Zenon DEF Packs
    <2> QED
        BY ONLY <2>10, LineAdd
<1>9. Up(ln2)
    BY <1>3 DEF Up
<1>10. AskedOf(limit, ln2, sv, sb2, cs2, w)
    <2>1. CASE ts = {}
        <3>1. sb2 = sb /\ cs2 = cs
            BY <2>1
        <3> HIDE DEF sv, sb, cs, w, sb2, cs2, ln, ln2
        <3> QED
            BY <1>3, <1>9, <3>1, AskLink
    <2>2. CASE ts # {}
        <3>1. sb2 = sb \cup {r} /\ cs2 = Append(cs, Sub(r))
            BY <2>2
        <3>2. Cardinality(r.slugs) <= limit.chunk /\ Cardinality(sb2) <= limit.subs
            BY <1>5, <1>8, <2>2
        <3>3. (\A q \in sv \cup sb \cup Of(cs) : q.id # r.id) /\ \A j \in 1..Len(w) : w[j].id # r.id
            BY <1>4, <1>5
        <3> HIDE DEF sv, sb, cs, w, sb2, cs2, ln, ln2, r
        <3> QED
            BY <1>2, <1>3, <1>5, <1>9, <3>1, <3>2, <3>3, AskMore
    <2> QED
        BY <2>1, <2>2
<1>11. /\ TellsOf(exch, sv, sb2, w)
       /\ \A gs, rd, bk : RightOf(c, gs, rd, bk, exch, sv, sb, w) => RightOf(c, gs, rd, bk, exch, sv, sb2, w)
    <2>1. CASE ts = {}
        BY <1>3, <2>1
    <2>2. CASE ts # {}
        <3>1. sb2 = sb \cup {r}
            BY <2>2
        <3>2. r \notin sv /\ \A j \in 1..Len(w) : w[j].id # r.id
            BY <1>4, <1>5
        <3> HIDE DEF sv, sb, w, sb2, r
        <3> QED
            BY <1>3, <3>1, <3>2, TellMore
    <2> QED
        BY <2>1, <2>2
<1>12. sb2 \in SUBSET Grants /\ cs2 \in Seq(Orders)
    BY <1>2, <1>5
<1>13. /\ requests'[c] = sb2 /\ asks'[c] = cs2 /\ links'[c] = ln2 /\ syncs'[c] = sy2
       /\ \A d \in Conns \ {c} : /\ requests'[d] = requests[d] /\ asks'[d] = asks[d]
                                 /\ links'[d] = links[d] /\ syncs'[d] = syncs[d]
    <2> HIDE DEF sb2, cs2, ln2, sy2
    <2> QED
        BY <1>0, <1>6, <1>7 DEF FTypes
<1>14. /\ requests' \in [Conns -> SUBSET Grants] /\ asks' \in [Conns -> Seq(Orders)]
       /\ links' \in [Conns -> {"new", "down", "opening", "up"}] /\ syncs' \in [Conns -> Syncs]
    <2>1. ln2 \in {"new", "down", "opening", "up"}
        OBVIOUS
    <2> HIDE DEF sb2, cs2, ln2, sy2
    <2> QED
        BY <1>0, <1>6, <1>7, <1>8, <1>12, <2>1 DEF FTypes
<1>15. Moves(c)
    <2> DEFINE x == requests'[c]
    <2>1. x = sb2
        BY <1>13
    <2>2. AskedOf(limit, links'[c], streams[c], x, asks'[c], told[c]) /\ IsFiniteSet(x) /\ TellsOf(exch, streams[c], x, told[c])
        <3> HIDE DEF x, sb2, cs2, ln2
        <3> QED
            BY <1>8, <1>10, <1>11, <1>13, <2>1
    <2>3. \A gs, rd, bk : RightOf(c, gs, rd, bk, exch, sv, sb, w) => RightOf(c, gs, rd, bk, exch, sv, x, w)
        <3> HIDE DEF x, sv, sb, w, sb2
        <3> QED
            BY ONLY <1>11, <2>1
    <2> QED
        BY ONLY <1>13, <1>14, <2>2, <2>3 DEF Moves, x, sv, sb, w
<1>16. LineOf(limit, links'[c], syncs'[c], requests'[c], wants[c], ch)
    <2> HIDE DEF sb2, ln2, sy2
    <2> QED
        BY <1>8, <1>13
<1> QED
    BY <1>13, <1>14, <1>15, <1>16

LEMMA Altering ==
    ASSUME FInv, NEW c \in Conns, altered' = PM!StillChanged(c)
    PROVE  /\ altered' \in [Conns -> BOOLEAN] /\ \A d \in Conns \ {c} : altered'[d] = altered[d]
           /\ ~altered'[c] /\ syncs[c].at # "idle" => ~altered[c]
<1>1. altered \in [Conns -> BOOLEAN]
    BY DEF FInv, FTypes
<1>2. altered' = [altered EXCEPT ![c] = altered[c] /\ syncs[c].at # "idle"]
    BY DEF PM!StillChanged
<1>3. altered' \in [Conns -> BOOLEAN] /\ \A d \in Conns \ {c} : altered'[d] = altered[d]
    BY <1>1, <1>2
<1>4. altered'[c] = (altered[c] /\ syncs[c].at # "idle")
    BY <1>1, <1>2, Zenon
<1> QED
    BY <1>3, <1>4

\* A _sync is of a connection that is up, or opening.
LEMMA Underway ==
    ASSUME FInv, NEW c \in Conns, PM!Begins(c) \/ syncs[c].at \in {"drop", "clear", "add"}
    PROVE  links[c] \in {"opening", "up"}
<1>1. Line(c) /\ links \in [Conns -> {"new", "down", "opening", "up"}]
    BY DEF FInv, FTypes
<1>2. CASE PM!ToSync(c)
    BY <1>2 DEF PM!ToSync
<1>3. CASE syncs[c].at \in {"start", "drop", "clear", "add"}
    BY <1>1, <1>3 DEF Line, LineOf
<1> QED
    BY <1>2, <1>3 DEF PM!Begins

LEMMA SyncDropStep ==
    ASSUME FInv, NEW c \in Conns, PM!SyncDrop(c)
    PROVE  FInv'
<1>0. FTypes /\ Line(c) /\ Apart(requests[c])
    BY DEF FInv, Line, LineOf, Apart
<1>1. PICK todo \in SUBSET requests[c] :
          /\ (PM!Begins(c) /\ todo = PM!Unwanted(c)) \/ (syncs[c].at = "drop" /\ todo = syncs[c].todo)
          /\ \E r \in todo : PM!Drop(c, r) /\ syncs' = [syncs EXCEPT ![c] = [at |-> "drop", todo |-> todo \ {r}]]
    BY DEF PM!SyncDrop
<1>2. PICK r \in todo : PM!Drop(c, r) /\ syncs' = [syncs EXCEPT ![c] = [at |-> "drop", todo |-> todo \ {r}]]
    BY <1>1
<1>3. Stays /\ links' = links /\ owned' = owned /\ books' = books /\ ready' = ready /\ missed' = missed
    BY DEF PM!SyncDrop, PM!side, Stays
<1>4. altered' = PM!StillChanged(c)
    BY DEF PM!SyncDrop
<1>5. links[c] \in {"opening", "up"}
    BY <1>1, Underway
<1>6. ~altered'[c] => \A q \in requests[c] \ todo : q.slugs \subseteq wants[c]
    <2>1. CASE todo = PM!Unwanted(c)
        BY <2>1 DEF PM!Unwanted
    <2>2. CASE syncs[c].at = "drop" /\ todo = syncs[c].todo
        <3>1. syncs[c].at # "idle"
            BY <2>2
        <3>2. ~altered'[c] => ~altered[c]
            BY <1>4, <3>1, Altering
        <3>3. ~altered[c] => \A q \in requests[c] \ syncs[c].todo : q.slugs \subseteq wants[c]
            BY <1>0, <2>2 DEF Line, LineOf
        <3> QED
            BY <2>2, <3>2, <3>3
    <2> QED
        BY <1>1, <2>1, <2>2
<1>7. Moves(c) /\ requests'[c] = requests[c] \ {r}
    BY <1>2, <1>3, <1>5, Dropping
<1> DEFINE sb == requests[c]
           sb2 == requests'[c]
           sy2 == [at |-> "drop", todo |-> todo \ {r}]
           ch == altered'[c]
           wn == wants[c]
           ln == links[c]
<1>8. syncs'[c] = sy2 /\ \A d \in Conns \ {c} : syncs'[d] = syncs[d]
    BY <1>0, <1>2 DEF FTypes
<1>9. LineOf(limit, ln, sy2, sb2, wn, ch) /\ sy2 \in Syncs
    <2>1. sb \in SUBSET Grants /\ todo \in SUBSET sb /\ r \in sb /\ sb2 = sb \ {r} /\ Apart(sb) /\ ln \in {"opening", "up"}
        BY <1>0, <1>1, <1>2, <1>5, <1>7 DEF FTypes
    <2>2. ~ch => \A q \in sb \ todo : q.slugs \subseteq wn
        BY <1>6
    <2>3. sy2 = [at |-> "drop", todo |-> todo \ {r}] \/ sy2 = [at |-> "clear", todo |-> {}]
        OBVIOUS
    <2>4. r \in todo
        BY <1>2
    <2> HIDE DEF sb, sb2, sy2, ch, wn, ln
    <2> QED
        BY ONLY <2>1, <2>2, <2>3, LineDrop
<1>10. Goes(c)
    <2>1. syncs' \in [Conns -> Syncs]
        BY <1>0, <1>2, <1>9 DEF FTypes
    <2>2. LineOf(limit, links'[c], syncs'[c], requests'[c], wants[c], altered'[c])
        BY <1>3, <1>8, <1>9
    <2>3. altered' \in [Conns -> BOOLEAN] /\ \A d \in Conns \ {c} : altered'[d] = altered[d]
        BY <1>4, Altering
    <2>4. links' \in [Conns -> {"new", "down", "opening", "up"}] /\ owned' \in [Conns -> SUBSET Slugs]
        BY <1>0, <1>3 DEF FTypes
    <2> QED
        BY ONLY <1>3, <1>8, <2>1, <2>2, <2>3, <2>4 DEF Goes
<1>11. Takes
    BY <1>3, TakesNone
<1> QED
    BY <1>3, <1>7, <1>10, <1>11, Syncing

LEMMA AddStep ==
    ASSUME FInv, NEW c \in Conns, Stays, Takes, owned' \in [Conns -> SUBSET Slugs],
           altered' \in [Conns -> BOOLEAN], \A d \in Conns \ {c} : altered'[d] = altered[d],
           links[c] \in {"opening", "up"}, NEW todo \in SUBSET Slugs, todo \cap Covers(requests[c]) = {},
           Cardinality(requests[c]) + Chunks(limit, Cardinality(todo)) <= limit.subs,
           ~altered'[c] => Covers(requests[c]) \cup todo = wants[c], PM!Add(c, todo)
    PROVE  FInv'
<1> DEFINE ch == altered'[c]
<1>1. ~ch => Covers(requests[c]) \cup todo = wants[c]
    OBVIOUS
<1> HIDE DEF ch
<1>2. /\ Moves(c) /\ LineOf(limit, links'[c], syncs'[c], requests'[c], wants[c], ch)
      /\ \A d \in Conns \ {c} : links'[d] = links[d] /\ syncs'[d] = syncs[d]
      /\ links' \in [Conns -> {"new", "down", "opening", "up"}] /\ syncs' \in [Conns -> Syncs]
    BY <1>1, Adding
<1>3. LineOf(limit, links'[c], syncs'[c], requests'[c], wants[c], altered'[c])
    BY <1>2 DEF ch
<1>4. Goes(c)
    BY <1>2, <1>3 DEF Goes
<1> QED
    BY <1>2, <1>4, Syncing

LEMMA SyncMoreStep ==
    ASSUME FInv, NEW c \in Conns, PM!SyncMore(c)
    PROVE  FInv'
<1>0. FTypes /\ Line(c)
    BY DEF FInv
<1>1. syncs[c].at = "add" /\ PM!Add(c, syncs[c].todo) /\ altered' = altered /\ owned' = owned
    BY DEF PM!SyncMore
<1>2. Stays /\ books' = books /\ ready' = ready /\ missed' = missed
    BY DEF PM!SyncMore, PM!side, Stays
<1>3. links[c] \in {"opening", "up"}
    BY <1>1, Underway
<1> DEFINE todo == syncs[c].todo
<1>4. /\ todo \subseteq Slugs /\ todo \cap Covers(requests[c]) = {}
      /\ Cardinality(requests[c]) + Chunks(limit, Cardinality(todo)) <= limit.subs
      /\ ~altered[c] => Covers(requests[c]) \cup todo = wants[c]
    BY <1>0, <1>1 DEF Line, LineOf
<1>5. Takes
    BY <1>2, TakesNone
<1>6. altered' \in [Conns -> BOOLEAN] /\ owned' \in [Conns -> SUBSET Slugs]
    BY <1>0, <1>1 DEF FTypes
<1>7. (~altered'[c] => Covers(requests[c]) \cup todo = wants[c]) /\ \A d \in Conns \ {c} : altered'[d] = altered[d]
    BY <1>1, <1>4
<1>8. PM!Add(c, todo)
    BY <1>1
<1> HIDE DEF todo
<1> QED
    BY <1>2, <1>3, <1>4, <1>5, <1>6, <1>7, <1>8, AddStep

LEMMA SyncClearStep ==
    ASSUME FInv, NEW c \in Conns, PM!SyncClear(c)
    PROVE  FInv'
<1>0. FTypes /\ Wanted /\ Line(c) /\ Apart(requests[c])
    BY DEF FInv, Line, LineOf, Apart
<1>1. syncs[c].at = "clear" /\ altered' = altered /\ owned' = owned
    BY DEF PM!SyncClear
<1>2. Stays /\ books' = books /\ ready' = ready /\ missed' = missed
    BY DEF PM!SyncClear, PM!side, Stays
<1>3. links[c] \in {"opening", "up"}
    BY <1>1, Underway
<1>4. Takes
    BY <1>2, TakesNone
<1>5. altered' \in [Conns -> BOOLEAN] /\ owned' \in [Conns -> SUBSET Slugs]
    BY <1>0, <1>1 DEF FTypes
<1>6. CASE (\E r \in requests[c] : PM!Drop(c, r)) /\ links' = links /\ syncs' = syncs
    <2>1. PICK r \in requests[c] : PM!Drop(c, r)
        BY <1>6
    <2>2. Moves(c) /\ requests'[c] = requests[c] \ {r}
        BY <1>3, <1>6, <2>1, Dropping
    <2>3. Apart(requests'[c])
        BY <1>0, <2>2 DEF Apart
    <2>4. LineOf(limit, links'[c], syncs'[c], requests'[c], wants[c], altered'[c])
        BY <1>1, <1>3, <1>6, <2>3 DEF LineOf, Apart
    <2>5. /\ links' \in [Conns -> {"new", "down", "opening", "up"}] /\ syncs' \in [Conns -> Syncs]
          /\ \A d \in Conns \ {c} : links'[d] = links[d] /\ syncs'[d] = syncs[d] /\ altered'[d] = altered[d]
        BY <1>0, <1>1, <1>6 DEF FTypes
    <2>6. Goes(c)
        BY ONLY <1>5, <2>4, <2>5 DEF Goes
    <2> QED
        BY <1>2, <1>4, <2>2, <2>6, Syncing
<1>7. CASE requests[c] = {} /\ PM!Add(c, wants[c])
    <2> DEFINE todo == wants[c]
    <2>1. todo \subseteq Slugs /\ Covers(requests[c]) = {} /\ Cardinality(requests[c]) = 0
        BY <1>0, <1>7, FS_EmptySet DEF FTypes, Covers
    <2>2. Cardinality(todo) \in Nat /\ Cardinality(todo) <= limit.chunk * limit.subs
        <3>1. IsFiniteSet(todo)
            BY <2>1, StreamConstants, FS_Subset
        <3> QED
            BY <1>0, <3>1, FS_CardinalityType DEF Wanted
    <2>3. Chunks(limit, Cardinality(todo)) \in Nat /\ Chunks(limit, Cardinality(todo)) <= limit.subs
        <3> HIDE DEF todo
        <3> QED
            BY <1>0, <2>2, ChunksOf DEF FTypes
    <2>4. Cardinality(requests[c]) + Chunks(limit, Cardinality(todo)) <= limit.subs
        BY <2>1, <2>3
    <2>5. Covers(requests[c]) \cup todo = wants[c] /\ todo \cap Covers(requests[c]) = {} /\ PM!Add(c, todo)
        BY <1>7, <2>1
    <2>6. \A d \in Conns \ {c} : altered'[d] = altered[d]
        BY <1>1
    <2> HIDE DEF todo
    <2> QED
        BY <1>2, <1>3, <1>4, <1>5, <2>1, <2>4, <2>5, <2>6, AddStep
<1> QED
    BY <1>6, <1>7 DEF PM!SyncClear

LEMMA SyncAddStep ==
    ASSUME FInv, NEW c \in Conns, PM!SyncAdd(c)
    PROVE  FInv'
<1> DEFINE gone == PM!Gone(c)
           todo == wants[c] \ Covers(requests[c])
<1>0. FTypes /\ Wanted /\ Line(c) /\ Apart(requests[c])
    BY DEF FInv, Line, LineOf, Apart
<1>1. (PM!Begins(c) /\ PM!Unwanted(c) = {}) \/ (syncs[c].at = "drop" /\ syncs[c].todo = {})
    BY DEF PM!SyncAdd
<1>2. /\ books' = [s \in Slugs |-> IF s \in gone THEN 0 ELSE books[s]] /\ ready' = ready \ gone
      /\ missed' = missed \cup PM!Bereft(gone) /\ owned' = [owned EXCEPT ![c] = wants[c]]
      /\ altered' = PM!StillChanged(c)
    BY DEF PM!SyncAdd
<1>3. Stays
    BY DEF PM!SyncAdd, PM!side, Stays
<1>4. links[c] \in {"opening", "up"}
    BY <1>1, Underway
<1>5. altered' \in [Conns -> BOOLEAN] /\ \A d \in Conns \ {c} : altered'[d] = altered[d]
    BY <1>2, Altering
<1>6. owned' \in [Conns -> SUBSET Slugs] /\ gone \subseteq Slugs
    BY <1>0, <1>2 DEF FTypes, PM!Gone
<1>7. ~altered'[c] => \A q \in requests[c] : q.slugs \subseteq wants[c]
    <2>1. CASE PM!Unwanted(c) = {}
        BY <2>1 DEF PM!Unwanted
    <2>2. CASE syncs[c].at = "drop" /\ syncs[c].todo = {}
        <3>1. ~altered'[c] => ~altered[c]
            BY <1>2, <2>2, Altering
        <3>2. ~altered[c] => \A q \in requests[c] \ syncs[c].todo : q.slugs \subseteq wants[c]
            BY <1>0, <2>2 DEF Line, LineOf
        <3> QED
            BY <2>2, <3>1, <3>2
    <2> QED
        BY <1>1, <2>1, <2>2
<1> HIDE DEF gone
<1>8. Takes
    <2>1. missed' \subseteq Conns \X Slugs
        <3>1. PM!Bereft(gone) \subseteq Conns \X gone
            BY DEF PM!Bereft
        <3>2. Conns \X gone \subseteq Conns \X Slugs
            BY <1>6
        <3>3. missed \subseteq Conns \X Slugs
            BY <1>0 DEF FTypes
        <3> QED
            BY <1>2, <3>1, <3>2, <3>3
    <2>2. Below(ready', books', exch)
        <3>1. /\ books \in [Slugs -> Nat] /\ \A s \in Slugs : books[s] <= exch[s] /\ exch[s] \in Nat
              /\ ready \subseteq {s \in Slugs : books[s] # 0}
            BY <1>0 DEF FTypes
        <3>2. books' \in [Slugs -> Nat] /\ \A s \in Slugs : books'[s] <= exch[s]
            BY <1>2, <3>1
        <3>3. ready' \subseteq {s \in Slugs : books'[s] # 0}
            BY <1>2, <3>1
        <3> QED
            BY <3>2, <3>3 DEF Below
    <2>3. \A s \in Slugs \ gone : books'[s] = books[s]
        BY <1>2
    <2>4. \A d \in Conns : RightOf(d, missed', ready', books', exch, streams[d], requests[d], told[d])
        BY <1>2, <2>3, GoneForAll
    <2> QED
        BY <2>1, <2>2, <2>4 DEF Takes
<1>9. CASE PM!Fits(c) /\ PM!Add(c, wants[c] \ PM!Subscribed(c))
    <2>1. PM!Subscribed(c) = Covers(requests[c])
        BY DEF PM!Subscribed, Covers
    <2>2. PM!Add(c, todo)
        BY <1>9, <2>1
    <2>3. Cardinality(requests[c]) + Chunks(limit, Cardinality(todo)) <= limit.subs
        BY <1>9, <2>1, StreamSame DEF PM!Fits, PM!Chunks, Chunks
    <2>4. todo \subseteq Slugs /\ todo \cap Covers(requests[c]) = {}
        BY <1>0 DEF FTypes
    <2>5. ~altered'[c] => Covers(requests[c]) \cup todo = wants[c]
        BY <1>7 DEF Covers
    <2> HIDE DEF todo
    <2> QED
        BY <1>3, <1>4, <1>5, <1>6, <1>8, <2>2, <2>3, <2>4, <2>5, AddStep
<1>10. CASE /\ \E r \in requests[c] : PM!Drop(c, r)
            /\ syncs' = [syncs EXCEPT ![c] = [at |-> "clear", todo |-> {}]] /\ links' = links
    <2>1. PICK r \in requests[c] : PM!Drop(c, r)
        BY <1>10
    <2>2. Moves(c) /\ requests'[c] = requests[c] \ {r}
        BY <1>4, <1>10, <2>1, Dropping
    <2> DEFINE sy2 == [at |-> "clear", todo |-> {}]
    <2>3. Apart(requests'[c])
        BY <1>0, <2>2 DEF Apart
    <2>4. sy2.at = "clear" /\ sy2 \in Syncs
        BY DEF Syncs
    <2> HIDE DEF sy2
    <2>5. syncs' = [syncs EXCEPT ![c] = sy2]
        BY <1>10 DEF sy2
    <2>6. syncs'[c] = sy2 /\ (\A d \in Conns \ {c} : syncs'[d] = syncs[d]) /\ syncs' \in [Conns -> Syncs]
        BY <1>0, <2>4, <2>5 DEF FTypes
    <2>7. LineOf(limit, links'[c], syncs'[c], requests'[c], wants[c], altered'[c])
        BY <1>4, <1>10, <2>3, <2>4, <2>6 DEF LineOf, Apart
    <2>8. links' \in [Conns -> {"new", "down", "opening", "up"}] /\ \A d \in Conns \ {c} : links'[d] = links[d]
        BY <1>0, <1>10 DEF FTypes
    <2>9. Goes(c)
        BY ONLY <1>5, <1>6, <2>6, <2>7, <2>8 DEF Goes
    <2> QED
        BY <1>3, <1>8, <2>2, <2>9, Syncing
<1> QED
    BY <1>9, <1>10 DEF PM!SyncAdd

-----------------------------------------------------------------------------
(* The specification *)

LEMMA StreamInit ==
    ASSUME PM!Init
    PROVE  FInv
<1>1. /\ limit \in Limits /\ exch = [s \in Slugs |-> 1]
      /\ links = [c \in Conns |-> "new"] /\ streams = [c \in Conns |-> {}]
      /\ asks = [c \in Conns |-> <<>>] /\ told = [c \in Conns |-> <<>>]
      /\ wants = [c \in Conns |-> {}] /\ altered = [c \in Conns |-> FALSE]
      /\ owned = [c \in Conns |-> {}] /\ requests = [c \in Conns |-> {}]
      /\ syncs = [c \in Conns |-> PM!Idle]
      /\ books = [s \in Slugs |-> 0] /\ ready = {} /\ missed = {}
    BY DEF PM!Init
<1>2. limit.books \in Nat \ {0} /\ limit.chunk \in Nat \ {0} /\ limit.subs \in Nat
    BY <1>1, StreamConstants
<1>3. IsFiniteSet({}) /\ Cardinality({}) = 0
    BY FS_EmptySet
<1>4. PM!Idle \in Syncs /\ PM!Idle.at = "idle"
    BY DEF PM!Idle, Syncs
<1>5. FTypes
    <2>1. exch \in [Slugs -> 1..limit.books] /\ books \in [Slugs -> Nat] /\ \A s \in Slugs : books[s] <= exch[s]
        BY <1>1, <1>2
    <2>2. syncs \in [Conns -> Syncs]
        BY <1>1, <1>4
    <2>3. /\ links \in [Conns -> {"new", "down", "opening", "up"}]
          /\ asks \in [Conns -> Seq(Orders)] /\ told \in [Conns -> Seq(Deliveries)]
          /\ altered \in [Conns -> BOOLEAN]
        BY <1>1
    <2>4. /\ streams \in [Conns -> SUBSET Grants] /\ requests \in [Conns -> SUBSET Grants]
          /\ \A c \in Conns : IsFiniteSet(streams[c]) /\ IsFiniteSet(requests[c])
          /\ wants \in [Conns -> SUBSET Slugs] /\ owned \in [Conns -> SUBSET Slugs]
        BY <1>1, <1>3
    <2>5. limit \in Limits /\ ready \subseteq {s \in Slugs : books[s] # 0} /\ missed \subseteq Conns \X Slugs
        BY <1>1
    <2> QED
        BY <2>1, <2>2, <2>3, <2>4, <2>5 DEF FTypes
<1>6. Wanted
    <2>1. 0 <= limit.chunk * limit.subs
        BY <1>2
    <2> QED
        BY <1>1, <1>3, <2>1 DEF Wanted
<1>7. ASSUME NEW c \in Conns PROVE Asked(c) /\ Latest(c) /\ Line(c) /\ Right(c)
    <2>1. /\ links[c] = "new" /\ streams[c] = {} /\ requests[c] = {} /\ asks[c] = <<>> /\ told[c] = <<>>
          /\ syncs[c] = PM!Idle /\ wants[c] = {}
        BY <1>1
    <2>2. ~Up("new") /\ limit \in Limits
        BY <1>1 DEF Up
    <2>3. AskedOf(limit, "new", {}, {}, <<>>, <<>>) /\ TellsOf(exch, {}, {}, <<>>)
        BY <2>2, Nothing
    <2>4. Line(c)
        BY <1>4, <2>1 DEF Line, LineOf
    <2>5. Right(c)
        BY <2>1 DEF Right, RightOf
    <2> QED
        BY <2>1, <2>3, <2>4, <2>5 DEF Asked, Latest
<1> QED
    BY <1>5, <1>6, <1>7 DEF FInv

LEMMA StreamStep ==
    ASSUME FInv, [MCNext]_all
    PROVE  FInv'
<1>1. CASE PM!Next
    <2>1. ASSUME NEW s \in limit.slugs, PM!Change(s) PROVE FInv'
        BY <2>1, ChangeStep
    <2>2. ASSUME NEW new \in SUBSET limit.slugs, PM!SetMarkets(new) PROVE FInv'
        BY <2>2, SetMarketsStep
    <2>3. ASSUME NEW c \in Conns, PM!Accept(c) \/ PM!Handle(c) PROVE FInv'
        BY <2>3, AcceptStep, HandleStep
    <2>4. ASSUME NEW c \in Conns, PM!Connect(c) \/ PM!Disconnect(c) PROVE FInv'
        BY <2>4, ConnectStep, DisconnectStep
    <2>5. ASSUME NEW c \in Conns, PM!SyncDrop(c) \/ PM!SyncAdd(c) PROVE FInv'
        BY <2>5, SyncDropStep, SyncAddStep
    <2>6. ASSUME NEW c \in Conns, PM!SyncClear(c) \/ PM!SyncMore(c) PROVE FInv'
        BY <2>6, SyncClearStep, SyncMoreStep
    <2> QED
        BY <1>1, <2>1, <2>2, <2>3, <2>4, <2>5, <2>6 DEF PM!Next
<1>2. CASE UNCHANGED stream
    <2>1. /\ limit' = limit /\ exch' = exch /\ links' = links /\ streams' = streams /\ asks' = asks
          /\ told' = told /\ wants' = wants /\ altered' = altered /\ owned' = owned
          /\ requests' = requests /\ syncs' = syncs /\ books' = books /\ ready' = ready /\ missed' = missed
        BY <1>2 DEF stream
    <2>2. FTypes' /\ Wanted'
        BY <2>1 DEF FInv, FTypes, Wanted
    <2>3. ASSUME NEW c \in Conns PROVE (Asked(c) /\ Latest(c) /\ Line(c) /\ Right(c))'
        <3>1. Asked(c) /\ Latest(c) /\ Line(c) /\ Right(c)
            BY DEF FInv
        <3> QED
            BY <2>1, <3>1 DEF Asked, Latest, Line, Right
    <2> QED
        BY <2>2, <2>3 DEF FInv
<1> QED
    BY <1>1, <1>2 DEF MCNext, all

\* Without commands on their way, the server serves what _subs says, and no connection that isn't up
\* is served.
LEMMA WhatIsServed ==
    ASSUME FInv, NEW c \in Conns
    PROVE  /\ links[c] = "new" => streams[c] = {} /\ wants[c] = {}
           /\ links[c] = "up" /\ asks[c] = <<>> => streams[c] = requests[c]
           /\ Cardinality(streams[c]) <= limit.subs
           /\ \A r \in streams[c] : Cardinality(r.slugs) <= limit.chunk
<1>1. Asked(c) /\ Line(c) /\ asks[c] \in Seq(Orders)
    BY DEF FInv, FTypes
<1> DEFINE sv == streams[c]
           cs == asks[c]
<1>2. After(sv, cs, 0) = sv
    BY DEF After
<1>3. Len(cs) \in Nat /\ 0 \in 0..Len(cs)
    BY <1>1
<1>4. Cardinality(sv) <= limit.subs
    BY <1>1, <1>2, <1>3 DEF Asked, AskedOf
<1>5. links[c] = "up" /\ cs = <<>> => sv = requests[c]
    BY <1>1, <1>2 DEF Asked, AskedOf, Up
<1>6. links[c] = "new" => sv = {} /\ wants[c] = {}
    BY <1>1 DEF Asked, AskedOf, Line, LineOf, Up
<1>7. \A r \in sv : Cardinality(r.slugs) <= limit.chunk
    BY <1>1 DEF Asked, AskedOf
<1> QED
    BY <1>4, <1>5, <1>6, <1>7

LEMMA OnceQuiet ==
    ASSUME FInv, PM!Quiet, NEW c \in Conns
    PROVE  /\ Covers(streams[c]) = wants[c] /\ Apart(streams[c])
           /\ wants[c] # {} => streams[c] = requests[c] /\ told[c] = <<>>
<1>1. Line(c)
    BY DEF FInv
<1>2. CASE links[c] = "new"
    BY <1>2, WhatIsServed DEF Covers, Apart
<1>3. CASE links[c] # "new"
    <2>1. links[c] = "up" /\ asks[c] = <<>> /\ told[c] = <<>> /\ syncs[c].at = "idle" /\ ~altered[c]
        BY <1>3 DEF PM!Quiet, PM!Made
    <2>2. Apart(requests[c]) /\ Covers(requests[c]) = wants[c]
        BY <1>1, <2>1 DEF Line, LineOf, Apart
    <2> QED
        BY <2>1, <2>2, WhatIsServed
<1> QED
    BY <1>2, <1>3

LEMMA StreamedOnce == FInv => PM!ServedOnce
<1> SUFFICES ASSUME FInv, PM!Quiet, NEW s \in Slugs
             PROVE  Cardinality({m \in UNION {{c} \X streams[c] : c \in Conns} : s \in m[2].slugs})
                        = IF \E c \in Conns : s \in wants[c] THEN 1 ELSE 0
    BY StreamSame DEF PM!ServedOnce
<1> DEFINE A == {m \in UNION {{c} \X streams[c] : c \in Conns} : s \in m[2].slugs}
<1>1. \A m \in A : \E c \in Conns : \E r \in streams[c] : m = <<c, r>> /\ s \in r.slugs /\ s \in wants[c]
    BY OnceQuiet DEF Covers
<1>2. CASE \E c \in Conns : s \in wants[c]
    <2>1. PICK c \in Conns : s \in wants[c]
        BY <1>2
    <2>2. PICK r \in streams[c] : s \in r.slugs
        BY <2>1, OnceQuiet DEF Covers
    <2>3. <<c, r>> \in A
        BY <2>2
    <2>4. ASSUME NEW m \in A PROVE m = <<c, r>>
        <3>0. PICK d \in Conns : \E q \in streams[d] : m = <<d, q>> /\ s \in q.slugs /\ s \in wants[d]
            BY <1>1
        <3>1. PICK q \in streams[d] : m = <<d, q>> /\ s \in q.slugs /\ s \in wants[d]
            BY <3>0
        <3>2. d = c
            BY <2>1, <3>1 DEF FInv, Wanted
        <3>3. q = r
            BY <2>2, <3>1, <3>2, OnceQuiet DEF Apart
        <3> QED
            BY <3>1, <3>2, <3>3
    <2> HIDE DEF A
    <2>5. A = {<<c, r>>}
        BY <2>3, <2>4
    <2>6. Cardinality(A) = 1
        BY <2>5, FS_Singleton
    <2> QED
        BY <1>2, <2>6 DEF A
<1>3. CASE ~\E c \in Conns : s \in wants[c]
    <2>1. A = {}
        BY <1>1, <1>3
    <2> HIDE DEF A
    <2>2. Cardinality(A) = 0
        BY <2>1, FS_EmptySet
    <2> QED
        BY <1>3, <2>2 DEF A
<1> QED
    BY <1>2, <1>3

LEMMA BooksAreRight == FInv => PM!BooksRight
<1> SUFFICES ASSUME FInv, PM!Quiet, NEW c \in Conns, NEW s \in wants[c], <<c, s>> \notin missed
             PROVE  s \in ready /\ books[s] = exch[s]
    BY DEF PM!BooksRight
<1>1. Covers(streams[c]) = wants[c] /\ streams[c] = requests[c] /\ told[c] = <<>>
    BY OnceQuiet
<1>2. PICK r \in streams[c] \cap requests[c] : s \in r.slugs
    BY <1>1 DEF Covers
<1>3. s \in Slugs /\ Right(c)
    BY DEF FInv, FTypes
<1>4. \/ s \in ready /\ books[s] = exch[s]
      \/ \E k \in 1..Len(told[c]) : told[c][k] = Message(r.id, s, exch[s])
    BY <1>2, <1>3 DEF Right, RightOf
<1> QED
    BY <1>1, <1>4

\* Polymarket US is never asked for more subscriptions than it allows, or of more markets; and once
\* all is quiet every wanted market is streamed once, no other is, and its book is the exchange's,
\* unless the last one that came was thrown away or taken down: for any markets, connections and
\* limits, however changes of what is wanted, cut connections and the commands interleave.
THEOREM EachStreamedOnce == MCSpec => []OneStream
<1>1. MCInit => FInv
    BY StreamInit DEF MCInit
<1>2. FInv /\ [MCNext]_all => FInv'
    BY StreamStep
<1>3. FInv => OneStream
    <2>1. FInv => PM!WithinLimits
        BY WhatIsServed, StreamSame DEF PM!WithinLimits
    <2> QED
        BY <2>1, StreamedOnce, BooksAreRight DEF OneStream
<1> QED
    BY <1>1, <1>2, <1>3, PTL DEF MCSpec

-----------------------------------------------------------------------------
(* The types *)

LEMMA StreamTypes == FInv => PM!TypeOK
<1> SUFFICES ASSUME FInv PROVE PM!TypeOK
    OBVIOUS
<1>1. /\ FTypes /\ Wanted /\ limit.books \in Nat
    BY StreamConstants DEF FInv, FTypes
<1>2. ASSUME NEW c \in Conns
      PROVE  /\ \A r \in streams[c] \cup requests[c] : r.id \in Nat /\ r.slugs \subseteq Slugs
             /\ \A i \in DOMAIN asks[c] : asks[c][i].cmd \in {"subscribe", "unsubscribe"}
             /\ \A i \in DOMAIN told[c] : told[c][i].slug \in Slugs /\ told[c][i].n \in 1..limit.books
             /\ syncs[c].at \in {"idle", "start", "drop", "clear", "add"}
    <2>1. streams[c] \subseteq Grants /\ requests[c] \subseteq Grants
        BY <1>1 DEF FTypes
    <2>2. ASSUME NEW i \in DOMAIN asks[c] PROVE asks[c][i].cmd \in {"subscribe", "unsubscribe"}
        <3>1. asks[c][i] \in Orders
            BY <1>1 DEF FTypes
        <3> QED
            BY <3>1 DEF Orders
    <2>3. ASSUME NEW i \in DOMAIN told[c] PROVE told[c][i].slug \in Slugs /\ told[c][i].n \in 1..limit.books
        <3>1. told[c] \in Seq(Deliveries) /\ exch \in [Slugs -> 1..limit.books]
            BY <1>1 DEF FTypes
        <3>2. told[c][i] \in Deliveries /\ i \in 1..Len(told[c])
            BY <3>1
        <3>3. told[c][i].slug \in Slugs /\ told[c][i].n \in Nat
            BY <3>2 DEF Deliveries
        <3>4. told[c][i].n <= exch[told[c][i].slug] /\ told[c][i].n >= 1
            BY <3>2 DEF FInv, Latest, TellsOf
        <3>5. exch[told[c][i].slug] \in 1..limit.books
            BY <3>1, <3>3
        <3> QED
            BY <1>1, <3>3, <3>4, <3>5
    <2>4. syncs[c] \in Syncs
        BY <1>1 DEF FTypes
    <2> QED
        BY <2>1, <2>2, <2>3, <2>4 DEF Grants, Syncs
<1>3. \A c \in Conns : PM!Cardinality(wants[c]) <= PM!Room
    BY <1>1, StreamSame DEF Wanted, PM!Room
<1>4. books \in [Slugs -> 0..limit.books]
    <2>1. ASSUME NEW s \in Slugs PROVE books[s] \in 0..limit.books
        <3>1. books[s] \in Nat /\ books[s] <= exch[s] /\ exch[s] \in 1..limit.books
            BY <1>1 DEF FTypes
        <3> QED
            BY <1>1, <3>1
    <2> QED
        BY <1>1, <2>1 DEF FTypes
<1> QED
    BY <1>1, <1>2, <1>3, <1>4 DEF PM!TypeOK, FTypes, Wanted

\* Both feeds' states have their types, whichever behaviour it is: no more books, changes or
\* numbers than the exchange has made, a market wanted on one connection only and no more than it
\* has room for, the last number taken never beyond the last one given, and a book that is ready
\* made of the exchange's changes.
THEOREM FeedTypes == MCSpec => []TypesOK
<1>1. MCInit => FInv /\ KInv /\ RInv
    BY StreamInit, TypesInit DEF MCInit
<1>2. FInv /\ [MCNext]_all => FInv'
    BY StreamStep
<1>3. KInv /\ RInv /\ [MCNext]_all => KInv' /\ RInv'
    <2>1. [MCNext]_all => [Next]_vars
        BY DEF MCNext, all
    <2> QED
        BY <2>1, TypesStep
<1>4. FInv /\ KInv /\ RInv => TypesOK
    BY StreamTypes, RTypes DEF TypesOK
<1> QED
    BY <1>1, <1>2, <1>3, <1>4, PTL DEF MCSpec
=============================================================================
