----------------------------- MODULE KalshiFeed -----------------------------
(***************************************************************************)
(* Kalshi's order books, streamed (arbscan/feeds.py, _Feed and KalshiFeed): *)
(* a snapshot per market, then changes, all numbered in one sequence per    *)
(* connection; a missing number takes every book down and reconnects.       *)
(*                                                                         *)
(* A connection is two queues, of commands and of messages.  Messages may   *)
(* be lost, and the connection with them.  A book is the sequence of the    *)
(* changes it is made of, so a lost, repeated or misplaced one shows.       *)
(***************************************************************************)
EXTENDS Integers, Sequences, FiniteSets, Functions

CONSTANTS
    Tickers,
    Worlds,       \* what differs between behaviours: markets, those there are; refused, those
                  \* Kalshi refuses to subscribe to; chunk, CHUNK; lossy, whether a message may be
                  \* lost; and two bounds of the model: the books change while seq is under seqs,
                  \* and the wanted markets while seq, with what is on its way, is under backlog
    MaxChanges    \* a bound of the model: changes of the markets' books

ASSUME TickersAssumption == IsFiniteSet(Tickers)
ASSUME WorldsAssumption ==
    Worlds \subseteq [markets : SUBSET Tickers, refused : SUBSET Tickers, chunk : Nat \ {0},
                     lossy : BOOLEAN, seqs : Nat, backlog : Nat]
ASSUME BoundsAssumption == MaxChanges \in Nat

VARIABLES
    \* Kalshi
    world,      \* which of Worlds this is
    changes,    \* how often each market's book has changed
    served,     \* markets whose changes it sends on this connection
    owed,       \* those it will start to serve, with a snapshot
    merged,     \* the connection has its orderbook subscription
    seq,        \* the last number it used there
    \* the connection
    cmds,       \* commands on their way
    wire,       \* messages on their way
    \* the feed
    conn,       \* "down", "opening" (_on_connect) or "up" (_pump)
    wanted, changed, requested, rejected, sid, last, gap,
                \* their namesakes; sid: the subscription's id is known; last 0: None
    sync,       \* _sync under way: where it is, what it still has to subscribe to
    halves,     \* _subscribe tasks for the halves of a refused batch
    book,       \* books
    \* history
    seen,       \* the changes in the newest book that was shown (Shown)
    lost,       \* a message of this connection was lost
    ignored     \* markets whose last snapshot on it came while they weren't wanted

kalshi == <<world, changes, served, owed, merged, seq>>
subs == <<wanted, changed, requested, rejected>>
place == <<sid, last, gap>>
hist == <<lost, ignored>>
vars == <<kalshi, cmds, wire, conn, subs, place, sync, halves, book, seen, hist>>

-----------------------------------------------------------------------------

Down == [ready |-> FALSE, has |-> <<>>]
AllDown == [t \in Tickers |-> Down]

\* The books, but for those whose last snapshot on the connection was ignored: changes go on
\* an older book then, if there is one.
Shown == [t \in Tickers |-> IF t \in ignored THEN Down ELSE book[t]]

Promise == INSTANCE BookPromise WITH Markets <- Tickers, view <- Shown

Idle == [at |-> "idle", todo |-> {}]

\* Messages; seq 0: not numbered.
Snapshot(t, n, i) == [kind |-> "snapshot", t |-> t, n |-> n, seq |-> i]
Delta(t, n, i) == [kind |-> "delta", t |-> t, n |-> n, seq |-> i]
Subscribed == [kind |-> "subscribed", seq |-> 0]
Ok(i) == [kind |-> "ok", seq |-> i]
Error(ts) == [kind |-> "error", ts |-> ts, seq |-> 0]

Subscribe(ts) == [cmd |-> "subscribe", ts |-> ts]
Delete(ts) == [cmd |-> "delete", ts |-> ts]

TypeOK ==
    /\ changes \in [Tickers -> 0..MaxChanges] /\ seen \in [Tickers -> 0..MaxChanges]
    /\ served \subseteq Tickers /\ owed \subseteq Tickers /\ merged \in BOOLEAN /\ seq \in Nat
    /\ \A i \in DOMAIN cmds : cmds[i].cmd \in {"subscribe", "delete"} /\ cmds[i].ts \subseteq Tickers
    /\ \A i \in DOMAIN wire : /\ wire[i].kind \in {"snapshot", "delta", "subscribed", "ok", "error"}
                              /\ wire[i].seq \in 0..seq
    /\ conn \in {"down", "opening", "up"}
    /\ wanted \subseteq Tickers /\ requested \subseteq Tickers /\ rejected \subseteq Tickers
    /\ changed \in BOOLEAN /\ sid \in BOOLEAN /\ gap \in BOOLEAN
    /\ last \in Nat /\ (conn = "up" => last <= seq)
    /\ sync.at \in {"idle", "start", "add", "more"} /\ sync.todo \subseteq Tickers
    /\ halves \subseteq SUBSET Tickers
    /\ world \in Worlds /\ lost \in BOOLEAN /\ ignored \subseteq Tickers
    /\ \A t \in Tickers : book[t] = Down \/ (book[t].ready /\ book[t].has \in Seq(1..MaxChanges))

Init ==
    /\ world \in Worlds /\ lost = FALSE /\ ignored = {}
    /\ changes = [t \in Tickers |-> 0] /\ served = {} /\ owed = {} /\ merged = FALSE /\ seq = 0
    /\ cmds = <<>> /\ wire = <<>>
    /\ conn = "down"
    /\ wanted = {} /\ changed = FALSE /\ requested = {} /\ rejected = {}
    /\ sid = FALSE /\ last = 0 /\ gap = FALSE
    /\ sync = Idle /\ halves = {} /\ book = AllDown
    /\ seen = [t \in Tickers |-> 0]

-----------------------------------------------------------------------------
(* Kalshi *)

Change(t) ==
    /\ SumFunction(changes) < MaxChanges /\ seq < world.seqs
    /\ changes' = [changes EXCEPT ![t] = @ + 1]
    /\ IF t \in served
       THEN seq' = seq + 1 /\ wire' = Append(wire, Delta(t, changes'[t], seq'))
       ELSE UNCHANGED <<seq, wire>>
    /\ UNCHANGED <<world, served, owed, merged, cmds, conn, subs, place, sync, halves, book, seen, hist>>

\* A batch with a market it doesn't know is refused whole.
Refuse ==
    /\ cmds # <<>> /\ Head(cmds).cmd = "subscribe" /\ Head(cmds).ts \cap world.refused # {}
    /\ cmds' = Tail(cmds)
    /\ wire' = Append(wire, Error(Head(cmds).ts))
    /\ UNCHANGED <<kalshi, conn, subs, place, sync, halves, book, seen, hist>>

\* The first subscribe makes the subscription, later ones are merged into it.  A
\* market it serves already may or may not get another snapshot.
Accept ==
    /\ cmds # <<>> /\ Head(cmds).cmd = "subscribe" /\ Head(cmds).ts \cap world.refused = {}
    /\ cmds' = Tail(cmds)
    /\ merged' = TRUE
    /\ IF merged THEN seq' = seq + 1 /\ wire' = Append(wire, Ok(seq'))
                 ELSE seq' = seq /\ wire' = Append(wire, Subscribed)
    /\ \E again \in SUBSET (Head(cmds).ts \cap served) : owed' = owed \cup (Head(cmds).ts \ served) \cup again
    /\ UNCHANGED <<world, changes, served, conn, subs, place, sync, halves, book, seen, hist>>

SendSnapshot(t) ==
    /\ t \in owed
    /\ owed' = owed \ {t}
    /\ served' = served \cup {t}
    /\ seq' = seq + 1
    /\ wire' = Append(wire, Snapshot(t, changes[t], seq'))
    /\ UNCHANGED <<world, changes, merged, cmds, conn, subs, place, sync, halves, book, seen, hist>>

Stop ==
    /\ cmds # <<>> /\ Head(cmds).cmd = "delete"
    /\ cmds' = Tail(cmds)
    /\ served' = served \ Head(cmds).ts
    /\ owed' = owed \ Head(cmds).ts
    /\ seq' = seq + 1
    /\ wire' = Append(wire, Ok(seq'))
    /\ UNCHANGED <<world, changes, merged, conn, subs, place, sync, halves, book, seen, hist>>

Lose ==
    /\ world.lossy /\ wire # <<>>
    /\ wire' = Tail(wire)
    /\ lost' = TRUE
    /\ UNCHANGED <<kalshi, cmds, conn, subs, place, sync, halves, book, seen, ignored>>

-----------------------------------------------------------------------------
(* The connection *)

\* _on_connect.
Connect ==
    /\ conn = "down"
    /\ conn' = "opening"
    /\ requested' = {} /\ sid' = FALSE /\ last' = 0 /\ gap' = FALSE
    /\ sync' = [at |-> "start", todo |-> {}]
    /\ lost' = FALSE /\ ignored' = {}
    /\ UNCHANGED <<kalshi, cmds, wire, wanted, changed, rejected, halves, book, seen>>

\* The connection ends, or was closed for a gap: run's finally, and Kalshi's end.
Disconnect ==
    /\ conn # "down"
    /\ conn' = "down"
    /\ book' = AllDown
    /\ cmds' = <<>> /\ wire' = <<>>
    /\ sync' = Idle /\ halves' = {}
    /\ served' = {} /\ owed' = {} /\ merged' = FALSE /\ seq' = 0
    /\ UNCHANGED <<world, changes, subs, place, seen, hist>>

-----------------------------------------------------------------------------
(* Subscriptions *)

\* resync has been woken, and isn't waiting for a send.
ToSync == conn = "up" /\ changed /\ sync.at = "idle"

\* The scanner's _reindex.  The loop gets to resync before it comes again.
SetMarkets(w) ==
    /\ w # wanted /\ ~ToSync
    /\ seq + Len(cmds) + Len(wire) + Cardinality(halves) < world.backlog
    /\ wanted' = w
    /\ changed' = TRUE
    /\ UNCHANGED <<kalshi, cmds, wire, conn, requested, rejected, place, sync, halves, book, seen, hist>>

\* _sync begins: once connected, and then whenever the markets have changed.
Begins == sync.at = "start" \/ ToSync
StillChanged == changed /\ sync.at # "idle"

\* What _sync drops: nothing, as long as the subscription's id isn't known.
Drops == IF sid THEN requested \ wanted ELSE {}

SyncDrop ==
    /\ Begins /\ Drops # {}
    /\ requested' = requested \ Drops
    /\ book' = [t \in Tickers |-> IF t \in Drops THEN Down ELSE book[t]]
    /\ cmds' = Append(cmds, Delete(Drops))
    /\ sync' = [at |-> "add", todo |-> {}]
    /\ changed' = StillChanged
    /\ UNCHANGED <<kalshi, wire, conn, wanted, rejected, place, halves, seen, hist>>

\* The next command of _subscribe; _sync ends with the last.
SubscribeTo(todo) ==
    /\ \E ts \in SUBSET todo :
           /\ Cardinality(ts) = world.chunk \/ (ts = todo /\ Cardinality(ts) < world.chunk)
           /\ requested' = requested \cup ts
           /\ cmds' = IF ts = {} THEN cmds ELSE Append(cmds, Subscribe(ts))
           /\ sync' = IF ts = todo THEN Idle ELSE [at |-> "more", todo |-> todo \ ts]
           /\ conn' = IF ts = todo THEN "up" ELSE conn
    /\ UNCHANGED <<kalshi, wire, wanted, rejected, place, halves, book, seen, hist>>

Adds == wanted \ (requested \cup rejected)

SyncAdd ==
    /\ sync.at = "add" \/ (Begins /\ Drops = {})
    /\ changed' = StillChanged
    /\ SubscribeTo(Adds)

SyncMore ==
    /\ sync.at = "more"
    /\ changed' = changed
    /\ SubscribeTo(sync.todo)

\* One of the tasks made for a refused batch.
SubscribeHalf(ts) ==
    /\ ts \in halves /\ conn = "up"
    /\ halves' = halves \ {ts}
    /\ requested' = requested \cup ts
    /\ cmds' = Append(cmds, Subscribe(ts))
    /\ UNCHANGED <<kalshi, wire, conn, wanted, changed, rejected, place, sync, book, seen, hist>>

-----------------------------------------------------------------------------
(* _handle *)

Numbered(m) == m.seq # 0 /\ (sid \/ m.kind \in {"snapshot", "delta"})

\* Mutant of Follows: only numbers that go back are noticed.
FollowsLoosely(m) == Numbered(m) /\ last # 0 => m.seq > last

Follows(m) == Numbered(m) /\ last # 0 => m.seq = last + 1

Receive(m) ==
    /\ conn = "up" /\ wire # <<>> /\ m = Head(wire)
    /\ wire' = Tail(wire)
    /\ last' = IF Numbered(m) THEN m.seq ELSE last

\* Everything after a gap is ignored, until the connection that this closes is back.
HandleGap(m) ==
    /\ Receive(m)
    /\ gap \/ ~Follows(m)
    /\ gap' = TRUE
    /\ sid' = (sid \/ m.kind \in {"snapshot", "delta"})
    /\ book' = AllDown
    /\ UNCHANGED <<kalshi, cmds, conn, subs, sync, halves, seen, hist>>

InOrder(m) == Receive(m) /\ ~gap /\ Follows(m)

HandleDelta(m) ==
    /\ m.kind = "delta" /\ InOrder(m)
    /\ IF book[m.t].ready
       THEN /\ book' = [book EXCEPT ![m.t].has = Append(@, m.n)]
            /\ seen' = IF m.t \in ignored THEN seen ELSE [seen EXCEPT ![m.t] = m.n]
       ELSE UNCHANGED <<book, seen>>
    /\ sid' = TRUE
    /\ UNCHANGED <<kalshi, cmds, conn, subs, gap, sync, halves, hist>>

HandleSnapshot(m) ==
    /\ m.kind = "snapshot" /\ InOrder(m)
    /\ IF m.t \in wanted
       THEN /\ book' = [book EXCEPT ![m.t] = Promise!Up(m.n)]
            /\ seen' = [seen EXCEPT ![m.t] = m.n]
            /\ ignored' = ignored \ {m.t}
       ELSE /\ ignored' = ignored \cup {m.t}
            /\ UNCHANGED <<book, seen>>
    /\ sid' = TRUE
    /\ UNCHANGED <<kalshi, cmds, conn, subs, gap, sync, halves, lost>>

HandleAck(m) ==
    /\ m.kind \in {"subscribed", "ok"} /\ InOrder(m)
    /\ sid' = (sid \/ m.kind = "subscribed")
    /\ UNCHANGED <<kalshi, cmds, conn, subs, gap, sync, halves, book, seen, hist>>

\* Mutant of HandleError: a refused batch is given up whole.
HandleErrorWhole(m) ==
    /\ m.kind = "error" /\ InOrder(m)
    /\ requested' = requested \ m.ts
    /\ rejected' = rejected \cup m.ts
    /\ UNCHANGED <<kalshi, cmds, conn, wanted, changed, sid, gap, sync, halves, book, seen, hist>>

\* A market refused on its own is left out from now on; a batch is split.
HandleError(m) ==
    /\ m.kind = "error" /\ InOrder(m)
    /\ requested' = requested \ m.ts
    /\ IF Cardinality(m.ts) = 1
       THEN rejected' = rejected \cup m.ts /\ halves' = halves
       ELSE /\ rejected' = rejected
            /\ \E a \in SUBSET m.ts : /\ Cardinality(a) = Cardinality(m.ts) \div 2
                                      /\ halves' = halves \cup {a, m.ts \ a}
    /\ UNCHANGED <<kalshi, cmds, conn, wanted, changed, sid, gap, sync, book, seen, hist>>

Handle == \E m \in {wire[i] : i \in DOMAIN wire} :
    HandleGap(m) \/ HandleDelta(m) \/ HandleSnapshot(m) \/ HandleAck(m) \/ HandleError(m)

-----------------------------------------------------------------------------

Next ==
    \/ \E t \in world.markets : Change(t) \/ SendSnapshot(t)
    \/ Refuse \/ Accept \/ Stop \/ Lose
    \/ Connect \/ Disconnect
    \/ \E w \in SUBSET world.markets : SetMarkets(w)
    \/ SyncDrop \/ SyncAdd \/ SyncMore \/ \E ts \in halves : SubscribeHalf(ts)
    \/ Handle

Spec == Init /\ [][Next]_vars

-----------------------------------------------------------------------------
(* Properties *)

\* A ready book is the exchange's as it was some time ago, whole, and follows it one
\* change at a time; it goes down on a gap or a disconnect and never back in time.  Unless
\* its last snapshot came while it was unwanted.
Promised == Promise!Spec

\* Nothing is on its way, nothing is left to do, and nothing was lost on this connection.
Quiet ==
    /\ conn = "up" /\ ~gap /\ cmds = <<>> /\ wire = <<>> /\ owed = {}
    /\ sync.at = "idle" /\ ~changed /\ halves = {} /\ ~lost

Served(t) == book[t] = Promise!Up(changes[t])

\* "Bring subscriptions in line with wanted": once all is quiet, every market that is
\* wanted and that Kalshi serves has its book, and it is the exchange's, however
\* commands, answers and the changes of what is wanted interleave; unless its
\* snapshot came while it was unwanted.
InLineUnlessIgnored == Quiet => \A t \in wanted \ (world.refused \cup ignored) : Served(t)
=============================================================================
