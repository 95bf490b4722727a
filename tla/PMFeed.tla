------------------------------- MODULE PMFeed -------------------------------
(***************************************************************************)
(* Polymarket US's order books, streamed over several connections that     *)
(* share one table of books (arbscan/feeds.py, PMFeed and _PMConn).  Each    *)
(* market is wanted on one connection; a connection holds a few            *)
(* subscriptions of a few markets, which can be dropped but not edited.     *)
(*                                                                         *)
(* Every message is a whole book: here, its number on the exchange, which   *)
(* is also its time.                                                        *)
(***************************************************************************)
EXTENDS Integers, Sequences, FiniteSets, SequencesExt

CONSTANTS
    Slugs,        \* markets, in the order of their names
    Conns,        \* connections, in the order they are made
    Limits,       \* what differs between behaviours: chunk, CHUNK; subs, MAX_SUBS; slugs, the
                  \* markets that may be wanted; books, a bound of the model: books each goes through
    MaxOut        \* a bound of the model: the markets change while less is on its way

SizesFit ==
    /\ Slugs \subseteq Nat /\ IsFiniteSet(Slugs) /\ IsFiniteSet(Conns) /\ Conns = 1..Cardinality(Conns)
    /\ Limits \subseteq [chunk : Nat \ {0}, subs : Nat \ {0}, slugs : SUBSET Slugs, books : Nat \ {0}]
    /\ \A l \in Limits : Cardinality(l.slugs) <= Cardinality(Conns) * l.chunk * l.subs
    /\ MaxOut \in Nat

VARIABLES
    limit,      \* which of Limits
    exch,       \* the exchange's book of each market
    conn,       \* each connection: "new", "down", "opening" (_on_connect) or "up" (_pump)
    served,     \* the exchange's subscriptions of a connection
    cmds, wire, \* commands and messages on their way
    wanted, changed, owned, subs,  \* wanted, _changed, _owned and _subs of a _PMConn
    sync,       \* its _sync under way: where it is, what it still has to do
    books,      \* PMFeed.books; 0 is no book
    ready,      \* the books that are ready
    missed      \* history: the last book a connection got of a market was thrown away, for it
                \* wasn't wanted then, or was taken down and the market not subscribed to anew

side == <<limit, exch, served>>
vars == <<side, conn, cmds, wire, wanted, changed, owned, subs, sync, books, ready, missed>>

-----------------------------------------------------------------------------

Request(i, ts) == [id |-> i, slugs |-> ts]

\* Markets a connection has room for (PER_CONN).
Room == limit.chunk * limit.subs

Idle == [at |-> "idle", todo |-> {}]

\* Commands, and messages.
Subscribe(r) == [cmd |-> "subscribe", req |-> r]
Unsubscribe(r) == [cmd |-> "unsubscribe", req |-> r]
MarketData(i, s, n) == [id |-> i, slug |-> s, n |-> n]

TypeOK ==
    /\ limit \in Limits
    /\ exch \in [Slugs -> 1..limit.books]
    /\ conn \in [Conns -> {"new", "down", "opening", "up"}]
    /\ \A c \in Conns :
           /\ \A r \in served[c] \cup subs[c] : r.id \in Nat /\ r.slugs \subseteq Slugs
           /\ \A i \in DOMAIN cmds[c] : cmds[c][i].cmd \in {"subscribe", "unsubscribe"}
           /\ \A i \in DOMAIN wire[c] : wire[c][i].slug \in Slugs /\ wire[c][i].n \in 1..limit.books
           /\ sync[c].at \in {"idle", "start", "drop", "clear", "add"}
    /\ \A c, d \in Conns : c # d => wanted[c] \cap wanted[d] = {}
    /\ \A c \in Conns : Cardinality(wanted[c]) <= Room
    /\ wanted \in [Conns -> SUBSET Slugs] /\ owned \in [Conns -> SUBSET Slugs]
    /\ changed \in [Conns -> BOOLEAN]
    /\ books \in [Slugs -> 0..limit.books] /\ ready \subseteq {s \in Slugs : books[s] # 0}
    /\ missed \subseteq Conns \X Slugs

Init ==
    /\ limit \in Limits
    /\ exch = [s \in Slugs |-> 1]
    /\ conn = [c \in Conns |-> "new"] /\ served = [c \in Conns |-> {}]
    /\ cmds = [c \in Conns |-> <<>>] /\ wire = [c \in Conns |-> <<>>]
    /\ wanted = [c \in Conns |-> {}] /\ changed = [c \in Conns |-> FALSE]
    /\ owned = [c \in Conns |-> {}] /\ subs = [c \in Conns |-> {}]
    /\ sync = [c \in Conns |-> Idle]
    /\ books = [s \in Slugs |-> 0] /\ ready = {} /\ missed = {}

-----------------------------------------------------------------------------
(* Polymarket US *)

\* What a connection is sent of a market whose book is now n.
Streamed(c, s, n) ==
    SetToSeq({MarketData(r.id, s, n) : r \in {x \in served[c] : s \in x.slugs}})

Change(s) ==
    /\ exch[s] < limit.books
    /\ exch' = [exch EXCEPT ![s] = @ + 1]
    /\ wire' = [c \in Conns |-> wire[c] \o Streamed(c, s, exch'[s])]
    /\ UNCHANGED <<limit, conn, served, cmds, wanted, changed, owned, subs, sync, books, ready, missed>>

\* A subscription starts with the books as they are.
Accept(c) ==
    /\ cmds[c] # <<>>
    /\ cmds' = [cmds EXCEPT ![c] = Tail(@)]
    /\ LET r == Head(cmds[c]).req
       IN  IF Head(cmds[c]).cmd = "subscribe"
           THEN /\ served' = [served EXCEPT ![c] = @ \cup {r}]
                /\ wire' = [wire EXCEPT ![c] = @ \o SetToSeq({MarketData(r.id, s, exch[s]) : s \in r.slugs})]
           ELSE /\ served' = [served EXCEPT ![c] = @ \ {r}]
                /\ wire' = wire
    /\ UNCHANGED <<limit, exch, conn, wanted, changed, owned, subs, sync, books, ready, missed>>

-----------------------------------------------------------------------------
(* PMFeed.set_markets: which connection gets which market *)

\* A connection keeps what it has; the rest, in order, fills what room each has left.
NewOf(new) == new \ UNION {wanted[c] : c \in Conns}
Space(c, new) == Room - Cardinality(wanted[c] \cap new)
Spaces(new) == [d \in Conns |-> Space(d, new)]
SpaceBefore(c, new) == SumFunctionOnSet(Spaces(new), 1..(c - 1))
Rank(s, new) == Cardinality({t \in NewOf(new) : t < s})

\* Mutant of Assigned: the new markets are offered to every connection anew.
AssignedTwice(c, new) ==
    (wanted[c] \cap new) \cup {s \in NewOf(new) : Rank(s, new) < Space(c, new)}

Assigned(c, new) ==
    (wanted[c] \cap new)
        \cup {s \in NewOf(new) : Rank(s, new) - SpaceBefore(c, new) \in 0..(Space(c, new) - 1)}

\* resync has been woken, and isn't waiting for a send.
ToSync(c) == conn[c] = "up" /\ changed[c] /\ sync[c].at = "idle"

Out == FoldLeft(LAMBDA n, c : n + Len(cmds[c]) + Len(wire[c]), 0, [c \in Conns |-> c])

\* The scanner's _reindex.  Whichever resync it woke has begun before it comes again.
SetMarkets(new) ==
    /\ Out < MaxOut /\ ~\E c \in Conns : ToSync(c)
    /\ new # UNION {wanted[c] : c \in Conns}
    /\ wanted' = [c \in Conns |-> Assigned(c, new)]
    /\ changed' = [c \in Conns |-> changed[c] \/ wanted'[c] # wanted[c]]
    /\ conn' = [c \in Conns |-> IF conn[c] = "new" /\ wanted'[c] # {} THEN "down" ELSE conn[c]]
    /\ UNCHANGED <<side, cmds, wire, owned, subs, sync, books, ready, missed>>

-----------------------------------------------------------------------------
(* A connection *)

Subscribed(c) == UNION {r.slugs : r \in subs[c]}

\* The subscriptions that stay when the books of the markets ts are taken down.
Bereft(ts) == {m \in Conns \X ts : m[2] \in Subscribed(m[1])}

\* _on_connect.
Connect(c) ==
    /\ conn[c] = "down"
    /\ conn' = [conn EXCEPT ![c] = "opening"]
    /\ subs' = [subs EXCEPT ![c] = {}]
    /\ sync' = [sync EXCEPT ![c] = [at |-> "start", todo |-> {}]]
    /\ UNCHANGED <<side, cmds, wire, wanted, changed, owned, books, ready, missed>>

\* _disconnected: the books of the markets it wants.
TakenDown(c) == wanted[c]

Disconnect(c) ==
    /\ conn[c] \in {"opening", "up"}
    /\ conn' = [conn EXCEPT ![c] = "down"]
    /\ ready' = ready \ TakenDown(c)
    /\ sync' = [sync EXCEPT ![c] = Idle]
    /\ cmds' = [cmds EXCEPT ![c] = <<>>] /\ wire' = [wire EXCEPT ![c] = <<>>]
    /\ served' = [served EXCEPT ![c] = {}]
    /\ missed' = missed \cup Bereft(TakenDown(c))
    /\ UNCHANGED <<limit, exch, wanted, changed, owned, subs, books>>

-----------------------------------------------------------------------------
(* _sync, from one send to the next *)

Begins(c) == sync[c].at = "start" \/ ToSync(c)
StillChanged(c) == [changed EXCEPT ![c] = @ /\ sync[c].at # "idle"]

\* A request id that no subscription, command or message has.
Used(c) == {r.id : r \in subs[c] \cup served[c]}
               \cup {cmds[c][k].req.id : k \in DOMAIN cmds[c]} \cup {wire[c][k].id : k \in DOMAIN wire[c]}
Fresh(c) == Min((0..Cardinality(Used(c))) \ Used(c))

\* _unsubscribe.
Drop(c, r) ==
    /\ subs' = [subs EXCEPT ![c] = @ \ {r}]
    /\ cmds' = [cmds EXCEPT ![c] = Append(@, Unsubscribe(r))]

Synced(c) == conn' = [conn EXCEPT ![c] = "up"]

\* The next subscription; _sync ends with the last.
Add(c, todo) ==
    \E ts \in SUBSET todo :
        /\ Cardinality(ts) = limit.chunk \/ (ts = todo /\ Cardinality(ts) < limit.chunk)
        /\ IF ts = {} THEN UNCHANGED <<subs, cmds>>
           ELSE LET r == Request(Fresh(c), ts)
                IN  /\ subs' = [subs EXCEPT ![c] = @ \cup {r}]
                    /\ cmds' = [cmds EXCEPT ![c] = Append(@, Subscribe(r))]
        /\ sync' = [sync EXCEPT ![c] = IF ts = todo THEN Idle ELSE [at |-> "add", todo |-> todo \ ts]]
        /\ IF ts = todo THEN Synced(c) ELSE conn' = conn

\* Mutant of Unwanted: a subscription is kept for any market it still wants.
UnwantedWhole(c) == {r \in subs[c] : r.slugs \cap wanted[c] = {}}

Unwanted(c) == {r \in subs[c] : ~(r.slugs \subseteq wanted[c])}
Chunks(n) == (n + limit.chunk - 1) \div limit.chunk

Fits(c) == Cardinality(subs[c]) + Chunks(Cardinality(wanted[c] \ Subscribed(c))) <= limit.subs

Gone(c) == owned[c] \ wanted[c]

\* Subscriptions that hold a market it no longer wants go first, ...
SyncDrop(c) ==
    /\ \E todo \in SUBSET subs[c] :
           /\ (Begins(c) /\ todo = Unwanted(c)) \/ (sync[c].at = "drop" /\ todo = sync[c].todo)
           /\ \E r \in todo : Drop(c, r) /\ sync' = [sync EXCEPT ![c] = [at |-> "drop", todo |-> todo \ {r}]]
    /\ changed' = StillChanged(c)
    /\ UNCHANGED <<side, conn, wire, wanted, owned, books, ready, missed>>

\* ... then the books of those markets, and what is missing is subscribed to; all
\* over again where that would be too many subscriptions.
SyncAdd(c) ==
    /\ (Begins(c) /\ Unwanted(c) = {}) \/ (sync[c].at = "drop" /\ sync[c].todo = {})
    /\ books' = [s \in Slugs |-> IF s \in Gone(c) THEN 0 ELSE books[s]]
    /\ ready' = ready \ Gone(c)
    /\ missed' = missed \cup Bereft(Gone(c))
    /\ owned' = [owned EXCEPT ![c] = wanted[c]]
    /\ changed' = StillChanged(c)
    /\ \/ Fits(c) /\ Add(c, wanted[c] \ Subscribed(c))
       \/ /\ ~Fits(c) /\ \E r \in subs[c] : Drop(c, r)
          /\ sync' = [sync EXCEPT ![c] = [at |-> "clear", todo |-> {}]]
          /\ conn' = conn
    /\ UNCHANGED <<side, wire, wanted>>

SyncClear(c) ==
    /\ sync[c].at = "clear"
    /\ \/ (\E r \in subs[c] : Drop(c, r)) /\ UNCHANGED <<conn, sync>>
       \/ subs[c] = {} /\ Add(c, wanted[c])
    /\ UNCHANGED <<side, wire, wanted, changed, owned, books, ready, missed>>

SyncMore(c) ==
    /\ sync[c].at = "add"
    /\ Add(c, sync[c].todo)
    /\ UNCHANGED <<side, wire, wanted, changed, owned, books, ready, missed>>

-----------------------------------------------------------------------------

\* A message of one of its subscriptions.
Known(c, m) == \E r \in subs[c] : r.id = m.id

\* PMBook.update: unless it is older than the book it would replace.
Updated(m) == ~(m.slug \in ready /\ m.n < books[m.slug])

\* _handle: what isn't wanted any more, or was dropped, is left out.
Handle(c) ==
    /\ conn[c] = "up" /\ wire[c] # <<>>
    /\ wire' = [wire EXCEPT ![c] = Tail(@)]
    /\ LET m == Head(wire[c])
           ours == Known(c, m) /\ m.slug \in wanted[c]
       IN  /\ IF ours /\ Updated(m)
              THEN books' = [books EXCEPT ![m.slug] = m.n] /\ ready' = ready \cup {m.slug}
              ELSE UNCHANGED <<books, ready>>
           /\ missed' = IF ours THEN missed \ {<<c, m.slug>>}
                        ELSE IF Known(c, m) THEN missed \cup {<<c, m.slug>>} ELSE missed
    /\ UNCHANGED <<side, conn, cmds, wanted, changed, owned, subs, sync>>

-----------------------------------------------------------------------------

Next ==
    \/ \E s \in limit.slugs : Change(s)
    \/ \E new \in SUBSET limit.slugs : SetMarkets(new)
    \/ \E c \in Conns : \/ Accept(c) \/ Connect(c) \/ Disconnect(c) \/ Handle(c)
                        \/ SyncDrop(c) \/ SyncAdd(c) \/ SyncClear(c) \/ SyncMore(c)

Spec == Init /\ [][Next]_vars

-----------------------------------------------------------------------------
(* Properties *)

\* "The server allows 10 subscriptions of up to 100 markets each": it is never asked for
\* more, though they are dropped and repacked one command at a time.
WithinLimits == \A c \in Conns :
    /\ Cardinality(served[c]) <= limit.subs
    /\ \A r \in served[c] : Cardinality(r.slugs) <= limit.chunk

Made == {c \in Conns : conn[c] # "new"}

Quiet == \A c \in Made :
    /\ conn[c] = "up" /\ cmds[c] = <<>> /\ wire[c] = <<>>
    /\ sync[c].at = "idle" /\ ~changed[c]

\* "Bring subscriptions in line with wanted": once all is quiet, a market is streamed on
\* one connection, once, if it is wanted, and on none if it isn't.
ServedOnce == Quiet => \A s \in Slugs :
    Cardinality({m \in UNION {{c} \X served[c] : c \in Conns} : s \in m[2].slugs})
        = IF \E c \in Conns : s \in wanted[c] THEN 1 ELSE 0

\* Then too, every wanted market's book is the exchange's, unless the last one that came
\* was thrown away, or was taken down while its subscription stayed.
BooksRight == Quiet => \A c \in Conns : \A s \in wanted[c] :
    <<c, s>> \notin missed => s \in ready /\ books[s] = exch[s]
=============================================================================
