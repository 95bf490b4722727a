------------------------------ MODULE MCFeeds ------------------------------
(***************************************************************************)
(* Model checking the books as they are streamed: Kalshi's feed, KalshiFeed, *)
(* and Polymarket US's, PMFeed.  They share no state, so a behaviour is of  *)
(* one or of the other, and the other's variables stay as they began.       *)
(***************************************************************************)
EXTENDS KalshiFeed

CONSTANTS Slugs, Conns, Limits, MaxOut      \* PMFeed's

VARIABLES
    part,                                                       \* which of the two
    limit, exch, links, streams, asks, told, wants, altered,    \* PMFeed's: conn, served, cmds,
    owned, requests, syncs, books, ready, missed                \* wire, wanted, changed, subs, sync

stream == <<limit, exch, links, streams, asks, told, wants, altered, owned, requests, syncs,
            books, ready, missed>>
all == <<part, vars, stream>>

PM == INSTANCE PMFeed WITH
    conn <- links, served <- streams, cmds <- asks, wire <- told, wanted <- wants,
    changed <- altered, subs <- requests, sync <- syncs

\* Kalshi's messages are lost, one market a command; or it refuses one market of two; or there
\* is one market, and time for more to be on its way.
MCWorlds ==
    {[markets |-> {1, 2}, refused |-> {}, chunk |-> 1, lossy |-> TRUE, seqs |-> 4, backlog |-> 2],
     [markets |-> {1, 2}, refused |-> {2}, chunk |-> 2, lossy |-> FALSE, seqs |-> 4, backlog |-> 2],
     [markets |-> {1}, refused |-> {}, chunk |-> 1, lossy |-> FALSE, seqs |-> 5, backlog |-> 5]}

\* Two markets: one a connection; both on one, in one subscription or two.  And three
\* markets on one connection, which may have to be packed anew.
MCLimits == {[chunk |-> 1, subs |-> 1, slugs |-> {1, 2}, books |-> 2],
             [chunk |-> 2, subs |-> 1, slugs |-> {1, 2}, books |-> 2],
             [chunk |-> 1, subs |-> 2, slugs |-> {1, 2}, books |-> 2],
             [chunk |-> 2, subs |-> 2, slugs |-> {1, 2, 3}, books |-> 1]}

ASSUME FeedsAssumption == PM!SizesFit

MCInit ==
    /\ Init /\ PM!Init
    /\ \/ part = "kalshi" /\ limit = CHOOSE l \in Limits : TRUE
       \/ part = "polymarket" /\ world = CHOOSE w \in Worlds : TRUE

MCNext ==
    \/ part = "kalshi" /\ Next /\ UNCHANGED <<part, stream>>
    \/ part = "polymarket" /\ PM!Next /\ UNCHANGED <<part, vars>>

MCSpec == MCInit /\ [][MCNext]_all

-----------------------------------------------------------------------------

\* The type invariants.
TypesOK == /\ part = "kalshi" => TypeOK
           /\ part = "polymarket" => PM!TypeOK

\* Once all is quiet every wanted market of Polymarket US's is streamed once, within what the
\* server allows, and its book is the exchange's (PMFeed._sync).
OneStream == part = "polymarket" => PM!WithinLimits /\ PM!ServedOnce /\ PM!BooksRight
=============================================================================
