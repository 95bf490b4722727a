----------------------------- MODULE Discovery -----------------------------
(***************************************************************************)
(* The markets of one venue: the catalog of them that every refresh builds  *)
(* anew (arbscan/catalog.py), and the discovery service, a process of its   *)
(* own, which asks for those listed since and adds them in between          *)
(* (arbscan/discover.py).                                                   *)
(*                                                                         *)
(* Every market resolves within the catalog's horizon.  A market is listed  *)
(* before it opens, and shows up in the venue's answers a little after.     *)
(* Besides Markets the venue has others, in every catalog.                  *)
(***************************************************************************)
EXTENDS Integers, FiniteSetsExt

CONSTANTS
    Markets,
    Overlap,    \* OVERLAP_S
    Margin,     \* how far before the catalog a new process asks from
    Lag,        \* how long after it is listed a market may be missing from an answer
    MaxNow      \* a bound of the model

LagCovered == {Overlap, Margin, Lag, MaxNow} \subseteq Nat /\ Lag <= Overlap

VARIABLES
    now,
    born, state,            \* the venue: when each market was listed, its state
    rows,                   \* the markets table: when each row was updated, 0 if there is none
    built,                  \* the same of the other markets' rows: when the last catalog began
    catalog,                \* the refresh's catalog: when it began, what it has yet to come to
    up, known, since,       \* the service: Discovery.known, k_since
    found, polled,          \* what it has found new, and not stored yet; when it was answered
    marks,                  \* the catalog it has indexed; the one it saw at its last check
    missed                  \* history: markets left out: by the service, whose event's details
                            \* couldn't be read or that were inactive; by a catalog, that
                            \* weren't open, that it failed before it came to, or that the
                            \* service stored as of before it began

venue == <<born, state>>
service == <<up, known, since, found, polled, marks>>
table == <<rows, built>>
vars == <<now, venue, table, catalog, service, missed>>

-----------------------------------------------------------------------------

Times == 0..MaxNow
States == {"unlisted", "initialized", "active", "inactive", "closed"}

TypeOK ==
    /\ now \in Times
    /\ born \in [Markets -> Times]
    /\ state \in [Markets -> States]
    /\ rows \in [Markets -> Times] /\ built \in Times
    /\ catalog \in [on : BOOLEAN, from : Times, left : SUBSET Markets]
    /\ polled \in Times /\ up \in BOOLEAN /\ known \subseteq Markets /\ found \subseteq Markets /\ since \in Int
    /\ marks \in [indexed : Times, last : Times]
    /\ missed \subseteq Markets

Stored(r) == {m \in Markets : r[m] # 0}

\* _catalog_marks: the oldest row; a finished catalog leaves none from before it.
Mark == Min({built} \cup {rows[m] : m \in Stored(rows)})

NoCatalog == [on |-> FALSE, from |-> 0, left |-> {}]

Init ==
    /\ now = 1
    /\ born = [m \in Markets |-> 0] /\ state = [m \in Markets |-> "unlisted"]
    /\ rows = [m \in Markets |-> 0] /\ built = 1 /\ catalog = NoCatalog
    /\ up = FALSE /\ known = {} /\ since = 0 /\ found = {} /\ polled = 0
    /\ marks = [indexed |-> 0, last |-> 0]
    /\ missed = {}

-----------------------------------------------------------------------------
(* The venue *)

List(m) ==
    /\ state[m] = "unlisted"
    /\ born' = [born EXCEPT ![m] = now]
    /\ \E s \in {"initialized", "active"} : state' = [state EXCEPT ![m] = s]
    /\ UNCHANGED <<now, table, catalog, service, missed>>

\* A market opens, is halted and goes on, and is closed for good.
Onward(s) == CASE s = "active" -> {"inactive", "closed"} [] s = "inactive" -> {"active", "closed"}
               [] s = "initialized" -> {"active"} [] OTHER -> {}

Becomes(m) ==
    /\ \E s \in Onward(state[m]) : state' = [state EXCEPT ![m] = s]
    /\ UNCHANGED <<now, born, table, catalog, service, missed>>

Tick ==
    /\ now < MaxNow /\ now' = now + 1
    /\ UNCHANGED <<venue, table, catalog, service, missed>>

Listed == {m \in Markets : state[m] # "unlisted"}

\* Those every answer has.
Sure == {m \in Listed : born[m] + Lag < now}

-----------------------------------------------------------------------------
(* The catalog *)

\* build: the open events are read page by page, the active markets of each stored; a market
\* that has been in an answer is in them.
CatalogBegins ==
    /\ ~catalog.on
    /\ catalog' = [on |-> TRUE, from |-> now, left |-> {m \in Sure \cup Stored(rows) : state[m] = "active"}]
    /\ missed' = missed \cup {m \in Listed : state[m] # "active"}
    /\ UNCHANGED <<now, venue, table, service>>

CatalogPage(m) ==
    /\ catalog.on
    /\ m \in catalog.left \/ state[m] = "active"
    /\ rows' = IF state[m] = "active" THEN [rows EXCEPT ![m] = catalog.from] ELSE rows
    /\ missed' = IF state[m] = "active" THEN missed ELSE missed \cup {m}
    /\ catalog' = [catalog EXCEPT !.left = @ \ {m}]
    /\ UNCHANGED <<now, venue, built, service>>

\* Mutant of Outdated: whatever this catalog didn't come to goes.
OutdatedAll == {m \in Stored(rows) : rows[m] # catalog.from}

\* What the catalog deletes at its end: not what was discovered since it began.
Outdated == {m \in Stored(rows) : rows[m] < catalog.from}

CatalogEnds ==
    /\ catalog.on /\ catalog.left = {}
    /\ rows' = [m \in Markets |-> IF m \in Outdated THEN 0 ELSE rows[m]]
    /\ built' = catalog.from
    /\ catalog' = NoCatalog
    /\ UNCHANGED <<now, venue, service, missed>>

\* The catalog fails, and the refresh with it.
CatalogFails ==
    /\ catalog.on /\ catalog' = NoCatalog
    /\ missed' = missed \cup catalog.left
    /\ UNCHANGED <<now, venue, table, service>>

-----------------------------------------------------------------------------
(* The service *)

\* build: what is stored is known, and indexed.
Build == known' = Stored(rows)

\* Discovery.__init__, and the first build.
Start ==
    /\ ~up /\ up' = TRUE
    /\ since' = Mark - Margin
    /\ marks' = [indexed |-> Mark, last |-> Mark]
    /\ found' = {} /\ polled' = 0 /\ Build
    /\ UNCHANGED <<now, venue, table, catalog, missed>>

Dies ==
    /\ up /\ up' = FALSE
    /\ known' = {} /\ since' = 0 /\ found' = {} /\ polled' = 0 /\ marks' = [indexed |-> 0, last |-> 0]
    /\ UNCHANGED <<now, venue, table, catalog, missed>>

\* What the service asks for.
Asked == {m \in Listed : born[m] >= since - Overlap}

\* k_since: the latest listing seen.
Latest(answer) == Max({since} \cup {born[m] : m \in answer})

\* poll_kalshi: the markets that are new.  One whose event can't be read, or that is inactive,
\* is passed over, and asked about again only if it is among the latest listed.
Poll ==
    /\ up /\ found = {}
    /\ \E answer \in SUBSET Asked, failed \in SUBSET (Markets \ known) :
        LET halted == {m \in answer : state[m] = "inactive"} IN
        /\ Sure \cap Asked \subseteq answer
        /\ failed \subseteq answer /\ \A m \in failed : state[m] # "closed"
        /\ since' = Latest(answer)
        /\ found' = {m \in answer \ (known \cup failed \cup halted) : state[m] # "closed"}
        /\ known' = known \cup found'
        /\ missed' = missed \cup failed \cup halted
    /\ polled' = IF found' = {} THEN 0 ELSE now
    /\ UNCHANGED <<now, venue, table, catalog, up, marks>>

\* What the service stores as of before a catalog began, which then deletes it unless it
\* has yet to come to it.
Older == IF catalog.on /\ polled < catalog.from THEN found \ catalog.left ELSE {}

\* match, later, for the events are asked for in between: they are stored, as of when the
\* answer came, indexed and matched.
Match ==
    /\ up /\ found # {}
    /\ rows' = [m \in Markets |-> IF m \in found THEN polled ELSE rows[m]]
    /\ found' = {} /\ polled' = 0
    /\ missed' = missed \cup Older
    /\ UNCHANGED <<now, venue, built, catalog, up, known, since, marks>>

\* maybe_rebuild: after a catalog, seen at two checks.
MaybeRebuild ==
    /\ up /\ found = {} /\ Mark # marks.indexed
    /\ IF Mark = marks.last
       THEN Build /\ marks' = [indexed |-> Mark, last |-> Mark]
       ELSE marks' = [marks EXCEPT !.last = Mark] /\ UNCHANGED known
    /\ UNCHANGED <<now, venue, table, catalog, up, since, found, polled, missed>>

Next ==
    \/ \E m \in Markets :
        List(m) \/ Becomes(m) \/ CatalogPage(m)
    \/ Tick
    \/ CatalogBegins \/ CatalogEnds \/ CatalogFails
    \/ Start \/ Dies \/ Poll \/ Match \/ MaybeRebuild

Spec == Init /\ [][Next]_vars

-----------------------------------------------------------------------------

\* No market falls between two questions: one the service won't ask about again, for it was
\* listed before what it has seen, is in the catalog or has been, or is one of those left out;
\* however late the market showed up, and wherever the service died.
NoneBetween ==
    up /\ found = {} =>
        \A m \in Listed :
            state[m] # "closed" /\ born[m] < since - Overlap
            => m \in missed \cup Stored(rows) \cup catalog.left
=============================================================================
