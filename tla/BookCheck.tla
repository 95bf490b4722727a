----------------------------- MODULE BookCheck -----------------------------
(***************************************************************************)
(* One Polymarket US book: streamed without sequence numbers, and checked   *)
(* by REST before it is traded on (arbscan/confirm.py, and PMBook in        *)
(* feeds.py).  The stream may lose messages, or go silent, unnoticed.       *)
(*                                                                         *)
(* A book is the number of the exchange's book it shows, which is also its  *)
(* transactTime.  Time passes in ticks; what is waited for is kept as its   *)
(* age.                                                                     *)
(***************************************************************************)
EXTENDS Integers, Sequences

CONSTANTS
    MaxAge, MinGap, Retry, Timeout,   \* MAX_AGE_S, MIN_GAP_S, RETRY_S, READ_TIMEOUT_S
    Back,         \* the least time a lost connection takes to come back (run's delay)
    MaxBooks,     \* a bound of the model: books the exchange goes through
    MaxWire       \* a bound of the model: messages on their way

\* What is assumed of the times and the bounds.
TimesFit ==
    /\ MaxAge \in Nat /\ MinGap \in Nat /\ Retry \in Nat /\ Timeout \in Nat /\ Back \in Nat
    /\ MinGap <= Retry /\ MaxAge <= Timeout
    /\ MaxBooks \in Nat \ {0} /\ MaxWire \in Nat

VARIABLES
    exch,       \* the exchange's book
    ago,        \* history: what it was that many ticks ago
    wire,       \* the stream's messages on their way
    down,       \* ticks since the connection was lost; -1: it is up
    book,       \* the feed's PMBook: ready, the book it shows, its exch_ts (0: None)
    read,       \* a REST read under way
    checked,    \* age of the read that vouches for the book; MaxAge + 1: none does
    wait        \* ticks until the book may be asked for again (asked)

vars == <<exch, ago, wire, down, book, read, checked, wait>>

-----------------------------------------------------------------------------

NoRead == [at |-> "none", age |-> 0, got |-> 0]

TypeOK ==
    /\ exch \in 1..MaxBooks
    /\ ago \in [0..Timeout -> 1..MaxBooks]
    /\ wire \in Seq(1..MaxBooks)
    /\ down \in -1..Back
    /\ book \in [ready : BOOLEAN, has : 0..MaxBooks, exch_ts : 0..MaxBooks]
    /\ read \in [at : {"none", "asked", "answered"}, age : 0..Timeout, got : 0..MaxBooks]
    /\ checked \in 0..(MaxAge + 1)
    /\ wait \in 0..Retry

Init ==
    /\ exch = 1 /\ ago = [k \in 0..Timeout |-> 1]
    /\ wire = <<>> /\ down = Back
    /\ book = [ready |-> FALSE, has |-> 0, exch_ts |-> 0]
    /\ read = NoRead /\ checked = MaxAge + 1 /\ wait = 0

-----------------------------------------------------------------------------
(* The exchange, its stream and the connection *)

\* The book changes; the stream says so, or not.
Trade ==
    /\ exch < MaxBooks
    /\ exch' = exch + 1
    /\ wire' \in {wire} \cup IF down = -1 /\ Len(wire) < MaxWire THEN {Append(wire, exch')} ELSE {}
    /\ UNCHANGED <<ago, down, book, read, checked, wait>>

\* A subscription, on a new connection or in place of one given up, starts with the book.
Subscribe ==
    /\ down \in {-1, Back} /\ Len(wire) < MaxWire
    /\ down' = -1
    /\ wire' = Append(wire, exch)
    /\ UNCHANGED <<exch, ago, book, read, checked, wait>>

Disconnect ==
    /\ down = -1
    /\ down' = 0
    /\ wire' = <<>>
    /\ book' = [book EXCEPT !.ready = FALSE]
    /\ UNCHANGED <<exch, ago, read, checked, wait>>

\* PMBook.update: a message older than the book it would replace is left out.
Updated(b) ==
    IF book.ready /\ book.exch_ts # 0 /\ b < book.exch_ts THEN book
    ELSE [ready |-> TRUE, has |-> b, exch_ts |-> b]

Arrive ==
    /\ wire # <<>>
    /\ wire' = Tail(wire)
    /\ book' = Updated(Head(wire))
    /\ UNCHANGED <<exch, ago, down, read, checked, wait>>

-----------------------------------------------------------------------------
(* BookCheck *)

Ok == checked <= MaxAge

\* ask, for a pick that is due or about to be.
Ask ==
    /\ read = NoRead /\ wait = 0
    /\ read' = [NoRead EXCEPT !.at = "asked"]
    /\ wait' = MinGap
    /\ UNCHANGED <<exch, ago, wire, down, book, checked>>

Answer ==
    /\ read.at = "asked"
    /\ read' = [read EXCEPT !.at = "answered", !.got = exch]
    /\ UNCHANGED <<exch, ago, wire, down, book, checked, wait>>

\* A read that says nothing of the book isn't repeated before RETRY_S after it was sent.
Failed == wait' = IF Retry > read.age THEN Retry - read.age ELSE 0

\* Mutant of Vouch: the answer's arrival is what counts.
VouchFromNow(age) == 0

\* The age of what the read vouches for: it is as old as the read's sending.
Vouch(age) == IF age > MaxAge THEN MaxAge + 1 ELSE age

\* The answer is in: apply, on a book that is ready.  An answer without its time is none.
Apply ==
    /\ read.at = "answered" /\ book.ready
    /\ \/ /\ book' = IF book.exch_ts = 0 \/ read.got > book.exch_ts THEN Updated(read.got) ELSE book
          /\ checked' = Vouch(read.age) /\ wait' = wait
       \/ Failed /\ UNCHANGED <<book, checked>>
    /\ read' = NoRead
    /\ UNCHANGED <<exch, ago, wire, down>>

\* There is no book to vouch for.
ApplyToNone ==
    /\ read.at = "answered" /\ ~book.ready
    /\ read' = NoRead
    /\ UNCHANGED <<exch, ago, wire, down, book, checked, wait>>

ReadFails ==
    /\ read # NoRead
    /\ Failed
    /\ read' = NoRead
    /\ UNCHANGED <<exch, ago, wire, down, book, checked>>

\* An order missed a price the book showed.
Forget ==
    /\ checked' = MaxAge + 1 /\ wait' = 0
    /\ UNCHANGED <<exch, ago, wire, down, book, read>>

\* A read that has taken READ_TIMEOUT_S ends before time goes on.
Tick ==
    /\ read # NoRead => read.age < Timeout
    /\ ago' = [k \in 0..Timeout |-> IF k = 0 THEN exch ELSE ago[k - 1]]
    /\ down' = IF down \in {-1, Back} THEN down ELSE down + 1
    /\ read' = IF read = NoRead THEN read ELSE [read EXCEPT !.age = @ + 1]
    /\ checked' = IF checked > MaxAge THEN checked ELSE checked + 1
    /\ wait' = IF wait = 0 THEN 0 ELSE wait - 1
    /\ UNCHANGED <<exch, wire, book>>

-----------------------------------------------------------------------------

Next ==
    \/ Trade \/ Subscribe \/ Disconnect \/ Arrive
    \/ Ask \/ Answer \/ Apply \/ ApplyToNone \/ ReadFails \/ Forget
    \/ Tick

Spec == Init /\ [][Next]_vars

-----------------------------------------------------------------------------
(* Properties *)

\* ok(): a book that is vouched for, and would be traded on, is at least as new as the
\* exchange's book was MAX_AGE_S ago, whatever the stream lost.
Vouched == Ok /\ book.ready => book.has >= ago[MaxAge]

\* While it is up, a book never goes back to an older one, though the stream and the
\* reads overtake each other.
Onward == book.ready /\ book'.ready => book'.has >= book.has
=============================================================================
