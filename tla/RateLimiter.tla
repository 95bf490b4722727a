---------------------------- MODULE RateLimiter ----------------------------
(***************************************************************************)
(* The pace of the calls to one venue (arbscan/http.py): callers take turns *)
(* under a lock, and an answer that says "too many" pushes the next turn    *)
(* out, without the lock.                                                   *)
(***************************************************************************)
EXTENDS Integers, FiniteSetsExt

CONSTANTS
    Interval,   \* 1 / rate
    Waits,      \* how long an answer may push the next turn out
    MaxNow      \* a bound of the model

PaceFits == Interval \in Nat \ {0} /\ Waits \subseteq Nat \ {0} /\ MaxNow \in Nat

VARIABLES
    now,
    next,       \* _next
    wake,       \* when the caller that has the lock wakes, 0 if none has
    last,       \* history: when the last call was let go
    quiet,      \* history: until when the last answer asked for quiet
    slipped     \* history: the calls let go since then, and before that

vars == <<now, next, wake, last, quiet, slipped>>

TypeOK == {now, next, wake, quiet, slipped} \subseteq Nat /\ last \in Int

Init == now = 0 /\ next = 0 /\ wake = 0 /\ last = -Interval /\ quiet = 0 /\ slipped = 0

Tick ==
    /\ now < MaxNow /\ now' = now + 1
    /\ UNCHANGED <<next, wake, last, quiet, slipped>>

\* Mutant of NextTurn: what was pushed out while the caller slept is forgotten.
NextTurnFromNow == now + Interval

NextTurn == Max({now, next}) + Interval

LetGo ==
    /\ next' = NextTurn
    /\ last' = now
    /\ slipped' = IF now < quiet THEN slipped + 1 ELSE slipped

\* acquire: the caller with the lock sleeps until its turn; one that is woken late isn't held up.
Acquire ==
    /\ wake = 0
    /\ IF next > now THEN wake' = next /\ UNCHANGED <<next, last, slipped>>
                     ELSE LetGo /\ UNCHANGED wake
    /\ UNCHANGED <<now, quiet>>

Wakes ==
    /\ wake # 0 /\ now >= wake
    /\ wake' = 0 /\ LetGo
    /\ UNCHANGED <<now, quiet>>

\* penalize
Penalize(w) ==
    /\ next' = Max({next, now + w})
    /\ quiet' = Max({quiet, now + w})
    /\ slipped' = IF now + w > quiet THEN 0 ELSE slipped
    /\ UNCHANGED <<now, wake, last>>

Next == Tick \/ Acquire \/ Wakes \/ \E w \in Waits : Penalize(w)

Spec == Init /\ [][Next]_vars

\* Calls are an interval apart; and while an answer has asked for quiet, at most one more goes
\* out, the one that was already waiting for its turn.
KeepsDistance == last' # last => last' >= last + Interval
OneSlips == slipped <= 1
=============================================================================
