----------------------------- MODULE RateLimit -----------------------------
(***************************************************************************)
(* The fixed window counter of app/core/ratelimit.py, for one key.         *)
(*                                                                         *)
(* A hit is one MULTI of INCR and TTL; only when the key turns out to have *)
(* no expiry does a second round trip set one.  Redis counts the remaining *)
(* seconds down.  Counts above the limit are all alike, so they stop at    *)
(* Limit + 1.  A definition named Slip... is the one after it with a       *)
(* plausible mistake; no action uses it.                                   *)
(***************************************************************************)
EXTENDS Integers, FiniteSetsExt, Functions

CONSTANTS
    Request,    \* requests being counted at once
    Limit,      \* hits allowed
    Window,     \* seconds of a window
    None        \* no expiry

ASSUME LimitAssumption == Limit \in Nat \ {0} /\ Window \in Nat \ {0} /\ None \notin Nat

VARIABLES
    count,      \* the key's counter; 0 is no key
    ttl,        \* the key's remaining seconds
    hits,       \* Request -> the count it awaits an EXPIRE with, or 0
    open,       \* Redis answers
    recent,     \* history: age in seconds -> hits that were allowed by their count
    due,        \* history: seconds after which refused clients were told to come back
    refused     \* history: the last hit was refused

vars == <<count, ttl, hits, open, recent, due, refused>>

Age == 0..(Window - 1)

TypeOK ==
    /\ count \in 0..(Limit + 1)
    /\ ttl \in 1..Window \cup {None}
    /\ count = 0 => ttl = None
    /\ hits \in [Request -> 0..(Limit + 1)]
    /\ open \in BOOLEAN /\ refused \in BOOLEAN
    /\ recent \in [Age -> Nat]
    /\ due \in 0..Window \cup {None}

Init ==
    /\ count = 0 /\ ttl = None /\ open = TRUE /\ refused = FALSE /\ due = None
    /\ hits = [r \in Request |-> 0]
    /\ recent = [a \in Age |-> 0]

SlipAllowed(n) == n <= Limit + 1

Allowed(n) == n <= Limit

SlipNeedsExpiry(n) == n = 1

\* A TTL below zero: nobody has given the key an expiry.
NeedsExpiry(n) == ttl = None

\* What the client is told, with Retry-After.
Answer(n, seconds) ==
    /\ refused' = ~Allowed(n)
    /\ due' = IF Allowed(n) THEN due
              ELSE IF due = None THEN seconds ELSE Min({due, seconds})

\* INCR and TTL.
Hit(r) ==
    LET n == Min({count + 1, Limit + 1}) IN
    /\ open /\ hits[r] = 0
    /\ count' = n
    /\ recent' = IF Allowed(n) THEN [recent EXCEPT ![0] = @ + 1] ELSE recent
    /\ IF NeedsExpiry(n)
       THEN hits' = [hits EXCEPT ![r] = n] /\ UNCHANGED <<refused, due>>
       ELSE UNCHANGED hits /\ Answer(n, ttl)
    /\ UNCHANGED <<ttl, open>>

\* EXPIRE key window_seconds, which does nothing to a key that is gone.
Expire(r) ==
    /\ open /\ hits[r] # 0
    /\ ttl' = IF count # 0 THEN Window ELSE None
    /\ Answer(hits[r], Window)
    /\ hits' = [hits EXCEPT ![r] = 0]
    /\ UNCHANGED <<count, open, recent>>

\* Between the two round trips the process dies, or a lost connection raises:
\* the handler of the exception allows the request, whatever its count.
Abandon(r) ==
    /\ hits[r] # 0
    /\ hits' = [hits EXCEPT ![r] = 0]
    /\ refused' \in {refused, FALSE}
    /\ UNCHANGED <<count, ttl, open, recent, due>>

\* "Redis being unavailable never blocks a request": nothing is counted.
FailOpen ==
    /\ ~open
    /\ refused' = FALSE
    /\ UNCHANGED <<count, ttl, hits, open, recent, due>>

\* Redis cannot be reached, or can again.
Outage ==
    /\ open' = ~open
    /\ UNCHANGED <<count, ttl, hits, recent, due, refused>>

Tick ==
    /\ ttl' = IF ttl \in {None, 1} THEN None ELSE ttl - 1
    /\ count' = IF ttl = 1 THEN 0 ELSE count
    /\ due' = IF ttl = 1 \/ due \in {None, 0} THEN None ELSE due - 1
    /\ recent' = [a \in Age |-> IF a = 0 THEN 0 ELSE recent[a - 1]]
    /\ UNCHANGED <<hits, open, refused>>

Next ==
    \/ \E r \in Request : Hit(r) \/ Expire(r) \/ Abandon(r)
    \/ FailOpen \/ Outage \/ Tick

Spec == Init /\ [][Next]_vars

\* A client that keeps trying, a clock that goes on, and every outage has an end.
\* A request may still be abandoned.
LiveSpec ==
    /\ Spec
    /\ WF_vars(Tick) /\ WF_vars(~open /\ Outage)
    /\ SF_vars(\E r \in Request : Hit(r)) /\ \A r \in Request : SF_vars(Expire(r))

-----------------------------------------------------------------------------
(* Properties.                                                             *)

\* "At most limit requests per window" (limit_by_ip): windows do not slide, so
\* any stretch of that length holds at most two of them, however the two round
\* trips of several requests interleave or fail.
SlidingBound == SumFunctionOnSet(recent, Age) <= 2 * Limit

\* A client over its limit that keeps trying finds the counter reset, even when
\* requests have left it without an expiry (hit: every hit looks at the TTL).
CounterResets == count > Limit ~> count = 0

\* "Returns (allowed, seconds until reset)" (hit): once the seconds a refused
\* client was told are over, the counter has been reset.
ResetComesInTime == due # 0
=============================================================================
