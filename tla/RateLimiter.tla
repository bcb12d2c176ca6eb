---------------------------- MODULE RateLimiter ----------------------------
(***************************************************************************)
(* RateLimiter of api/rate_limit.py: a token bucket per tenant and         *)
(* endpoint in each replica.  Every endpoint is a coroutine, so acquire    *)
(* runs on the event loop alone and is one step.                           *)
(*                                                                         *)
(* Time is a clock of ticks, tokens are counted in units: a tick refills   *)
(* Rpm units and a token is worth the units of a minute's ticks, that is   *)
(* Rpm tokens per minute exactly.  The code counts in floats; their        *)
(* rounding is left out.                                                   *)
(***************************************************************************)
EXTENDS Integers

CONSTANTS
    Servers, Tenants, Endpoints,
    Rpm, Burst,         \* CODEX_RATE_LIMIT_RPM and _BURST, each at least one
    TicksPerSecond,
    MaxTime,            \* bound on the clock
    Watched,            \* buckets for which a window of time may be marked
    None

ASSUME LimiterAssumption ==
    /\ Rpm \in Nat \ {0} /\ Burst \in Nat \ {0} /\ TicksPerSecond \in Nat \ {0}
    /\ MaxTime \in Nat /\ Watched \subseteq Servers \X Tenants \X Endpoints
    /\ None \notin [tokens: Nat, last: Nat]
    /\ None \notin [bucket: Servers \X Tenants \X Endpoints, at: Nat, granted: Nat]

VARIABLES
    clock,      \* time.monotonic
    buckets,    \* _buckets of each replica: units and time of the last refill, or None
    granted,    \* history: tokens each bucket has granted
    mark        \* history: a moment chosen for one bucket, the start of a window, or None

limiterVars == <<clock, buckets, granted, mark>>

Token == 60 * TicksPerSecond
Full == Burst * Token

Buckets == Servers \X Tenants \X Endpoints
Bucket == [tokens: 0 .. Full, last: 0 .. MaxTime]
Mark == [bucket: Buckets, at: 0 .. MaxTime, granted: Nat]

Lesser(a, b) == IF a <= b THEN a ELSE b

LimiterInit ==
    /\ clock = 0
    /\ buckets = [b \in Buckets |-> None]
    /\ granted = [b \in Buckets |-> 0]
    /\ mark = None

\* A mutant: what was not used up is kept without limit.
AvailableUncapped(b) ==
    IF buckets[b] = None THEN Full
    ELSE buckets[b].tokens + (clock - buckets[b].last) * Rpm

\* The units in a bucket once it is refilled; a new bucket is full.
Available(b) ==
    IF buckets[b] = None THEN Full
    ELSE Lesser(Full, buckets[b].tokens + (clock - buckets[b].last) * Rpm)

Admits(b) == Available(b) >= Token

\* A mutant: last_refill is only set when the bucket is created.
AcquireKeepsStamp(b) ==
    LET price == IF Admits(b) THEN Token ELSE 0
        count == IF Admits(b) THEN 1 ELSE 0
        since == IF buckets[b] = None THEN clock ELSE buckets[b].last
    IN  /\ buckets' = [buckets EXCEPT ![b] = [tokens |-> Available(b) - price, last |-> since]]
        /\ granted' = [granted EXCEPT ![b] = granted[b] + count]
        /\ UNCHANGED <<clock, mark>>

\* acquire: refill, then take a token if there is one.
Acquire(b) ==
    LET price == IF Admits(b) THEN Token ELSE 0
        count == IF Admits(b) THEN 1 ELSE 0
    IN  /\ buckets' = [buckets EXCEPT ![b] = [tokens |-> Available(b) - price, last |-> clock]]
        /\ granted' = [granted EXCEPT ![b] = granted[b] + count]
        /\ UNCHANGED <<clock, mark>>

\* A mutant: the wait rounded down, max(1, int(retry)).
RetryAfterFloor(b) ==
    LET seconds == (Token - Available(b)) \div (Rpm * TicksPerSecond)
    IN  IF seconds < 1 THEN 1 ELSE seconds

\* The Retry-After header of _enforce_rate_limit, in seconds.
RetryAfter(b) == ((Token - Available(b)) \div (Rpm * TicksPerSecond)) + 1

Tick ==
    /\ clock < MaxTime
    /\ clock' = clock + 1
    /\ UNCHANGED <<buckets, granted, mark>>

MarkWindow ==
    /\ mark = None
    /\ \E b \in Watched : mark' = [bucket |-> b, at |-> clock, granted |-> granted[b]]
    /\ UNCHANGED <<clock, buckets, granted>>

-----------------------------------------------------------------------------
LimiterTypeOK ==
    /\ clock \in 0 .. MaxTime
    /\ buckets \in [Buckets -> Bucket \cup {None}]
    /\ \A b \in Buckets : buckets[b] # None => buckets[b].last <= clock
    /\ granted \in [Buckets -> Nat]
    /\ mark \in Mark \cup {None}

\* The quota, over a window that opens at any moment: a bucket grants at most its burst and
\* what the elapsed time refills (acquire).
QuotaHolds ==
    mark # None =>
        (granted[mark.bucket] - mark.granted) * Token <= Full + (clock - mark.at) * Rpm
=============================================================================
