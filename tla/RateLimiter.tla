---------------------------- MODULE RateLimiter ----------------------------
(***************************************************************************)
(* The token bucket of one API key: TokenBucketRateLimiter.check           *)
(* (app/services/rate_limiter.py) as enforce_rate_limit (app/api/deps.py)  *)
(* calls it, from any number of requests at once.                          *)
(*                                                                         *)
(* A request reads its clock, then awaits the Lua script; the script is    *)
(* atomic, but requests may reach Redis in another order than the one in   *)
(* which they read the clock.  Time is counted in ticks and tokens in      *)
(* shares of 1/Minute of a token, so that the refill rate, Limit tokens a  *)
(* minute, is Limit shares a tick and the arithmetic is exact; the rounding*)
(* of the floats of the script is not modelled.                            *)
(*                                                                         *)
(* `clock` is that of the API host that is most ahead.  A call of a host   *)
(* that is behind has a time that this clock showed a while ago: it is the *)
(* same as a call that has been under way for so much longer, so that Delay*)
(* stands for latency and difference of clocks together.  (Redis measures  *)
(* EXPIRE with its own clock, of which only the speed matters.)            *)
(***************************************************************************)
EXTENDS Integers

CONSTANTS
    Requests,  \* slots for requests in flight
    Limit,     \* ApiKey.rate_limit_per_min
    Second,    \* ticks in a second
    Minute,    \* ticks in a minute
    Ttl,       \* ticks before Redis drops an idle bucket: EXPIRE 120
    Delay,     \* longest time from what time.time() says to the run of the script
    MaxTime,   \* bound of the clock
    Never      \* no promise

ASSUME RateAssumption == /\ Limit \in Nat /\ Second \in Nat \ {0} /\ Minute \in Nat \ {0}
                         /\ Ttl \in Nat /\ Delay \in Nat /\ MaxTime \in Nat
\* 120 s are enough for a bucket to fill up, which takes a minute, and for
\* the slowest request that still thinks of the time before.
ASSUME TtlAssumption == Minute + Delay <= Ttl
ASSUME NeverAssumption == Never \notin Nat

VARIABLES
    clock,    \* the time, the same for the API and Redis
    req,      \* req[r]: the call of check() in slot r
    bucket,   \* the hash "ratelimit:<api_key_id>" and the time it expires
    promise,  \* promise[r]: the time up to which r was told to wait by a 429
              \* and since which nobody was admitted, or Never
    win       \* an observer: admissions since a moment without calls

vars == <<clock, req, bucket, promise, win>>

Full == Limit * Minute
Token == Minute

Least(a, b) == IF a <= b THEN a ELSE b
Most(a, b) == IF a >= b THEN a ELSE b

TypeOK ==
    /\ clock \in 0 .. MaxTime
    /\ req \in [Requests -> [sent : BOOLEAN, now : 0 .. MaxTime]]
    /\ bucket \in [tokens : 0 .. Full, last : 0 .. MaxTime, expires : Nat]
    /\ promise \in [Requests -> Nat \cup {Never}]
    /\ win \in [start : 0 .. MaxTime, count : Nat, back : Nat]

Init ==
    /\ clock = 0
    /\ req = [r \in Requests |-> [sent |-> FALSE, now |-> 0]]
    /\ bucket = [tokens |-> Full, last |-> 0, expires |-> 0]
    /\ promise = [r \in Requests |-> Never]
    /\ win = [start |-> 0, count |-> 0, back |-> 0]

\* now = time.time()
Read(r) ==
    /\ ~req[r].sent
    /\ req' = [req EXCEPT ![r] = [sent |-> TRUE, now |-> clock]]
    /\ UNCHANGED <<clock, bucket, promise, win>>

\* The key is not in Redis: never written, or expired.
Gone == bucket.expires <= clock

\* The refill without its cap.
MutRefilled(now) == bucket.tokens + Limit * Most(0, now - bucket.last)

\* The tokens the script finds at `now`.
Refilled(now) ==
    IF Gone THEN Full
    ELSE Least(Full, bucket.tokens + Limit * Most(0, now - bucket.last))

\* Retry-After as the header would be without the "+ 1".
MutRetryAfter(tokens) ==
    IF Limit > 0 THEN (Token - tokens) \div (Limit * Second) ELSE 1

\* int(retry_after) + 1, in seconds; retry_after is 1.0 when nothing refills.
RetryAfter(tokens) ==
    IF Limit > 0 THEN (Token - tokens) \div (Limit * Second) + 1 ELSE 2

\* last_refill moves only when a token is spent.
MutStamp(now, ok) == IF ok THEN now ELSE bucket.last

\* HMSET stores `now`, whatever it is, and whatever was stored before.
Stamp(now, ok) == now

\* EXPIRE only for a key the script has just created.
MutExpiry == IF Gone THEN clock + Ttl ELSE bucket.expires

Expiry == clock + Ttl

\* The script, and the answer enforce_rate_limit makes of its result.
Eval(r) ==
    /\ req[r].sent
    /\ LET now    == req[r].now
           tokens == Refilled(now)
           ok     == tokens >= Token
           back   == IF Gone THEN 0 ELSE Most(0, bucket.last - now)
       IN /\ bucket' = [tokens  |-> IF ok THEN tokens - Token ELSE tokens,
                        last    |-> Stamp(now, ok),
                        expires |-> Expiry]
          /\ promise' = IF ok THEN [q \in Requests |-> Never]
                        ELSE [promise EXCEPT ![r] = now + Second * RetryAfter(tokens)]
          /\ win' = [win EXCEPT !.count = IF ok THEN @ + 1 ELSE @, !.back = @ + back]
    /\ req' = [req EXCEPT ![r].sent = FALSE]
    /\ UNCHANGED clock

Tick ==
    /\ clock < MaxTime
    /\ \A r \in Requests : req[r].sent => clock - req[r].now < Delay
    /\ clock' = clock + 1
    /\ UNCHANGED <<req, bucket, promise, win>>

\* The observer starts to count at any moment when no call is in flight.
Watch ==
    /\ \A r \in Requests : ~req[r].sent
    /\ win' = [start |-> clock, count |-> 0, back |-> 0]
    /\ UNCHANGED <<clock, req, bucket, promise>>

Next == Tick \/ Watch \/ \E r \in Requests : Read(r) \/ Eval(r)

Spec == Init /\ [][Next]_vars

-----------------------------------------------------------------------------

\* The contract of a token bucket: from any quiet moment on, no more requests
\* are admitted than its capacity and the refill since then allow.  Concurrent
\* requests are said not to disturb it (rate_limiter.py:5-9, README.md:143-147).
AdmittedWithinBudget ==
    Token * win.count <= Full + Limit * (clock - win.start)

\* What holds of concurrent requests: a script that runs with an older time
\* than its predecessor sets last_refill back, and that much time is refilled
\* once more (rate_limiter.py:30-39), nothing else is.  Where no script runs
\* late, win.back = 0 and this is AdmittedWithinBudget.
BudgetWithOverlap ==
    Token * win.count <= Full + Limit * (clock - win.start + win.back)

\* An expired bucket is one that would be full again, for every call that can
\* still run: a key that Redis forgets grants nothing (rate_limiter.py:40).
ExpiryHarmless ==
    \A now \in {clock} \cup {req[r].now : r \in {q \in Requests : req[q].sent}} :
       Gone => bucket.tokens + Limit * Most(0, now - bucket.last) >= Full

\* Retry-After is enough: a client that comes back when it was told to is
\* admitted if nobody was admitted in between (deps.py:47-52,
\* rate_limiter.py:63-65), whatever else was refused meanwhile.
PromiseKept ==
    [][\A r \in Requests :
          /\ req[r].sent /\ ~req'[r].sent
          /\ promise[r] # Never /\ req[r].now >= promise[r] /\ Limit > 0
          => win'.count = win.count + 1]_vars

-----------------------------------------------------------------------------
(* The inductive invariant. *)

\* A call in flight read its clock at most Delay ago, and not before the
\* observer began to count.
CallOK(r) == req[r].sent => /\ req[r].now <= clock /\ clock - req[r].now <= Delay
                            /\ win.start <= req[r].now

\* What was admitted and what is left do not exceed capacity and refill up to
\* the last refill.
Balance == Token * win.count + bucket.tokens
             <= Full + Limit * (Most(bucket.last, win.start) - win.start + win.back)

\* At the promised time the bucket holds a token, whatever was refused since.
PromiseOK(r) == promise[r] # Never /\ Limit > 0
                  => bucket.tokens + Limit * (promise[r] - bucket.last) >= Token

\* The invariant behind the properties above; the bucket is as new or expires
\* no earlier than Ttl after its last refill.
IInv ==
    /\ TypeOK
    /\ win.start <= clock /\ bucket.last <= clock
    /\ \A r \in Requests : CallOK(r) /\ PromiseOK(r)
    /\ bucket.last < win.start => win.count = 0 /\ win.back = 0
    /\ \/ bucket.last = 0 /\ bucket.tokens = Full
       \/ bucket.last + Ttl <= bucket.expires
    /\ Balance

-----------------------------------------------------------------------------
(* Refinement. *)

\* What a call that is judged at once would find, and how long the others have
\* been under way.
Ideal == INSTANCE Meter WITH
    Capacity <- Full, Rate <- Limit, Cost <- Token, Slack <- Delay, Idle <- Never,
    credit <- Refilled(clock), count <- win.count,
    age <- [r \in Requests |-> IF req[r].sent THEN clock - req[r].now ELSE Never]

\* The hash that is refilled when somebody asks, with the caller's time, and
\* forgotten after 120 s, is as good as a meter that is refilled all the time
\* and never forgotten: no step but a call spends or grants anything, a call is
\* admitted only against a token that is there, and refused only if there is
\* none without what was refilled since it read its clock; the one deviation is
\* that a late call may grant the time it is late once more
\* (rate_limiter.py:17-43).
KeepsMeter == Ideal!Spec
=============================================================================
