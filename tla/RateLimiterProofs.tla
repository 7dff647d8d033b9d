------------------------- MODULE RateLimiterProofs -------------------------
(***************************************************************************)
(* Proofs about RateLimiter, for any limit, any number of requests in      *)
(* flight and any clock: IInv is inductive; what overlapping requests can  *)
(* gain is bounded, expiry grants nothing, and Retry-After is enough.      *)
(***************************************************************************)
EXTENDS RateLimiter, TLAPS

-----------------------------------------------------------------------------
(* Arithmetic: products are opaque to the SMT solver, so what is used of     *)
(* them is stated once.                                                      *)

\* Multiplication by a natural number is monotonic.
LEMMA TimesMonotonic ==
    ASSUME NEW n \in Nat, NEW a \in Int, NEW b \in Int, a <= b
    PROVE  n * a <= n * b
<1>1. PICK d \in Nat : b = a + d
  <2>1. b - a \in Nat /\ b = a + (b - a)
    OBVIOUS
  <2> QED
    BY <2>1
<1>2. n * d \in Nat
  OBVIOUS
<1>3. n * b = n * a + n * d
  BY <1>1
<1> QED
  BY <1>2, <1>3

\* Multiplication distributes over sums.
LEMMA TimesSum ==
    ASSUME NEW n \in Nat, NEW a \in Int, NEW b \in Int
    PROVE  n * (a + b) = n * a + n * b
OBVIOUS

\* A product of naturals is a natural number.
LEMMA TimesNat ==
    ASSUME NEW n \in Nat, NEW a \in Nat
    PROVE  n * a \in Nat
OBVIOUS

\* A rounded-up quotient is more than the quotient.
LEMMA RoundedUp ==
    ASSUME NEW n \in Nat, NEW s \in Nat \ {0}, NEW x \in Nat, n > 0
    PROVE  /\ x \div (n * s) + 1 \in Nat
           /\ n * (s * (x \div (n * s) + 1)) > x
<1> DEFINE d == n * s
           q == x \div d
<1>1. d \in Nat /\ d > 0
  OBVIOUS
<1>2. q \in Int /\ d * q <= x /\ x < d * q + d
  <2> HIDE DEF d
  <2> QED
    BY <1>1
<1>3. q \in Nat
  <2> HIDE DEF q
  <2>1. ASSUME q < 0
        PROVE  FALSE
    <3>1. d * q <= d * (-1)
      BY <1>1, <1>2, <2>1, TimesMonotonic
    <3> QED
      BY <1>1, <1>2, <3>1
  <2> QED
    BY <1>2, <2>1
<1>4. n * (s * (q + 1)) = d * q + d
  <2> HIDE DEF q
  <2> QED
    BY <1>3
<1> QED
  BY <1>2, <1>3, <1>4

-----------------------------------------------------------------------------
(* The bucket. *)

\* The constants as the SMT solver should see them.
LEMMA Constants ==
    /\ Limit \in Nat /\ Minute \in Nat /\ Minute > 0 /\ Second \in Nat \ {0}
    /\ Ttl \in Nat /\ Delay \in Nat /\ Minute + Delay <= Ttl
    /\ Full \in Nat /\ Full = Limit * Minute /\ Token = Minute
BY RateAssumption, TtlAssumption DEF Full, Token

\* What a call finds: within the capacity, and no more than was left and
\* refilled since, if the bucket is there.
LEMMA RefilledBounds ==
    ASSUME IInv, NEW now \in Nat
    PROVE  /\ Refilled(now) \in 0 .. Full
           /\ Gone => Refilled(now) = Full
           /\ ~Gone => /\ Refilled(now) <= bucket.tokens + Limit * Most(0, now - bucket.last)
                       /\ \/ Refilled(now) = Full
                          \/ Refilled(now) = bucket.tokens + Limit * Most(0, now - bucket.last)
<1>1. bucket.tokens \in 0 .. Full /\ bucket.last \in Nat
  BY RateAssumption DEF IInv, TypeOK
<1>2. Most(0, now - bucket.last) \in Nat
  BY <1>1 DEF Most
<1>3. Limit * Most(0, now - bucket.last) \in Nat
  BY <1>2, Constants, TimesNat
<1> QED
  BY <1>1, <1>3, Constants DEF Refilled, Least

\* A bucket that expired would be full for every call that can still run.
LEMMA Harmless ==
    ASSUME IInv, Gone, NEW now \in Nat, clock - now <= Delay
    PROVE  /\ bucket.tokens + Limit * Most(0, now - bucket.last) >= Full
           /\ bucket.last <= now
<1>1. /\ bucket.tokens \in 0 .. Full /\ bucket.last \in Nat /\ clock \in Nat
      /\ bucket.expires \in Nat /\ bucket.expires <= clock
  BY RateAssumption DEF IInv, TypeOK, Gone
<1>2. Limit * Most(0, now - bucket.last) \in Nat
  BY <1>1, Constants, TimesNat DEF Most
<1>3. CASE bucket.last = 0 /\ bucket.tokens = Full
  BY <1>1, <1>2, <1>3, Constants
<1>4. CASE bucket.last + Ttl <= bucket.expires
  <2>1. now - bucket.last >= Minute
    BY <1>1, <1>4, Constants
  <2>2. Most(0, now - bucket.last) = now - bucket.last
    BY <1>1, <2>1, Constants DEF Most
  <2>3. Limit * (now - bucket.last) >= Full
    BY <1>1, <2>1, Constants, TimesMonotonic
  <2> QED
    BY <1>1, <2>1, <2>2, <2>3, Constants
<1> QED
  BY <1>3, <1>4 DEF IInv

-----------------------------------------------------------------------------
(* One lemma per action. *)

\* The first state: a full bucket that was never written.
LEMMA InitKeeps == ASSUME Init PROVE IInv
<1>1. TypeOK
  BY RateAssumption, Constants DEF Init, TypeOK
<1>2. Balance
  <2>1. Limit * 0 = 0 /\ Token * 0 = 0
    BY Constants
  <2> QED
    BY <2>1, Constants DEF Init, Balance, Most
<1>3. \A r \in Requests : CallOK(r) /\ PromiseOK(r)
  BY DEF Init, CallOK, PromiseOK
<1> QED
  BY <1>1, <1>2, <1>3 DEF Init, IInv

\* Reading the clock changes the call alone.
LEMMA ReadKeeps ==
    ASSUME IInv, NEW r \in Requests, Read(r)
    PROVE  IInv'
<1>1. /\ clock \in 0 .. MaxTime /\ win.start \in Nat /\ win.start <= clock
      /\ req \in [Requests -> [sent : BOOLEAN, now : 0 .. MaxTime]]
  BY RateAssumption DEF IInv, TypeOK
<1>2. TypeOK'
  BY <1>1 DEF IInv, TypeOK, Read
<1>3. \A q \in Requests : CallOK(q)' /\ PromiseOK(q)'
  <2> TAKE q \in Requests
  <2>1. CallOK(q) /\ PromiseOK(q)
    BY DEF IInv
  <2>2. CASE q = r
    BY <1>1, <2>1, <2>2, Constants DEF Read, CallOK, PromiseOK
  <2>3. CASE q # r
    BY <1>1, <2>1, <2>3 DEF Read, CallOK, PromiseOK
  <2> QED
    BY <2>2, <2>3
<1> QED
  BY <1>2, <1>3 DEF IInv, Read, Balance

\* Time passes and no call in flight becomes older than Delay.
LEMMA TickKeeps == ASSUME IInv, Tick PROVE IInv'
<1>1. /\ clock \in 0 .. MaxTime /\ win.start \in Nat /\ bucket.last \in Nat
      /\ req \in [Requests -> [sent : BOOLEAN, now : 0 .. MaxTime]]
      /\ MaxTime \in Nat
  BY RateAssumption DEF IInv, TypeOK
<1>2. TypeOK'
  BY <1>1 DEF IInv, TypeOK, Tick
<1>3. \A q \in Requests : CallOK(q)' /\ PromiseOK(q)'
  <2> TAKE q \in Requests
  <2>1. CallOK(q) /\ PromiseOK(q) /\ req[q].now \in Nat
    BY <1>1 DEF IInv
  <2> QED
    BY <1>1, <2>1, Constants DEF Tick, CallOK, PromiseOK
<1> QED
  BY <1>1, <1>2, <1>3 DEF IInv, Tick, Balance

\* The observer starts over: the bucket holds no more than its capacity.
LEMMA WatchKeeps == ASSUME IInv, Watch PROVE IInv'
<1>1. /\ clock \in 0 .. MaxTime /\ bucket.last \in Nat /\ bucket.last <= clock
      /\ bucket.tokens \in 0 .. Full
  BY RateAssumption DEF IInv, TypeOK
<1>2. TypeOK'
  BY <1>1 DEF IInv, TypeOK, Watch
<1>3. Balance'
  <2>1. Limit * 0 = 0 /\ Token * 0 = 0
    BY Constants
  <2>2. Most(bucket.last, clock) - clock + 0 = 0
    BY <1>1 DEF Most
  <2> QED
    BY <1>1, <2>1, <2>2, Constants DEF Watch, Balance
<1>4. \A q \in Requests : CallOK(q)' /\ PromiseOK(q)'
  BY DEF IInv, Watch, CallOK, PromiseOK
<1> QED
  BY <1>1, <1>2, <1>3, <1>4 DEF IInv, Watch

\* What a script adds to what was admitted is taken from the bucket, and what
\* it refills is the time since the last refill, or a time refilled before.
LEMMA EvalBalance ==
    ASSUME IInv, NEW r \in Requests, Eval(r)
    PROVE  Balance' /\ (bucket'.last < win'.start => win'.count = 0 /\ win'.back = 0)
<1> DEFINE now == req[r].now
           l == bucket.last
           s == win.start
           T == bucket.tokens
           tokens == Refilled(now)
           back == IF Gone THEN 0 ELSE Most(0, l - now)
<1>1. /\ now \in Nat /\ l \in Nat /\ s \in Nat /\ T \in 0 .. Full
      /\ win.count \in Nat /\ win.back \in Nat /\ clock \in Nat
      /\ now <= clock /\ clock - now <= Delay /\ s <= now
  BY RateAssumption DEF IInv, TypeOK, CallOK, Eval
<1>2. /\ tokens \in 0 .. Full
      /\ ~Gone => tokens <= T + Limit * Most(0, now - l)
  BY <1>1, RefilledBounds
<1>3. /\ bucket'.last = now /\ win'.start = s /\ win'.back = win.back + back
      /\ \/ bucket'.tokens = tokens /\ win'.count = win.count
         \/ bucket'.tokens = tokens - Token /\ win'.count = win.count + 1
  BY DEF Eval, Stamp, IInv, TypeOK
<1>4. back \in Nat /\ (Gone => back = 0) /\ (~Gone => back = Most(0, l - now))
  BY <1>1 DEF Most
<1>5. Balance /\ (l < s => win.count = 0 /\ win.back = 0) /\ (Gone => l <= now)
  BY <1>1, Harmless DEF IInv
<1>6. Token * win'.count + bucket'.tokens = Token * win.count + tokens
  <2> HIDE DEF tokens, back
  <2>1. Token * (win.count + 1) = Token * win.count + Token /\ Token * win.count \in Nat
    BY <1>1, Constants
  <2> QED
    BY <1>2, <1>3, <2>1, Constants
<1>7. Most(now, s) = now
  BY <1>1 DEF Most
<1>8. SUFFICES Token * win.count + tokens <= Full + Limit * (now - s + (win.back + back))
  <2> HIDE DEF tokens, back, now, s
  <2> QED
    BY <1>1, <1>3, <1>6, <1>7 DEF Balance
<1> HIDE DEF now, l, s, T, tokens, back
<1>9. now - s + (win.back + back) \in Nat
  BY <1>1, <1>4
<1>10. CASE l < s
  <2>1. Token * win.count = 0
    BY <1>5, <1>10, Constants
  <2>2. Limit * (now - s + (win.back + back)) \in Nat
    BY <1>9, Constants, TimesNat
  <2> QED
    BY <1>2, <2>1, <2>2, Constants
<1>11. CASE ~(l < s)
  <2>1. Token * win.count + T <= Full + Limit * (l - s + win.back)
    BY <1>1, <1>5, <1>11 DEF Balance, Most, l, s, T
  <2>2. Token * win.count \in Nat
    BY <1>1, Constants, TimesNat
  <2>3. CASE ~Gone
    <3>1. Most(0, now - l) \in Nat
      BY <1>1 DEF Most
    <3>2. Limit * (l - s + win.back) + Limit * Most(0, now - l)
            = Limit * (l - s + win.back + Most(0, now - l))
      BY <1>1, <3>1, Constants, TimesSum
    <3>3. l - s + win.back + Most(0, now - l) = now - s + (win.back + back)
      BY <1>1, <1>4, <2>3 DEF Most
    <3>4. Limit * (l - s + win.back) \in Int /\ Limit * Most(0, now - l) \in Int
      BY <1>1, <3>1, Constants
    <3> QED
      BY <1>1, <1>2, <2>1, <2>2, <2>3, <3>2, <3>3, <3>4, Constants
  <2>4. CASE Gone
    <3>1. Limit * (l - s + win.back) + Limit * (now - l)
            = Limit * (l - s + win.back + (now - l))
      BY <1>1, Constants, TimesSum
    <3>2. l - s + win.back + (now - l) = now - s + (win.back + back)
      BY <1>1, <1>4, <2>4
    <3>3. T + Limit * (now - l) >= Full
      BY <1>1, <1>5, <2>4, Harmless DEF Most, T, l
    <3>4. Limit * (l - s + win.back) \in Int /\ Limit * (now - l) \in Int
      BY <1>1, Constants
    <3> QED
      BY <1>1, <1>2, <2>1, <2>2, <3>1, <3>2, <3>3, <3>4, Constants
  <2> QED
    BY <2>3, <2>4
<1> QED
  BY <1>10, <1>11

\* A refusal promises the refused call a token and takes none of those that
\* were promised before.
LEMMA EvalPromises ==
    ASSUME IInv, NEW r \in Requests, Eval(r), NEW q \in Requests
    PROVE  PromiseOK(q)' /\ promise'[q] \in Nat \cup {Never}
<1> DEFINE now == req[r].now
           l == bucket.last
           T == bucket.tokens
           tokens == Refilled(now)
<1>1. /\ now \in Nat /\ l \in Nat /\ T \in 0 .. Full
      /\ promise \in [Requests -> Nat \cup {Never}]
  BY RateAssumption DEF IInv, TypeOK, Eval
<1>2. /\ tokens \in 0 .. Full
      /\ tokens = Full \/ tokens = T + Limit * Most(0, now - l)
  BY <1>1, RefilledBounds
<1>3. CASE tokens >= Token
  BY <1>3 DEF Eval, PromiseOK
<1>4. CASE ~(tokens >= Token)
  <2>1. /\ bucket'.last = now /\ bucket'.tokens = tokens
        /\ promise' = [promise EXCEPT ![r] = now + Second * RetryAfter(tokens)]
    BY <1>4 DEF Eval, Stamp
  <2>2. Token - tokens \in Nat
    BY <1>2, <1>4, Constants
  <2>3. CASE q = r
    <3> HIDE DEF now, tokens
    <3>1. promise'[q] = now + Second * RetryAfter(tokens)
      BY <1>1, <2>1, <2>3
    <3>2. CASE Limit > 0
      <4>1. /\ RetryAfter(tokens) \in Nat
            /\ Limit * (Second * RetryAfter(tokens)) > Token - tokens
        BY <2>2, <3>2, Constants, RoundedUp DEF RetryAfter
      <4>2. Second * RetryAfter(tokens) \in Nat
        BY <4>1, Constants, TimesNat
      <4>3. promise'[q] \in Nat /\ promise'[q] - now = Second * RetryAfter(tokens)
        BY <1>1, <3>1, <4>2
      <4>4. Limit * (Second * RetryAfter(tokens)) \in Nat
        BY <4>2, Constants, TimesNat
      <4> QED
        BY <1>2, <2>1, <4>1, <4>3, <4>4, Constants DEF PromiseOK
    <3>3. CASE ~(Limit > 0)
      <4>1. Second * RetryAfter(tokens) \in Nat
        BY <3>3, Constants, TimesNat DEF RetryAfter
      <4> QED
        BY <1>1, <3>1, <3>3, <4>1 DEF PromiseOK
    <3> QED
      BY <3>2, <3>3
  <2>4. CASE q # r
    <3>1. promise'[q] = promise[q] /\ promise[q] \in Nat \cup {Never}
      BY <1>1, <2>1, <2>4
    <3>2. ASSUME promise[q] # Never, Limit > 0
          PROVE  tokens + Limit * (promise[q] - now) >= Token
      <4> DEFINE p == promise[q]
                 w == Most(0, now - l)
      <4>1. p \in Nat /\ w \in Nat /\ p - l <= w + (p - now)
        BY <1>1, <3>1, <3>2 DEF Most
      <4>2. T + Limit * (p - l) >= Token
        BY <3>2 DEF IInv, PromiseOK
      <4>3. Full >= Token
        BY <3>2, Constants, TimesMonotonic
      <4>4. tokens = T + Limit * w
        BY <1>2, <1>4, <4>3, Constants
      <4> HIDE DEF now, l, T, tokens, p, w
      <4>5. Limit * (p - l) <= Limit * (w + (p - now))
        BY <1>1, <4>1, Constants, TimesMonotonic
      <4>6. Limit * (w + (p - now)) = Limit * w + Limit * (p - now)
        BY <1>1, <4>1, Constants, TimesSum
      <4>7. Limit * (p - l) \in Int /\ Limit * w \in Int /\ Limit * (p - now) \in Int
        BY <1>1, <4>1, Constants
      <4> QED
        BY <1>1, <4>2, <4>4, <4>5, <4>6, <4>7, Constants DEF p
    <3> QED
      BY <2>1, <3>1, <3>2 DEF PromiseOK
  <2> QED
    BY <2>3, <2>4
<1> QED
  BY <1>3, <1>4

\* A run of the script keeps the invariant.
LEMMA EvalKeeps ==
    ASSUME IInv, NEW r \in Requests, Eval(r)
    PROVE  IInv'
<1> DEFINE now == req[r].now
           tokens == Refilled(now)
           back == IF Gone THEN 0 ELSE Most(0, bucket.last - now)
<1>1. /\ now \in 0 .. MaxTime /\ clock \in 0 .. MaxTime /\ bucket.last \in Nat
      /\ req \in [Requests -> [sent : BOOLEAN, now : 0 .. MaxTime]]
      /\ promise \in [Requests -> Nat \cup {Never}]
      /\ win \in [start : 0 .. MaxTime, count : Nat, back : Nat]
      /\ MaxTime \in Nat /\ now <= clock
  BY RateAssumption DEF IInv, TypeOK, CallOK, Eval
<1>2. tokens \in 0 .. Full
  BY <1>1, RefilledBounds
<1>3. bucket' = [tokens |-> IF tokens >= Token THEN tokens - Token ELSE tokens,
                 last |-> now, expires |-> clock + Ttl]
  BY DEF Eval, Stamp, Expiry
<1>4. /\ win'.start = win.start /\ clock' = clock
      /\ req' = [req EXCEPT ![r].sent = FALSE]
  BY <1>1 DEF Eval
<1>5. TypeOK'
  <2>1. bucket' \in [tokens : 0 .. Full, last : 0 .. MaxTime, expires : Nat]
    <3> HIDE DEF now, tokens
    <3> QED
      BY <1>1, <1>2, <1>3, Constants
  <2>2. win' \in [start : 0 .. MaxTime, count : Nat, back : Nat]
    <3>1. back \in Nat
      BY <1>1 DEF Most
    <3>2. PICK ok \in BOOLEAN :
             win' = [win EXCEPT !.count = IF ok THEN @ + 1 ELSE @, !.back = @ + back]
      BY DEF Eval
    <3> HIDE DEF back
    <3>3. win' = [start |-> win.start, count |-> IF ok THEN win.count + 1 ELSE win.count,
                  back |-> win.back + back]
      BY <1>1, <3>2
    <3>4. win.start \in 0 .. MaxTime /\ win.count \in Nat /\ win.back \in Nat
      BY <1>1
    <3> QED
      BY <3>1, <3>3, <3>4
  <2>3. promise' \in [Requests -> Nat \cup {Never}]
    <3>1. \A q \in Requests : promise'[q] \in Nat \cup {Never}
      BY EvalPromises
    <3> HIDE DEF now, tokens
    <3>2. CASE promise' = [q \in Requests |-> Never]
      BY <3>2
    <3>3. CASE promise' = [promise EXCEPT ![r] = now + Second * RetryAfter(tokens)]
      BY <1>1, <3>1, <3>3
    <3> QED
      BY <3>2, <3>3 DEF Eval, now, tokens
  <2>4. req' \in [Requests -> [sent : BOOLEAN, now : 0 .. MaxTime]]
    BY <1>1, <1>4
  <2> QED
    BY <1>1, <1>4, <2>1, <2>2, <2>3, <2>4 DEF TypeOK
<1>6. \A q \in Requests : CallOK(q)' /\ PromiseOK(q)'
  <2> TAKE q \in Requests
  <2>1. CallOK(q)
    BY DEF IInv
  <2>2. CallOK(q)'
    BY <1>1, <1>4, <2>1 DEF CallOK
  <2> QED
    BY <2>2, EvalPromises
<1>7. bucket'.last + Ttl <= bucket'.expires /\ bucket'.last <= clock' /\ win'.start <= clock'
  BY <1>1, <1>3, <1>4, Constants DEF IInv
<1> QED
  BY <1>5, <1>6, <1>7, EvalBalance DEF IInv

-----------------------------------------------------------------------------
(* The theorems. *)

\* Every step keeps the invariant.
LEMMA Inductive == IInv /\ [Next]_vars => IInv'
<1> SUFFICES ASSUME IInv, [Next]_vars
             PROVE  IInv'
  OBVIOUS
<1>1. CASE Tick
  BY <1>1, TickKeeps
<1>2. CASE Watch
  BY <1>2, WatchKeeps
<1>3. ASSUME NEW r \in Requests, Read(r)
      PROVE  IInv'
  BY <1>3, ReadKeeps
<1>4. ASSUME NEW r \in Requests, Eval(r)
      PROVE  IInv'
  BY <1>4, EvalKeeps
<1>5. CASE UNCHANGED vars
  BY <1>5 DEF vars, IInv, TypeOK, CallOK, PromiseOK, Balance
<1> QED
  BY <1>1, <1>2, <1>3, <1>4, <1>5 DEF Next

\* The bucket, the calls in flight and the promises of Retry-After stay
\* consistent for any limit, number of requests and speed of the calls.
THEOREM Invariance == Spec => []IInv
BY InitKeeps, Inductive, PTL DEF Spec

\* The script never stores a negative number of tokens or more than Limit.
THEOREM TypeCorrect == Spec => []TypeOK
<1>1. IInv => TypeOK
  BY DEF IInv
<1> QED
  BY <1>1, Invariance, PTL

\* However requests overlap, those admitted since a quiet moment exceed
\* capacity and refill by no more than the time that was refilled twice.
THEOREM OverlapBounded == Spec => []BudgetWithOverlap
<1>1. IInv => BudgetWithOverlap
  <2> SUFFICES ASSUME IInv
               PROVE  BudgetWithOverlap
    OBVIOUS
  <2> DEFINE a == Most(bucket.last, win.start) - win.start + win.back
             b == clock - win.start + win.back
  <2>1. /\ bucket.last \in Nat /\ win.start \in Nat /\ win.back \in Nat /\ clock \in Nat
        /\ win.count \in Nat /\ bucket.tokens \in Nat
        /\ win.start <= clock /\ bucket.last <= clock
    BY RateAssumption, Constants DEF IInv, TypeOK
  <2>2. a \in Int /\ b \in Int /\ a <= b
    BY <2>1 DEF Most
  <2>3. Token * win.count + bucket.tokens <= Full + Limit * a
    BY DEF IInv, Balance
  <2>4. Token * win.count \in Nat
    BY <2>1, Constants, TimesNat
  <2> HIDE DEF a, b
  <2>5. Limit * a <= Limit * b /\ Limit * a \in Int /\ Limit * b \in Int
    BY <2>2, Constants, TimesMonotonic
  <2>6. Token * win.count <= Full + Limit * b
    BY <2>1, <2>3, <2>4, <2>5, Constants
  <2> QED
    BY <2>6 DEF BudgetWithOverlap, b
<1> QED
  BY <1>1, Invariance, PTL

\* A key that Redis forgot would be full again for every call that can still
\* run, those that read their clock before it expired included.
THEOREM ForgettingHarmless == Spec => []ExpiryHarmless
<1>1. IInv => ExpiryHarmless
  <2> SUFFICES ASSUME IInv, Gone,
                      NEW now \in {clock} \cup {req[r].now : r \in {q \in Requests : req[q].sent}}
               PROVE  bucket.tokens + Limit * Most(0, now - bucket.last) >= Full
    BY DEF ExpiryHarmless
  <2>1. now \in Nat /\ clock - now <= Delay
    BY RateAssumption, Constants DEF IInv, TypeOK, CallOK
  <2> QED
    BY <2>1, Harmless
<1> QED
  BY <1>1, Invariance, PTL

\* A client refused by a 429 that comes back when Retry-After told it to, and
\* before anybody else was admitted, is admitted.
THEOREM RetryAfterEnough == Spec => PromiseKept
<1>1. IInv /\ [Next]_vars
        => [\A r \in Requests :
              /\ req[r].sent /\ ~req'[r].sent
              /\ promise[r] # Never /\ req[r].now >= promise[r] /\ Limit > 0
              => win'.count = win.count + 1]_vars
  <2> SUFFICES ASSUME IInv, Next, NEW r \in Requests,
                      req[r].sent, ~req'[r].sent,
                      promise[r] # Never, req[r].now >= promise[r], Limit > 0
               PROVE  win'.count = win.count + 1
    OBVIOUS
  <2> DEFINE now == req[r].now
             l == bucket.last
             T == bucket.tokens
             p == promise[r]
             w == Most(0, now - l)
  <2>1. /\ now \in Nat /\ l \in Nat /\ T \in 0 .. Full /\ p \in Nat /\ w \in Nat
        /\ req \in [Requests -> [sent : BOOLEAN, now : 0 .. MaxTime]]
        /\ win \in [start : 0 .. MaxTime, count : Nat, back : Nat]
    BY RateAssumption DEF IInv, TypeOK, Most
  <2>2. Eval(r)
    <3>1. ASSUME NEW q \in Requests, Read(q) \/ Eval(q), q # r
          PROVE  FALSE
      BY <2>1, <3>1 DEF Read, Eval
    <3>2. ~Read(r)
      BY DEF Read
    <3>3. ~Tick /\ ~Watch
      BY DEF Tick, Watch
    <3> QED
      BY <3>1, <3>2, <3>3 DEF Next
  <2>3. Refilled(now) >= Token
    <3>1. Refilled(now) \in 0 .. Full
          /\ (Refilled(now) = Full \/ Refilled(now) = T + Limit * w)
      BY <2>1, RefilledBounds
    <3>2. Full >= Token
      BY Constants, TimesMonotonic
    <3>3. T + Limit * (p - l) >= Token
      BY DEF IInv, PromiseOK
    <3>4. p - l <= w
      BY <2>1 DEF Most
    <3> HIDE DEF l, T, p, w
    <3>5. Limit * (p - l) <= Limit * w /\ Limit * (p - l) \in Int /\ Limit * w \in Int
      BY <2>1, <3>4, Constants, TimesMonotonic
    <3> QED
      BY <2>1, <3>1, <3>2, <3>3, <3>5, Constants
  <2> QED
    BY <2>1, <2>2, <2>3 DEF Eval
<1> QED
  BY <1>1, Invariance, PTL DEF Spec, PromiseKept

-----------------------------------------------------------------------------
(* The bucket as the meter it implements. *)

\* What a later call finds is what an earlier one finds and the refill of the
\* time between them, up to the capacity.
LEMMA RefillGrows ==
    ASSUME IInv, NEW a \in Nat, NEW b \in Nat, a <= b
    PROVE  /\ Refilled(a) \in 0 .. Full /\ Refilled(b) \in 0 .. Full
           /\ Limit * (b - a) \in Nat
           /\ Refilled(a) <= Refilled(b) /\ Refilled(b) <= Refilled(a) + Limit * (b - a)
<1> DEFINE T == bucket.tokens
           m == Most(0, a - bucket.last)
           n == Most(0, b - bucket.last)
<1>1. T \in 0 .. Full /\ bucket.last \in Nat
  BY RateAssumption DEF IInv, TypeOK
<1>2. m \in Nat /\ n \in Nat /\ m <= n /\ n <= m + (b - a) /\ b - a \in Nat
  BY <1>1 DEF Most
<1>3. Refilled(a) \in 0 .. Full /\ Refilled(b) \in 0 .. Full
  BY RefilledBounds
<1>4. CASE Gone
  BY <1>2, <1>3, <1>4, Constants, TimesNat DEF Refilled
<1>5. CASE ~Gone
  <2>1. /\ Refilled(a) = Least(Full, T + Limit * m)
        /\ Refilled(b) = Least(Full, T + Limit * n)
    BY <1>5 DEF Refilled
  <2> HIDE DEF T, m, n
  <2>2. Limit * m <= Limit * n /\ Limit * n <= Limit * (m + (b - a))
    BY <1>2, Constants, TimesMonotonic
  <2>3. Limit * (m + (b - a)) = Limit * m + Limit * (b - a)
    BY <1>2, Constants, TimesSum
  <2>4. Limit * m \in Nat /\ Limit * n \in Nat /\ Limit * (b - a) \in Nat
    BY <1>2, Constants, TimesNat
  <2> QED
    BY <1>1, <1>3, <2>1, <2>2, <2>3, <2>4, Constants DEF Least
<1> QED
  BY <1>4, <1>5

\* A bucket that Redis forgot counts as what it would hold had it been kept.
LEMMA CreditIsKept ==
    ASSUME IInv
    PROVE  /\ Limit * (clock - bucket.last) \in Nat
           /\ Refilled(clock) = Least(Full, bucket.tokens + Limit * (clock - bucket.last))
<1>1. /\ bucket.tokens \in 0 .. Full /\ bucket.last \in Nat /\ clock \in Nat
      /\ bucket.last <= clock
  BY RateAssumption DEF IInv, TypeOK
<1>2. Most(0, clock - bucket.last) = clock - bucket.last /\ clock - bucket.last \in Nat
  BY <1>1 DEF Most
<1>3. Limit * (clock - bucket.last) \in Nat
  BY <1>2, Constants, TimesNat
<1>4. CASE Gone
  <2>1. bucket.tokens + Limit * (clock - bucket.last) >= Full
    BY <1>1, <1>2, <1>4, Constants, Harmless
  <2> QED
    BY <1>1, <1>3, <1>4, <2>1, Constants DEF Refilled, Least
<1>5. CASE ~Gone
  BY <1>2, <1>3, <1>5 DEF Refilled
<1> QED
  BY <1>3, <1>4, <1>5

\* A tick refills the meter, and that Redis drops the key at this tick makes no
\* difference.
LEMMA TickRefills ==
    ASSUME IInv, Tick
    PROVE  Refilled(clock)' = Ideal!Capped(Refilled(clock) + Limit)
<1> DEFINE T == bucket.tokens
           w == clock - bucket.last
<1>1. /\ T \in 0 .. Full /\ bucket.last \in Nat /\ clock \in Nat /\ bucket.last <= clock
      /\ bucket.expires \in Nat
      /\ clock' = clock + 1 /\ UNCHANGED <<bucket, win>>
  BY RateAssumption DEF IInv, TypeOK, Tick
<1>2. Limit * w \in Nat /\ Refilled(clock) = Least(Full, T + Limit * w)
  BY CreditIsKept
<1>3. w \in Nat /\ Limit * (w + 1) = Limit * w + Limit
  BY <1>1, Constants, TimesSum
<1>4. Refilled(clock)' = IF bucket.expires <= clock + 1 THEN Full
                         ELSE Least(Full, T + Limit * Most(0, clock + 1 - bucket.last))
  BY <1>1 DEF Refilled, Gone
<1>5. Most(0, clock + 1 - bucket.last) = w + 1
  BY <1>1 DEF Most
<1> HIDE DEF T
<1>6. CASE bucket.expires <= clock + 1
  <2>1. T + Limit * w + Limit >= Full
    <3>1. CASE bucket.last = 0 /\ bucket.tokens = Full
      BY <1>1, <1>2, <3>1, Constants DEF T
    <3>2. CASE bucket.last + Ttl <= bucket.expires
      <4>1. Minute <= w + 1
        BY <1>1, <1>6, <3>2, Constants
      <4>2. Limit * Minute <= Limit * (w + 1)
        BY <1>3, <4>1, Constants, TimesMonotonic
      <4> QED
        BY <1>1, <1>2, <1>3, <4>2, Constants
    <3> QED
      BY <3>1, <3>2 DEF IInv
  <2> HIDE DEF w
  <2> QED
    BY <1>1, <1>2, <1>4, <1>6, <2>1, Constants DEF Ideal!Capped, Least
<1>7. CASE ~(bucket.expires <= clock + 1)
  <2>1. Refilled(clock)' = Least(Full, T + (Limit * w + Limit))
    BY <1>3, <1>4, <1>5, <1>7
  <2> HIDE DEF w
  <2> QED
    BY <1>1, <1>2, <2>1, Constants DEF Ideal!Capped, Least
<1> QED
  BY <1>6, <1>7

\* The calls in flight, by age.
LEMMA Ages ==
    ASSUME IInv, NEW r \in Requests
    PROVE  /\ clock \in Nat /\ req[r].now \in Nat /\ req[r].sent \in BOOLEAN
           /\ clock - req[r].now # Never \/ ~req[r].sent
           /\ req[r].sent => clock - req[r].now \in 0 .. Delay
BY RateAssumption, NeverAssumption DEF IInv, TypeOK, CallOK

\* A tick of the clock is one of the meter.
LEMMA TickMeters == ASSUME IInv, Tick PROVE Ideal!Tick
<1>1. /\ clock' = clock + 1 /\ UNCHANGED <<req, win>>
      /\ \A r \in Requests : req[r].sent => clock - req[r].now < Delay
  BY DEF Tick
<1> DEFINE age == [r \in Requests |-> IF req[r].sent THEN clock - req[r].now ELSE Never]
<1>2. \A r \in Requests : age[r] # Never => age[r] < Delay
  BY <1>1
<1>3. \A r \in Requests :
         (IF req[r].sent THEN clock - req[r].now ELSE Never)'
           = IF age[r] = Never THEN Never ELSE age[r] + 1
  BY <1>1, Ages
<1>4. age' = [r \in Requests |-> IF age[r] = Never THEN Never ELSE age[r] + 1]
  BY <1>1, <1>3
<1> QED
  BY <1>1, <1>2, <1>4, TickRefills DEF Ideal!Tick

\* A call that reads its clock has just been sent.
LEMMA ReadSends ==
    ASSUME IInv, NEW r \in Requests, Read(r)
    PROVE  Ideal!Send(r)
<1> DEFINE age == [q \in Requests |-> IF req[q].sent THEN clock - req[q].now ELSE Never]
<1>1. /\ ~req[r].sent /\ req' = [req EXCEPT ![r] = [sent |-> TRUE, now |-> clock]]
      /\ UNCHANGED <<clock, bucket, win>>
      /\ req \in [Requests -> [sent : BOOLEAN, now : 0 .. MaxTime]]
  BY DEF Read, IInv, TypeOK
<1>2. age' = [age EXCEPT ![r] = 0]
  <2>1. clock - clock = 0
    BY Ages
  <2> QED
    BY <1>1, <2>1
<1>3. Refilled(clock)' = Refilled(clock)
  BY <1>1 DEF Refilled, Gone
<1> QED
  BY <1>1, <1>2, <1>3 DEF Ideal!Send

\* A run of the script is the verdict of the meter about a call as old as the
\* time it was under way.
LEMMA EvalAnswers ==
    ASSUME IInv, NEW r \in Requests, Eval(r)
    PROVE  Ideal!Answer(r)
<1> DEFINE age == [q \in Requests |-> IF req[q].sent THEN clock - req[q].now ELSE Never]
           now == req[r].now
           tokens == Refilled(now)
           credit == Refilled(clock)
           gain == Limit * (clock - now)
           left == IF tokens >= Token THEN tokens - Token ELSE tokens
<1>1. /\ now \in Nat /\ clock \in Nat /\ clock - now \in 0 .. Delay /\ now <= clock
      /\ clock' = clock /\ win.count \in Nat
      /\ req[r].sent /\ req' = [req EXCEPT ![r].sent = FALSE]
      /\ req \in [Requests -> [sent : BOOLEAN, now : 0 .. MaxTime]]
  BY Ages DEF IInv, TypeOK, Eval
<1>2. /\ age[r] = clock - now /\ age[r] # Never /\ gain = Limit * age[r]
      /\ age' = [age EXCEPT ![r] = Never]
  <2>1. age[r] = clock - now /\ age[r] # Never
    BY <1>1, NeverAssumption
  <2>2. \A q \in Requests :
           (IF req[q].sent THEN clock - req[q].now ELSE Never)'
             = IF q = r THEN Never ELSE age[q]
    BY <1>1
  <2>3. age' = [q \in Requests |-> IF q = r THEN Never ELSE age[q]]
    BY <2>2
  <2> HIDE DEF age
  <2>4. age = [q \in Requests |-> age[q]]
    BY DEF age
  <2>5. age' = [age EXCEPT ![r] = Never]
    BY <2>3, <2>4
  <2> QED
    BY <2>1, <2>5
<1>3. /\ tokens \in 0 .. Full /\ credit \in 0 .. Full /\ gain \in Nat
      /\ tokens <= credit /\ credit <= tokens + gain
  BY <1>1, RefillGrows
<1>4. /\ bucket' = [tokens |-> left, last |-> now, expires |-> clock + Ttl]
      /\ win'.count = IF tokens >= Token THEN win.count + 1 ELSE win.count
  BY DEF Eval, Stamp, Expiry, IInv, TypeOK
<1> HIDE DEF age
<1>5. credit' = Least(Full, left + gain)
  <2>1. ~Gone'
    BY <1>1, <1>4, Constants DEF Gone
  <2>2. Most(0, clock - now) = clock - now
    BY <1>1 DEF Most
  <2> HIDE DEF left
  <2>3. bucket'.tokens = left /\ bucket'.last = now
    BY <1>4
  <2> QED
    BY <1>1, <2>1, <2>2, <2>3 DEF Refilled
<1> HIDE DEF tokens, gain
<1>6. left \in 0 .. Full
  BY <1>3, Constants
<1>7. CASE tokens >= Token
  <2>1. credit >= Token /\ win'.count = win.count + 1
    BY <1>3, <1>4, <1>7, Constants
  <2>2. credit' \in credit - Token .. Ideal!Capped(credit - Token + gain)
    BY <1>3, <1>5, <1>7, Constants DEF Ideal!Capped, Least
  <2>3. Ideal!Admit(r)
    BY <1>2, <2>1, <2>2 DEF Ideal!Admit, age
  <2> QED
    BY <1>2, <2>3 DEF Ideal!Answer, age
<1>8. CASE ~(tokens >= Token)
  <2>1. credit < Token + gain /\ win'.count = win.count
    BY <1>3, <1>4, <1>8, Constants
  <2>2. credit' \in credit .. Ideal!Capped(credit + gain)
    BY <1>3, <1>5, <1>8, Constants DEF Ideal!Capped, Least
  <2>3. Ideal!Refuse(r)
    BY <1>2, <2>1, <2>2 DEF Ideal!Refuse, age
  <2> QED
    BY <1>2, <2>3 DEF Ideal!Answer, age
<1> QED
  BY <1>7, <1>8

\* The bucket in Redis, refilled when it is asked, dated by its callers and
\* forgotten after Ttl, implements the meter that is refilled at every tick.
THEOREM KeepsMeterHolds == Spec => KeepsMeter
<1>1. Init => Ideal!Init
  <2> SUFFICES ASSUME Init
               PROVE  Ideal!Init
    OBVIOUS
  <2>1. Refilled(clock) = Full
    BY DEF Init, Refilled, Gone
  <2> QED
    BY <2>1 DEF Init, Ideal!Init
<1>2. IInv /\ [Next]_vars => [Ideal!Next]_(Ideal!vars)
  <2> SUFFICES ASSUME IInv, [Next]_vars
               PROVE  Ideal!Next \/ UNCHANGED Ideal!vars
    OBVIOUS
  <2>1. CASE Tick
    BY <2>1, TickMeters DEF Ideal!Next
  <2>2. CASE Watch
    <3>1. Refilled(clock)' = Refilled(clock) /\ win'.count = 0 /\ UNCHANGED <<clock, req>>
      BY <2>2 DEF Watch, Refilled, Gone
    <3> QED
      BY <3>1 DEF Ideal!Next, Ideal!Recount
  <2>3. ASSUME NEW r \in Requests, Read(r)
        PROVE  Ideal!Next
    BY <2>3, ReadSends DEF Ideal!Next
  <2>4. ASSUME NEW r \in Requests, Eval(r)
        PROVE  Ideal!Next
    BY <2>4, EvalAnswers DEF Ideal!Next
  <2>5. CASE UNCHANGED vars
    BY <2>5 DEF vars, Ideal!vars, Refilled, Gone
  <2> QED
    BY <2>1, <2>2, <2>3, <2>4, <2>5 DEF Next
<1> QED
  BY <1>1, <1>2, Invariance, PTL DEF Spec, KeepsMeter, Ideal!Spec
=============================================================================
