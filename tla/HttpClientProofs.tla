-------------------------- MODULE HttpClientProofs --------------------------
(* Theorems about RateLimiter under the calls of HttpClient, for any rate,  *)
(* burst, resolution of the clock, number of clients, servers and retries.  *)
EXTENDS HttpClient, SelectionProofs, FiniteSetTheorems, SequenceTheorems, TLAPS

\* What a bucket has granted since the mark, together with what it could grant at once, is
\* within the quota: the second summand is what makes the bound inductive.
WithinQuota ==
    mark # None =>
        /\ mark.at <= clock
        /\ (granted[mark.bucket] - mark.granted) * Token + Available(mark.bucket)
               <= Full + (clock - mark.at) * Rpm

QuotaInv == LimiterTypeOK /\ WithinQuota

-----------------------------------------------------------------------------
\* The product of two naturals is a natural, and grows with a factor.
LEMMA Products ==
    /\ \A m, n \in Nat : m * n \in Nat
    /\ \A m, n \in Int : (m + 1) * n = m * n + n /\ m * n \in Int /\ 0 * n = 0
OBVIOUS

LEMMA LesserGrows ==
    \A f, x \in Int, r \in Nat : /\ Lesser(f, x) \in Int /\ Lesser(f, x + r) \in Int
                                 /\ Lesser(f, x + r) <= Lesser(f, x) + r
BY DEF Lesser

LEMMA Constants ==
    /\ Token \in Nat \ {0} /\ Full \in Nat /\ Token <= Full
    /\ Rpm \in Nat \ {0} /\ MaxTime \in Nat /\ Watched \subseteq Buckets
    /\ None \notin Bucket /\ None \notin Mark
<1>1. Token \in Nat \ {0}
  BY LimiterAssumption DEF Token
<1>2. \A n \in Nat \ {0}, t \in Nat \ {0} : n * t \in Nat /\ t <= n * t
  OBVIOUS
<1>3. Full \in Nat /\ Token <= Full
  BY <1>1, <1>2, LimiterAssumption DEF Full
<1>4. Rpm \in Nat \ {0} /\ MaxTime \in Nat /\ Watched \subseteq Buckets
  BY LimiterAssumption DEF Buckets
<1>5. Bucket \subseteq [tokens: Nat, last: Nat]
  BY <1>3, <1>4 DEF Bucket
<1>6. Mark \subseteq [bucket: Servers \X Tenants \X Endpoints, at: Nat, granted: Nat]
  BY <1>4 DEF Mark, Buckets
<1>7. QED
  BY <1>1, <1>3, <1>4, <1>5, <1>6, LimiterAssumption

\* A bucket offers between nothing and its burst.
LEMMA AvailableBounds ==
    ASSUME LimiterTypeOK, NEW b \in Buckets
    PROVE  Available(b) \in 0 .. Full
<1>1. CASE buckets[b] = None
  BY <1>1, Constants DEF Available
<1>2. CASE buckets[b] # None
  <2>1. buckets[b] \in Bucket /\ buckets[b].last <= clock
    BY <1>2 DEF LimiterTypeOK
  <2>2. buckets[b].tokens \in Nat /\ clock - buckets[b].last \in Nat
    BY <2>1, Constants DEF Bucket, LimiterTypeOK
  <2>3. (clock - buckets[b].last) * Rpm \in Nat
    BY <2>2, Constants, Products
  <2>4. QED
    BY <1>2, <2>2, <2>3, Constants DEF Available, Lesser
<1>3. QED
  BY <1>1, <1>2

\* acquire keeps the quota: what it grants it takes out of the bucket.
LEMMA AcquireStep ==
    ASSUME QuotaInv, NEW b, Acquire(b)
    PROVE  QuotaInv'
<1> DEFINE price == IF Admits(b) THEN Token ELSE 0
           count == IF Admits(b) THEN 1 ELSE 0
           left == [tokens |-> Available(b) - price, last |-> clock]
<1>1. /\ buckets' = [buckets EXCEPT ![b] = left]
      /\ granted' = [granted EXCEPT ![b] = granted[b] + count]
      /\ clock' = clock /\ mark' = mark
  BY DEF Acquire
<1>2. CASE b \notin Buckets
  <2>1. buckets' = buckets /\ granted' = granted
    BY <1>1, <1>2 DEF QuotaInv, LimiterTypeOK
  <2>2. QED
    BY <1>1, <2>1 DEF QuotaInv, LimiterTypeOK, WithinQuota, Available
<1>3. CASE b \in Buckets
  <2>1. Available(b) \in 0 .. Full
    BY <1>3, AvailableBounds DEF QuotaInv
  <2>2. left \in Bucket /\ left.last = clock /\ left.tokens = Available(b) - price
    BY <2>1, Constants DEF Bucket, Admits, QuotaInv, LimiterTypeOK
  <2>3. left # None
    BY <2>2, Constants
  <2> HIDE DEF left
  <2>4. LimiterTypeOK'
    BY <1>1, <1>3, <2>2, Constants DEF QuotaInv, LimiterTypeOK
  <2>5. ASSUME mark # None
        PROVE  /\ mark.at <= clock
               /\ (granted'[mark.bucket] - mark.granted) * Token + (Available(mark.bucket))'
                      <= Full + (clock - mark.at) * Rpm
    <3>1. mark.bucket \in Buckets /\ mark.granted \in Nat /\ mark.at \in Int
      BY <2>5, Constants DEF QuotaInv, LimiterTypeOK, Mark
    <3>2. /\ mark.at <= clock
          /\ (granted[mark.bucket] - mark.granted) * Token + Available(mark.bucket)
                 <= Full + (clock - mark.at) * Rpm
      BY <2>5 DEF QuotaInv, WithinQuota
    <3>3. CASE mark.bucket # b
      <4>1. granted'[mark.bucket] = granted[mark.bucket] /\ buckets'[mark.bucket] = buckets[mark.bucket]
        BY <1>1, <3>1, <3>3 DEF QuotaInv, LimiterTypeOK
      <4>2. (Available(mark.bucket))' = Available(mark.bucket)
        BY <1>1, <4>1 DEF Available
      <4>3. QED
        BY <3>2, <4>1, <4>2
    <3>4. CASE mark.bucket = b
      <4>1. buckets'[b] = left /\ granted'[b] = granted[b] + count /\ granted[b] \in Nat
        BY <1>1, <1>3 DEF QuotaInv, LimiterTypeOK
      <4>2. (clock - clock) * Rpm = 0
        BY Constants, Products DEF QuotaInv, LimiterTypeOK
      <4>3. (Available(b))' = Lesser(Full, Available(b) - price)
        BY <1>1, <2>1, <2>2, <2>3, <4>1, <4>2, Constants DEF Available
      <4>4. (Available(b))' = Available(b) - price
        BY <2>1, <4>3, Constants DEF Lesser
      <4>5. (granted[b] + count - mark.granted) * Token
                = (granted[b] - mark.granted) * Token + price
        BY <3>1, <4>1, Constants, Products
      <4>6. (granted[b] - mark.granted) * Token \in Int
        BY <3>1, <4>1, Constants, Products
      <4>7. (granted[b] - mark.granted) * Token + Available(b) <= Full + (clock - mark.at) * Rpm
        BY <3>2, <3>4
      <4>8. granted'[b] - mark.granted = granted[b] + count - mark.granted
        BY <3>1, <4>1
      <4>9. (granted'[b] - mark.granted) * Token + (Available(b))'
                = (granted[b] - mark.granted) * Token + Available(b)
        <5>1. (granted'[b] - mark.granted) * Token = (granted[b] + count - mark.granted) * Token
          BY <4>8
        <5>2. (granted'[b] - mark.granted) * Token = (granted[b] - mark.granted) * Token + price
          BY <4>5, <5>1
        <5>3. price \in Int /\ Available(b) \in Int
          BY <2>1, Constants
        <5> HIDE DEF price
        <5>4. QED
          BY <4>4, <4>6, <5>2, <5>3
      <4>10. (granted'[b] - mark.granted) * Token + (Available(b))' <= Full + (clock - mark.at) * Rpm
        BY <4>7, <4>9
      <4>11. (Available(mark.bucket))' = (Available(b))'
        BY <1>1, <3>4 DEF Available
      <4>12. QED
        BY <3>2, <3>4, <4>10, <4>11
    <3>5. QED
      BY <3>3, <3>4
  <2>6. QED
    BY <1>1, <2>4, <2>5 DEF QuotaInv, WithinQuota
<1>4. QED
  BY <1>2, <1>3

LEMMA TickRefills ==
    ASSUME LimiterTypeOK, Tick, NEW b \in Buckets
    PROVE  (Available(b))' <= Available(b) + Rpm /\ (Available(b))' \in Int /\ Available(b) \in Int
<1>1. clock' = clock + 1 /\ buckets' = buckets /\ clock \in Int
  BY Constants DEF Tick, LimiterTypeOK
<1>2. CASE buckets[b] = None
  BY <1>1, <1>2, Constants DEF Available
<1>3. CASE buckets[b] # None
  <2> DEFINE units == buckets[b].tokens + (clock - buckets[b].last) * Rpm
  <2>1. buckets[b].tokens \in Int /\ buckets[b].last \in Int
    BY <1>3, Constants DEF LimiterTypeOK, Bucket
  <2>2. (clock + 1 - buckets[b].last) * Rpm = (clock - buckets[b].last) * Rpm + Rpm
    <3>1. clock + 1 - buckets[b].last = (clock - buckets[b].last) + 1
      BY <1>1, <2>1
    <3>2. QED
      BY <1>1, <2>1, <3>1, Constants, Products
  <2>3. (clock - buckets[b].last) * Rpm \in Int
    BY <1>1, <2>1, Constants, Products
  <2>4. units \in Int /\ Available(b) = Lesser(Full, units)
    BY <1>3, <2>1, <2>3 DEF Available
  <2>5. (Available(b))' = Lesser(Full, buckets'[b].tokens + (clock' - buckets'[b].last) * Rpm)
    BY <1>1, <1>3 DEF Available
  <2>6. (Available(b))' = Lesser(Full, units + Rpm)
    <3>1. clock' - buckets'[b].last = clock + 1 - buckets[b].last
      BY <1>1, <2>1
    <3>2. (clock' - buckets'[b].last) * Rpm = (clock + 1 - buckets[b].last) * Rpm
      BY <3>1
    <3>3. buckets'[b].tokens = buckets[b].tokens
      BY <1>1
    <3>4. buckets'[b].tokens + (clock' - buckets'[b].last) * Rpm = units + Rpm
      BY <2>1, <2>2, <2>3, <3>2, <3>3, Constants
    <3>5. QED
      BY <2>5, <3>4
  <2> HIDE DEF units
  <2>7. QED
    BY <2>4, <2>6, Constants, LesserGrows
<1>4. QED
  BY <1>2, <1>3

\* A tick refills every bucket by Rpm units at most, and allows for as many.
LEMMA TickStep ==
    ASSUME QuotaInv, Tick
    PROVE  QuotaInv'
<1>1. clock' = clock + 1 /\ clock < MaxTime /\ buckets' = buckets /\ granted' = granted /\ mark' = mark
  BY DEF Tick
<1>2. LimiterTypeOK'
  <2>1. clock' \in 0 .. MaxTime
    BY <1>1, Constants DEF QuotaInv, LimiterTypeOK
  <2>2. ASSUME NEW x \in Buckets, buckets[x] # None
        PROVE  buckets[x].last <= clock'
    <3>1. buckets[x].last \in Int /\ buckets[x].last <= clock /\ clock \in Int
      BY <2>2, Constants DEF QuotaInv, LimiterTypeOK, Bucket
    <3>2. QED
      BY <1>1, <3>1
  <2>3. QED
    BY <1>1, <2>1, <2>2 DEF QuotaInv, LimiterTypeOK
<1>3. ASSUME mark # None
      PROVE  /\ mark.at <= clock'
             /\ (granted[mark.bucket] - mark.granted) * Token + (Available(mark.bucket))'
                    <= Full + (clock' - mark.at) * Rpm
  <2> DEFINE b == mark.bucket
             g == (granted[b] - mark.granted) * Token
  <2>1. b \in Buckets /\ mark.granted \in Nat /\ mark.at \in Int /\ clock \in Int /\ granted[b] \in Nat
    BY <1>3, Constants DEF QuotaInv, LimiterTypeOK, Mark
  <2>2. mark.at <= clock /\ g + Available(b) <= Full + (clock - mark.at) * Rpm
    BY <1>3 DEF QuotaInv, WithinQuota
  <2>3. (Available(b))' <= Available(b) + Rpm /\ (Available(b))' \in Int /\ Available(b) \in Int
    <3>1. PICK x \in Buckets : x = b
      BY <2>1
    <3>2. (Available(x))' <= Available(x) + Rpm /\ (Available(x))' \in Int /\ Available(x) \in Int
      BY TickRefills DEF QuotaInv
    <3>3. (Available(b))' = (Available(x))'
      BY <1>1, <3>1 DEF Available
    <3>4. QED
      BY <3>1, <3>2, <3>3
  <2>4. (clock + 1 - mark.at) * Rpm = (clock - mark.at) * Rpm + Rpm
    <3>1. clock + 1 - mark.at = (clock - mark.at) + 1
      BY <2>1
    <3>2. QED
      BY <2>1, <3>1, Constants, Products
  <2>5. (clock - mark.at) * Rpm \in Int /\ g \in Int
    BY <2>1, Constants, Products
  <2>6. QED
    BY <1>1, <2>1, <2>2, <2>3, <2>4, <2>5, Constants
<1>4. QED
  BY <1>1, <1>2, <1>3 DEF QuotaInv, WithinQuota

\* A window opens with what the bucket holds, its burst at most.
LEMMA MarkStep ==
    ASSUME QuotaInv, MarkWindow
    PROVE  QuotaInv'
<1>1. PICK b \in Watched : mark' = [bucket |-> b, at |-> clock, granted |-> granted[b]]
  BY DEF MarkWindow
<1>2. clock' = clock /\ buckets' = buckets /\ granted' = granted
  BY DEF MarkWindow
<1>3. b \in Buckets
  BY <1>1, Constants
<1>4. granted[b] \in Nat /\ clock \in 0 .. MaxTime
  BY <1>3 DEF QuotaInv, LimiterTypeOK
<1>5. LimiterTypeOK'
  BY <1>1, <1>2, <1>3, <1>4 DEF QuotaInv, LimiterTypeOK, Mark
<1>6. (granted[b] - granted[b]) * Token = 0 /\ (clock - clock) * Rpm = 0
  BY <1>4, Constants, Products
<1>7. Available(b) \in 0 .. Full /\ (Available(b))' = Available(b)
  BY <1>2, <1>3, AvailableBounds DEF QuotaInv, Available
<1>8. WithinQuota'
  BY <1>1, <1>2, <1>4, <1>6, <1>7, Constants DEF WithinQuota
<1>9. QED
  BY <1>5, <1>8 DEF QuotaInv

LEMMA IdleStep ==
    ASSUME QuotaInv, UNCHANGED limiterVars
    PROVE  QuotaInv'
BY DEF QuotaInv, LimiterTypeOK, WithinQuota, Available, limiterVars

\* Of all steps of clients and servers, only a request that reaches a handler, the clock and
\* the history touch the limiter.
LEMMA QuotaStep == QuotaInv /\ [Next]_vars => QuotaInv'
<1> SUFFICES ASSUME QuotaInv, [Next]_vars
             PROVE  QuotaInv'
  OBVIOUS
<1>1. ASSUME NEW c \in Clients, Refused(c) \/ Served(c)
      PROVE  QuotaInv'
  BY <1>1, AcquireStep DEF Refused, Served
<1>2. ASSUME NEW c \in Clients,
             Post(c) \/ GiveUp(c) \/ EnsureContract(c) \/ Wake(c) \/ Unreached(c)
      PROVE  UNCHANGED limiterVars
  BY <1>2 DEF Post, GiveUp, EnsureContract, Wake, Unreached
<1>3. ASSUME NEW s \in Servers, Deploy(s)
      PROVE  UNCHANGED limiterVars
  BY <1>3 DEF Deploy
<1>4. CASE UNCHANGED vars
  BY <1>4, IdleStep DEF vars
<1>5. QED
  BY <1>1, <1>2, <1>3, <1>4, IdleStep, TickStep, MarkStep DEF Next

LEMMA QuotaStart == Init => QuotaInv
<1> SUFFICES ASSUME LimiterInit
             PROVE  QuotaInv
  BY DEF Init
<1>1. LimiterTypeOK
  BY Constants DEF LimiterInit, LimiterTypeOK
<1>2. QED
  BY <1>1 DEF LimiterInit, QuotaInv, WithinQuota

LEMMA QuotaFollows == QuotaInv => QuotaHolds
<1> SUFFICES ASSUME QuotaInv, mark # None
             PROVE  (granted[mark.bucket] - mark.granted) * Token <= Full + (clock - mark.at) * Rpm
  BY DEF QuotaHolds
<1>1. mark.bucket \in Buckets /\ mark.granted \in Nat /\ mark.at \in Int /\ clock \in Int
      /\ granted[mark.bucket] \in Nat
  BY Constants DEF QuotaInv, LimiterTypeOK, Mark
<1>2. Available(mark.bucket) \in 0 .. Full
  BY <1>1, AvailableBounds DEF QuotaInv
<1>3. (granted[mark.bucket] - mark.granted) * Token \in Int /\ (clock - mark.at) * Rpm \in Int
  BY <1>1, Constants, Products
<1>4. QED
  BY <1>2, <1>3, Constants DEF QuotaInv, WithinQuota

\* Whatever clients do, in whatever window of time, a bucket never grants more than its burst
\* and the refill of that window (RateLimiter.acquire).
THEOREM QuotaIsKept == Spec => []QuotaHolds
<1>1. Spec => []QuotaInv
  BY QuotaStart, QuotaStep, PTL DEF Spec
<1>2. QED
  BY <1>1, QuotaFollows, PTL

\* The wait that _enforce_rate_limit announces, even cut off at 60 seconds as by _post,
\* refills what is missing for a token, however slow the rate.
THEOREM RetrySuffices ==
    ASSUME NEW b, Available(b) \in 0 .. Full, ~Admits(b)
    PROVE  /\ RetryAfter(b) \in Nat \ {0}
           /\ Available(b) + Lesser(RetryAfter(b), 60) * TicksPerSecond * Rpm >= Token
<1> DEFINE deficit == Token - Available(b)
           second == Rpm * TicksPerSecond
           wait == Lesser(RetryAfter(b), 60)
<1>1. deficit \in Nat \ {0} /\ deficit <= Token /\ Available(b) \in Nat
  BY Constants DEF Admits
<1>2. Rpm \in Nat \ {0} /\ TicksPerSecond \in Nat \ {0} /\ Token = 60 * TicksPerSecond
  BY LimiterAssumption DEF Token
<1>3. second \in Nat \ {0} /\ TicksPerSecond <= second
  <2>1. \A m, n \in Nat \ {0} : m * n \in Nat \ {0} /\ n <= m * n
    OBVIOUS
  <2>2. QED
    BY <1>2, <2>1
<1> HIDE DEF second
<1>4. \A n \in Nat, m \in Nat \ {0} : n \div m \in Nat /\ n < ((n \div m) + 1) * m
  OBVIOUS
<1>5. /\ (deficit \div second) \in Nat
      /\ deficit < ((deficit \div second) + 1) * second
  BY <1>1, <1>3, <1>4
<1>6. RetryAfter(b) = (deficit \div second) + 1
  BY DEF RetryAfter, second
<1>7. RetryAfter(b) \in Nat \ {0} /\ deficit <= RetryAfter(b) * second
  <2>1. RetryAfter(b) * second = ((deficit \div second) + 1) * second
    BY <1>6
  <2>2. \A m, n \in Nat : m * n \in Nat
    OBVIOUS
  <2>3. QED
    BY <1>1, <1>3, <1>5, <1>6, <2>1, <2>2
<1>8. deficit <= 60 * second
  BY <1>1, <1>2, <1>3
<1>9. wait \in Nat /\ deficit <= wait * second
  BY <1>7, <1>8 DEF Lesser
<1>10. wait * TicksPerSecond * Rpm = wait * second
  <2>1. \A x, y, z \in Nat : x * y * z = x * (z * y)
    OBVIOUS
  <2>2. QED
    BY <1>2, <1>9, <2>1 DEF second
<1>11. wait * second \in Int
  BY <1>3, <1>9, Products
<1>12. QED
  BY <1>1, <1>7, <1>9, <1>10, <1>11, Constants

-----------------------------------------------------------------------------
(* The order in which the targets of the pool are tried.                   *)

LEMMA RotatedHasSame ==
    ASSUME NEW S, NEW s \in Seq(S), NEW d \in Nat
    PROVE  Rotated(s, d) \in Seq(S) /\ ToSet(Rotated(s, d)) = ToSet(s)
<1> DEFINE offset == IF s = <<>> THEN 0 ELSE d % Len(s)
           left == SubSeq(s, offset + 1, Len(s))
           right == SubSeq(s, 1, offset)
<1>1. offset \in Nat /\ offset <= Len(s) /\ Len(s) \in Nat
  <2>1. s # <<>> => Len(s) \in Nat \ {0}
    OBVIOUS
  <2>2. \A n \in Nat \ {0} : d % n \in Nat /\ d % n <= n
    OBVIOUS
  <2> QED
    BY <2>1, <2>2
<1> HIDE DEF offset
<1>2. /\ left \in Seq(S) /\ Len(left) = Len(s) - offset
      /\ \A i \in 1 .. Len(s) - offset : left[i] = s[offset + i]
  BY <1>1
<1>3. /\ right \in Seq(S) /\ Len(right) = offset
      /\ \A i \in 1 .. offset : right[i] = s[i]
  BY <1>1
<1> HIDE DEF left, right
<1>4. Rotated(s, d) = left \o right
  BY DEF Rotated, left, right, offset
<1> DEFINE n == Len(s)
<1>5. /\ left \o right \in Seq(S) /\ Len(left \o right) = n
      /\ \A i \in 1 .. n - offset : (left \o right)[i] = s[offset + i]
      /\ \A i \in n - offset + 1 .. n : (left \o right)[i] = s[i - (n - offset)]
  <2>1. /\ left \o right \in Seq(S) /\ Len(left \o right) = Len(left) + Len(right)
        /\ \A i \in 1 .. Len(left) + Len(right) :
             (left \o right)[i] = IF i <= Len(left) THEN left[i] ELSE right[i - Len(left)]
    BY <1>2, <1>3, ConcatProperties
  <2>2. Len(left) + Len(right) = n /\ Len(left) = n - offset
    BY <1>1, <1>2, <1>3
  <2>3. \A i \in n - offset + 1 .. n : i - (n - offset) \in 1 .. offset /\ ~(i <= n - offset)
                                       /\ i \in 1 .. n
    BY <1>1
  <2>4. \A i \in 1 .. n - offset : i <= n - offset /\ i \in 1 .. n
    BY <1>1
  <2> HIDE DEF n
  <2>5. \A i \in 1 .. n - offset : (left \o right)[i] = s[offset + i]
    BY <1>2, <2>1, <2>2, <2>4
  <2>6. \A i \in n - offset + 1 .. n : (left \o right)[i] = s[i - (n - offset)]
    BY <1>3, <2>1, <2>2, <2>3
  <2> QED
    BY <2>1, <2>2, <2>5, <2>6
<1>6. \A i \in 1 .. n : \E m \in 1 .. n : (left \o right)[m] = s[i]
  <2> SUFFICES ASSUME NEW i \in 1 .. n PROVE \E m \in 1 .. n : (left \o right)[m] = s[i]
    OBVIOUS
  <2>1. CASE i <= offset
    <3> DEFINE m == i + (n - offset)
    <3>1. m \in n - offset + 1 .. n /\ m - (n - offset) = i /\ m \in 1 .. n
      BY <1>1, <2>1
    <3> HIDE DEF m, n
    <3>2. \A x \in n - offset + 1 .. n : (left \o right)[x] = s[x - (n - offset)]
      BY <1>5
    <3>3. (left \o right)[m] = s[m - (n - offset)]
      BY <3>1, <3>2
    <3> QED
      BY <3>1, <3>3
  <2>2. CASE ~(i <= offset)
    <3>1. i - offset \in 1 .. n - offset /\ offset + (i - offset) = i /\ i - offset \in 1 .. n
      BY <1>1, <2>2
    <3> QED
      BY <1>5, <3>1
  <2> QED
    BY <2>1, <2>2
<1>7. \A m \in 1 .. n : \E i \in 1 .. n : s[i] = (left \o right)[m]
  <2> SUFFICES ASSUME NEW m \in 1 .. n PROVE \E i \in 1 .. n : s[i] = (left \o right)[m]
    OBVIOUS
  <2>1. \/ m \in 1 .. n - offset /\ offset + m \in 1 .. n
        \/ m \in n - offset + 1 .. n /\ m - (n - offset) \in 1 .. n
    BY <1>1
  <2> QED
    BY <1>5, <2>1
<1>8. ToSet(left \o right) = ToSet(s)
  <2> DEFINE both == left \o right
  <2> HIDE DEF both, n
  <2>0. both \in Seq(S) /\ Len(both) = n
    BY <1>5 DEF both
  <2>1. DOMAIN both = 1 .. n /\ DOMAIN s = 1 .. n
    BY <2>0 DEF n
  <2>2. DOMAIN both = 1 .. n /\ (\A x \in 1 .. n : \E m \in 1 .. n : both[m] = s[x])
        /\ (\A m \in 1 .. n : \E x \in 1 .. n : s[x] = both[m])
    BY <1>6, <1>7, <2>1 DEF both
  <2>3. ToSet(both) \subseteq ToSet(s) /\ ToSet(s) \subseteq ToSet(both)
    <3>1. ToSet(both) = {both[m] : m \in 1 .. n} /\ ToSet(s) = {s[m] : m \in 1 .. n}
      BY <2>1 DEF ToSet
    <3> QED
      BY <2>2, <3>1
  <2> QED
    BY <2>3 DEF both
<1> QED
  BY <1>4, <1>5, <1>8

LEMMA JoinedHasBoth ==
    ASSUME NEW S, NEW s \in Seq(S), NEW t \in Seq(S)
    PROVE  s \o t \in Seq(S) /\ ToSet(s \o t) = ToSet(s) \cup ToSet(t)
<1> DEFINE both == s \o t
<1>1. /\ both \in Seq(S) /\ Len(both) = Len(s) + Len(t)
      /\ \A i \in 1 .. Len(s) + Len(t) : both[i] = IF i <= Len(s) THEN s[i] ELSE t[i - Len(s)]
  BY ConcatProperties
<1> HIDE DEF both
<1>2. /\ DOMAIN s = 1 .. Len(s) /\ DOMAIN t = 1 .. Len(t) /\ Len(s) \in Nat /\ Len(t) \in Nat
      /\ DOMAIN both = 1 .. Len(s) + Len(t)
  BY <1>1
<1>3. ASSUME NEW i \in DOMAIN s PROVE both[i] = s[i] /\ i \in DOMAIN both
  BY <1>1, <1>2
<1>4. ASSUME NEW i \in DOMAIN t PROVE \E m \in DOMAIN both : both[m] = t[i]
  <2>1. Len(s) + i \in 1 .. Len(s) + Len(t) /\ ~(Len(s) + i <= Len(s)) /\ Len(s) + i - Len(s) = i
    BY <1>2
  <2> QED
    BY <1>1, <1>2, <2>1
<1>5. ASSUME NEW m \in DOMAIN both PROVE both[m] \in ToSet(s) \cup ToSet(t)
  <2>1. m \in DOMAIN s \/ (~(m <= Len(s)) /\ m - Len(s) \in DOMAIN t)
    BY <1>2
  <2>2. m \in DOMAIN s => m <= Len(s)
    BY <1>2
  <2> QED
    BY <1>1, <1>2, <2>1, <2>2 DEF ToSet
<1>6. ToSet(both) = ToSet(s) \cup ToSet(t)
  BY <1>3, <1>4, <1>5 DEF ToSet
<1> QED
  BY <1>1, <1>6 DEF both

\* Every target is a server, and a client with failover has every server for a target.
LEMMA TargetsOfPool ==
    ASSUME NEW g \in Configs
    PROVE  /\ OrderedTargets(g) \in Seq(Servers)
           /\ g.mode \in {"failover", "hybrid"} => ToSet(OrderedTargets(g)) = Servers
<1> DEFINE ofPlant == {i \in DOMAIN Pool : g.plant # None /\ Pool[i] = g.plant}
           all == [i \in DOMAIN Pool |-> i]
           same == Those(all, ofPlant)
           first == IF same = <<>> THEN <<1>> ELSE same
           rest == IF same = <<>> THEN all ELSE Those(all, DOMAIN Pool \ ofPlant)
           primary == Rotated(first, g.digest)
           secondary == Rotated(rest, g.digest)
           others == Those(secondary, Servers \ ToSet(primary))
<1>1. /\ Len(Pool) \in Nat \ {0} /\ DOMAIN Pool = 1 .. Len(Pool) /\ Servers = DOMAIN Pool
      /\ g.digest \in Nat /\ g.mode \in Modes
  BY ClientAssumption DEF ClientAssumption
<1>2. 1 \in Servers
  BY <1>1
<1>3. all \in Seq(Servers) /\ ToSet(all) = Servers
  <2>1. all \in [1 .. Len(Pool) -> Servers]
    BY <1>1
  <2>2. Len(Pool) \in Nat
    BY <1>1
  <2>3. all \in Seq(Servers)
    BY <2>1, <2>2, SeqDef
  <2>4. ToSet(all) = {all[i] : i \in DOMAIN Pool}
    BY DEF ToSet
  <2> QED
    BY <1>1, <2>3, <2>4
<1> HIDE DEF all
<1>4. same \in Seq(Servers) /\ ToSet(same) = Servers \cap ofPlant
  BY <1>3, ThoseAreInOrder
<1>5. Those(all, DOMAIN Pool \ ofPlant) \in Seq(Servers)
      /\ ToSet(Those(all, DOMAIN Pool \ ofPlant)) = Servers \cap (DOMAIN Pool \ ofPlant)
  BY <1>3, ThoseAreInOrder
<1>6. <<1>> \in Seq(Servers) /\ ToSet(<<>>) = {}
  BY <1>2 DEF ToSet
<1> HIDE DEF same
<1>7. /\ first \in Seq(Servers) /\ rest \in Seq(Servers)
      /\ ToSet(first) \cup ToSet(rest) = Servers
  <2>1. CASE same = <<>>
    <3>1. first = <<1>> /\ rest = all /\ ToSet(<<1>>) = {1}
      BY <2>1 DEF ToSet
    <3> HIDE DEF first, rest
    <3> QED
      BY <1>2, <1>3, <1>6, <3>1
  <2>2. CASE same # <<>>
    <3>1. first = same /\ rest = Those(all, DOMAIN Pool \ ofPlant)
      BY <2>2
    <3> HIDE DEF first, rest
    <3> QED
      BY <1>1, <1>4, <1>5, <3>1
  <2> QED
    BY <2>1, <2>2
<1> HIDE DEF first, rest
<1>8. /\ primary \in Seq(Servers) /\ ToSet(primary) = ToSet(first)
      /\ secondary \in Seq(Servers) /\ ToSet(secondary) = ToSet(rest)
  BY <1>1, <1>7, RotatedHasSame
<1> HIDE DEF primary, secondary
<1>9. others \in Seq(Servers) /\ ToSet(others) = ToSet(secondary) \cap (Servers \ ToSet(primary))
  BY <1>8, ThoseAreInOrder
<1> HIDE DEF others
<1>10. OrderedTargets(g) = CASE g.mode = "single" -> <<1>>
                             [] g.mode = "plant" -> primary
                             [] g.mode = "failover" -> primary \o secondary
                             [] OTHER -> primary \o others
  BY DEF OrderedTargets, primary, secondary, others, first, rest, same, all
<1>11. /\ primary \o secondary \in Seq(Servers)
       /\ ToSet(primary \o secondary) = ToSet(primary) \cup ToSet(secondary)
       /\ primary \o others \in Seq(Servers)
       /\ ToSet(primary \o others) = ToSet(primary) \cup ToSet(others)
  BY <1>8, <1>9, JoinedHasBoth
<1>12. CASE g.mode = "single"
  BY <1>6, <1>10, <1>12
<1>13. CASE g.mode = "plant"
  BY <1>8, <1>10, <1>13
<1>14. CASE g.mode = "failover"
  <2>1. OrderedTargets(g) = primary \o secondary
    BY <1>10, <1>14
  <2> QED
    BY <1>7, <1>8, <1>11, <1>14, <2>1
<1>15. CASE g.mode = "hybrid"
  <2>1. OrderedTargets(g) = primary \o others
    BY <1>10, <1>15
  <2>2. ToSet(primary) \cup ToSet(others) = Servers
    BY <1>7, <1>8, <1>9
  <2> QED
    BY <1>8, <1>9, <1>11, <1>15, <2>1, <2>2
<1> QED
  BY <1>1, <1>12, <1>13, <1>14, <1>15 DEF Modes

-----------------------------------------------------------------------------
(* The calls.                                                              *)

\* A call of _post under configuration g, after what it knows of contracts, how often it has
\* tried each server and which ones it has skipped: where it stands in its order of targets,
\* that it sends only to a target it may send to, and that it leaves none behind untried.
Checked(q, g, known) ==
    q.pc \in {"send", "sleep", "done", "rejected"} /\ g.picky =>
        known[OrderedTargets(g)[q.at]] = "good"

LeavesNone(q, g, times, passed) ==
    LET order == OrderedTargets(g)
    IN  q.pc \in {"contract", "send", "sleep", "failed"} =>
            /\ \A n \in 1 .. Len(order) : n < q.at =>
                  order[n] \in passed \/ times[order[n]] > MaxRetries
            /\ q.pc = "failed" => q.at > Len(order)
            /\ q.pc = "contract" => q.attempt = 0
            /\ q.pc = "send" => times[order[q.at]] >= q.attempt
            /\ q.pc = "sleep" => times[order[q.at]] > q.attempt

CallInv(q, g, known, times, passed) ==
    /\ q \in Call /\ q.at # 0
    /\ q.pc \notin Ended => q.endpoint \in Endpoints
    /\ q.pc \in {"send", "sleep"} => q.at <= Len(OrderedTargets(g))
    /\ Checked(q, g, known) /\ LeavesNone(q, g, times, passed)

CallTypes ==
    /\ config \in [Clients -> Configs] /\ client \in [Clients -> Call]
    /\ deployed \in [Servers -> Contracts]
    /\ contracts \in [Clients -> [Servers -> Contracts \cup {None}]]
    /\ tried \in [Clients -> [Servers -> Nat]] /\ skipped \in [Clients -> SUBSET Servers]

CallsInv ==
    /\ CallTypes
    /\ \A c \in Clients : CallInv(client[c], config[c], contracts[c], tried[c], skipped[c])

LEMMA OthersGoOn ==
    ASSUME CallsInv, CallTypes', UNCHANGED config, NEW c \in Clients,
           \A d \in Clients : d # c => /\ client'[d] = client[d] /\ contracts'[d] = contracts[d]
                                       /\ tried'[d] = tried[d] /\ skipped'[d] = skipped[d],
           CallInv(client'[c], config[c], contracts'[c], tried'[c], skipped'[c])
    PROVE  CallsInv'
<1> SUFFICES ASSUME NEW d \in Clients
             PROVE  CallInv(client'[d], config'[d], contracts'[d], tried'[d], skipped'[d])
  BY DEF CallsInv
<1>1. CASE d = c
  BY <1>1
<1>2. CASE d # c
  BY <1>2 DEF CallsInv
<1> QED
  BY <1>1, <1>2

\* A call in which a target is at hand.
LEMMA TargetAtHand ==
    ASSUME CallsInv, NEW c \in Clients, client[c].at <= Len(Order(c))
    PROVE  /\ Target(c) \in Servers /\ client[c].at \in 1 .. Len(Order(c))
           /\ Target(c) = OrderedTargets(config[c])[client[c].at]
           /\ Len(OrderedTargets(config[c])) \in Nat
<1>1. config[c] \in Configs /\ client[c].at \in Nat \ {0}
  BY DEF CallsInv, CallTypes, CallInv, Call
<1>2. Order(c) \in Seq(Servers) /\ Order(c) = OrderedTargets(config[c])
  BY <1>1, TargetsOfPool DEF Order
<1>3. Len(Order(c)) \in Nat /\ \A i \in 1 .. Len(Order(c)) : Order(c)[i] \in Servers
  BY <1>2
<1> QED
  BY <1>1, <1>2, <1>3 DEF Target

LEMMA FirstAttempt == MaxRetries \in Nat /\ 0 \in 0 .. MaxRetries
<1>1. MaxRetries \in Nat
  BY ClientAssumption DEF ClientAssumption
<1> QED
  BY <1>1

LEMMA PostKeeps == ASSUME CallsInv, NEW c \in Clients, Post(c) PROVE CallsInv'
<1>1. PICK e \in Endpoints :
        client' = [client EXCEPT ![c] = [AtRest EXCEPT !.pc = "contract", !.endpoint = e]]
  BY DEF Post, Goes
<1> DEFINE q == [AtRest EXCEPT !.pc = "contract", !.endpoint = e]
<1>2. q \in Call /\ q.pc = "contract" /\ q.endpoint = e /\ q.at = 1 /\ q.attempt = 0
  <2>1. AtRest \in Call /\ AtRest.at = 1 /\ AtRest.attempt = 0
    BY FirstAttempt DEF AtRest, Call, Ended
  <2>2. q \in Call
    BY <2>1 DEF Call
  <2> QED
    BY <2>1, <2>2 DEF Call
<1> HIDE DEF q
<1>3. client' = [client EXCEPT ![c] = q]
  BY <1>1 DEF q
<1>4. /\ tried' = [tried EXCEPT ![c] = [s \in Servers |-> 0]]
      /\ skipped' = [skipped EXCEPT ![c] = {}] /\ UNCHANGED <<config, contracts, deployed>>
  BY DEF Post
<1>5. CallTypes' /\ client'[c] = q
      /\ \A d \in Clients : d # c => /\ client'[d] = client[d] /\ contracts'[d] = contracts[d]
                                     /\ tried'[d] = tried[d] /\ skipped'[d] = skipped[d]
  BY <1>2, <1>3, <1>4 DEF CallsInv, CallTypes
<1>6. \A n \in 1 .. Len(OrderedTargets(config[c])) : ~(n < 1)
  OBVIOUS
<1>7. CallInv(q, config[c], contracts'[c], tried'[c], skipped'[c])
  BY <1>2, <1>6 DEF CallInv, Checked, LeavesNone
<1> QED
  BY <1>4, <1>5, <1>7, OthersGoOn

LEMMA GiveUpKeeps == ASSUME CallsInv, NEW c \in Clients, GiveUp(c) PROVE CallsInv'
<1> DEFINE j == client[c]
           q == [j EXCEPT !.pc = "failed"]
<1>1. j \in Call /\ j.pc = "contract" /\ j.at > Len(OrderedTargets(config[c]))
      /\ CallInv(j, config[c], contracts[c], tried[c], skipped[c])
  BY DEF CallsInv, CallInv, GiveUp, Order
<1>2. q \in Call /\ q.pc = "failed" /\ q.at = j.at
  BY <1>1 DEF Call, Ended
<1>3. /\ client' = [client EXCEPT ![c] = q]
      /\ UNCHANGED <<config, contracts, deployed, tried, skipped>>
  BY DEF GiveUp, Ends, Goes
<1> HIDE DEF q
<1>4. CallTypes' /\ client'[c] = q /\ \A d \in Clients : d # c => client'[d] = client[d]
  BY <1>2, <1>3 DEF CallsInv, CallTypes
<1>5. CallInv(q, config[c], contracts[c], tried[c], skipped[c])
  BY <1>1, <1>2 DEF CallInv, Checked, LeavesNone, Ended
<1> QED
  BY <1>3, <1>4, <1>5, OthersGoOn

\* What NextTarget makes of a call, once its target may be left behind.
LEMMA NextTargetKeeps ==
    ASSUME CallsInv, NEW c \in Clients, client[c].pc \in {"contract", "sleep"}, NextTarget(c),
           client[c].at <= Len(Order(c)), UNCHANGED <<config, tried>>,
           deployed' \in [Servers -> Contracts],
           contracts' \in [Clients -> [Servers -> Contracts \cup {None}]],
           skipped' \in [Clients -> SUBSET Servers],
           \A d \in Clients : d # c => contracts'[d] = contracts[d] /\ skipped'[d] = skipped[d],
           skipped[c] \subseteq skipped'[c],
           Target(c) \in skipped'[c] \/ tried[c][Target(c)] > MaxRetries
    PROVE  CallsInv'
<1> DEFINE j == client[c]
           order == OrderedTargets(config[c])
           q == [j EXCEPT !.pc = "contract", !.at = j.at + 1, !.attempt = 0, !.wake = 0,
                          !.told = FALSE]
<1>1. j \in Call /\ CallInv(j, config[c], contracts[c], tried[c], skipped[c])
      /\ j.endpoint \in Endpoints
  BY DEF CallsInv, CallInv, Ended
<1>2. q \in Call /\ q.pc = "contract" /\ q.at = j.at + 1 /\ q.attempt = 0
      /\ q.endpoint = j.endpoint
  <2> HIDE DEF j
  <2>1. j.at + 1 \in Nat
    BY <1>1 DEF Call
  <2>2. q \in Call
    BY <1>1, <2>1, FirstAttempt DEF Call
  <2> QED
    BY <1>1, <2>2 DEF Call
<1>3. client' = [client EXCEPT ![c] = q]
  BY DEF NextTarget, Goes
<1> HIDE DEF q
<1>4. client' \in [Clients -> Call] /\ client'[c] = q
      /\ \A d \in Clients : d # c => client'[d] = client[d]
  BY <1>2, <1>3 DEF CallsInv, CallTypes
<1>5. j.at \in 1 .. Len(order) /\ Len(order) \in Nat /\ Target(c) = order[j.at]
  BY TargetAtHand DEF Order
<1> HIDE DEF j, order
<1>6. \A n \in 1 .. Len(order) : n < j.at + 1 => n < j.at \/ n = j.at
  BY <1>5
<1>7. \A n \in 1 .. Len(order) : n < q.at => order[n] \in skipped'[c] \/ tried[c][order[n]] > MaxRetries
  <2>1. \A n \in 1 .. Len(order) : n < j.at => order[n] \in skipped[c] \/ tried[c][order[n]] > MaxRetries
    BY <1>1 DEF CallInv, LeavesNone, j, order
  <2> QED
    BY <1>2, <1>5, <1>6, <2>1
<1>8. CallInv(q, config[c], contracts'[c], tried'[c], skipped'[c])
  BY <1>1, <1>2, <1>5, <1>7 DEF CallInv, Checked, LeavesNone, order
<1> QED
  <2>1. CallTypes'
    BY <1>4 DEF CallsInv, CallTypes
  <2> QED
    BY <1>4, <1>8, <2>1, OthersGoOn

LEMMA EnsureContractKeeps == ASSUME CallsInv, NEW c \in Clients, EnsureContract(c) PROVE CallsInv'
<1> DEFINE j == client[c]
           g == config[c]
           t == Target(c)
<1>1. j \in Call /\ j.pc = "contract" /\ j.at <= Len(Order(c)) /\ j.endpoint \in Endpoints
      /\ CallInv(j, g, contracts[c], tried[c], skipped[c])
  BY DEF CallsInv, CallInv, EnsureContract, Ended
<1>2. t \in Servers /\ t = OrderedTargets(g)[j.at] /\ j.at <= Len(OrderedTargets(g))
      /\ j.at \in 1 .. Len(Order(c))
  BY <1>1, TargetAtHand DEF Order
<1>3. PICK known :
        /\ contracts' = [contracts EXCEPT ![c][t] = known]
        /\ known \in {deployed[t], None, contracts[c][t]}
        /\ IF g.picky /\ known # "good"
           THEN NextTarget(c) /\ skipped' = [skipped EXCEPT ![c] = skipped[c] \cup {t}]
           ELSE Ends(c, "send") /\ UNCHANGED skipped
  BY DEF EnsureContract
<1>4. UNCHANGED <<config, tried, deployed>>
  BY DEF EnsureContract
<1> HIDE DEF t
<1>5. ASSUME deployed \in [Servers -> Contracts] PROVE CallsInv'
  <2>1. known \in Contracts \cup {None}
    BY <1>2, <1>3, <1>5 DEF CallsInv, CallTypes
  <2>2. /\ contracts' \in [Clients -> [Servers -> Contracts \cup {None}]] /\ contracts'[c][t] = known
        /\ \A d \in Clients : d # c => contracts'[d] = contracts[d]
    BY <1>2, <1>3, <2>1 DEF CallsInv, CallTypes
  <2>3. CASE g.picky /\ known # "good"
    <3>1. NextTarget(c) /\ skipped' = [skipped EXCEPT ![c] = skipped[c] \cup {t}]
      BY <1>3, <2>3
    <3>2. /\ skipped' \in [Clients -> SUBSET Servers] /\ skipped'[c] = skipped[c] \cup {t}
          /\ \A d \in Clients : d # c => skipped'[d] = skipped[d]
      BY <1>2, <3>1 DEF CallsInv, CallTypes
    <3>3. Target(c) \in skipped'[c] /\ skipped[c] \subseteq skipped'[c]
      BY <3>2 DEF t
    <3> QED
      BY <1>1, <1>4, <1>5, <2>2, <3>1, <3>2, <3>3, NextTargetKeeps
  <2>4. CASE ~(g.picky /\ known # "good")
    <3> DEFINE q == [j EXCEPT !.pc = "send"]
    <3>1. client' = [client EXCEPT ![c] = q] /\ UNCHANGED skipped
      BY <1>3, <2>4 DEF Ends, Goes
    <3>2. q \in Call /\ q.pc = "send" /\ q.at = j.at /\ q.attempt = j.attempt
          /\ q.endpoint = j.endpoint
      BY <1>1 DEF Call, Ended
    <3> HIDE DEF q
    <3>3. CallTypes' /\ client'[c] = q /\ \A d \in Clients : d # c => client'[d] = client[d]
      BY <1>4, <2>2, <3>1, <3>2 DEF CallsInv, CallTypes
    <3>4. tried[c][t] \in Nat
      BY <1>2 DEF CallsInv, CallTypes
    <3>5. Checked(q, g, contracts'[c])
      BY <1>2, <2>2, <2>4, <3>2 DEF Checked
    <3>6. LeavesNone(q, g, tried[c], skipped[c])
      BY <1>1, <1>2, <3>2, <3>4 DEF LeavesNone, CallInv
    <3>7. CallInv(q, g, contracts'[c], tried[c], skipped[c])
      BY <1>1, <1>2, <3>2, <3>5, <3>6 DEF CallInv
    <3> QED
      BY <1>4, <2>2, <3>1, <3>3, <3>7, OthersGoOn
  <2> QED
    BY <2>3, <2>4
<1> QED
  BY <1>5 DEF CallsInv, CallTypes

\* An attempt counts, wherever it takes the call.
LEMMA AttemptKeeps ==
    ASSUME CallsInv, NEW c \in Clients, Trying(c), NEW q \in Call,
           client' = [client EXCEPT ![c] = q], q.pc \in {"sleep", "done", "rejected"},
           q.at = client[c].at, q.attempt = client[c].attempt, q.endpoint = client[c].endpoint
    PROVE  CallsInv'
<1> DEFINE j == client[c]
           g == config[c]
           order == OrderedTargets(g)
           t == Target(c)
<1>1. /\ j \in Call /\ j.pc = "send" /\ j.endpoint \in Endpoints /\ j.at <= Len(order)
      /\ CallInv(j, g, contracts[c], tried[c], skipped[c])
  BY DEF CallsInv, CallInv, Trying, Ended
<1>2. t \in Servers /\ t = order[j.at] /\ j.at \in 1 .. Len(order)
  BY <1>1, TargetAtHand DEF Order
<1>3. /\ tried' = [tried EXCEPT ![c][t] = tried[c][t] + 1]
      /\ UNCHANGED <<config, deployed, contracts, skipped>>
  BY DEF Trying
<1> HIDE DEF t, order
<1>4. /\ tried[c] \in [Servers -> Nat] /\ tried \in [Clients -> [Servers -> Nat]]
      /\ client \in [Clients -> Call]
  BY DEF CallsInv, CallTypes
<1>5. /\ tried' \in [Clients -> [Servers -> Nat]] /\ tried'[c][t] = tried[c][t] + 1
      /\ \A d \in Clients : d # c => tried'[d] = tried[d]
  BY <1>2, <1>3, <1>4
<1>6. \A x \in Servers : tried'[c][x] >= tried[c][x] /\ tried'[c][x] \in Nat /\ tried[c][x] \in Nat
  BY <1>3, <1>4
<1>7. /\ client' \in [Clients -> Call] /\ client'[c] = q
      /\ \A d \in Clients : d # c => client'[d] = client[d]
  BY <1>4
<1>8. CallTypes'
  BY <1>3, <1>5, <1>7 DEF CallsInv, CallTypes
<1>9. /\ q.attempt \in 0 .. MaxRetries /\ MaxRetries \in Nat /\ Len(order) \in Nat
      /\ \A n \in 1 .. Len(order) : order[n] \in Servers
  <2>1. g \in Configs
    BY DEF CallsInv, CallTypes
  <2> QED
    BY <2>1, FirstAttempt, TargetsOfPool DEF Call, order
<1>10. LeavesNone(q, g, tried'[c], skipped[c])
  <2>1. \A n \in 1 .. Len(order) : n < j.at => order[n] \in skipped[c] \/ tried[c][order[n]] > MaxRetries
    BY <1>1 DEF CallInv, LeavesNone, order
  <2>2. \A n \in 1 .. Len(order) : n < j.at => order[n] \in skipped[c] \/ tried'[c][order[n]] > MaxRetries
    BY <1>6, <1>9, <2>1
  <2>3. tried[c][order[j.at]] >= j.attempt
    BY <1>1 DEF CallInv, LeavesNone, order
  <2>4. tried'[c][order[q.at]] > q.attempt
    BY <1>2, <1>4, <1>5, <1>9, <2>3
  <2> QED
    BY <2>2, <2>4 DEF LeavesNone, order
<1>11. Checked(q, g, contracts[c])
  BY <1>1 DEF CallInv, Checked
<1>12. CallInv(q, g, contracts[c], tried'[c], skipped[c])
  BY <1>1, <1>2, <1>9, <1>10, <1>11 DEF CallInv, order
<1> QED
  BY <1>3, <1>5, <1>7, <1>8, <1>12, OthersGoOn

\* A call that ends.
LEMMA EndIsCall ==
    ASSUME CallsInv, NEW c \in Clients, NEW pc \in Ended,
           NEW q, q = [client[c] EXCEPT !.pc = pc]
    PROVE  /\ q \in Call /\ q.pc = pc /\ q.at = client[c].at
           /\ q.attempt = client[c].attempt /\ q.endpoint = client[c].endpoint
<1>1. client[c] \in Call
  BY DEF CallsInv, CallTypes
<1> QED
  BY <1>1 DEF Call

LEMMA Moments ==
    ASSUME LimiterTypeOK, NEW n \in Nat
    PROVE  clock + n * TicksPerSecond \in Nat
<1>1. clock \in Nat /\ TicksPerSecond \in Nat
  BY LimiterAssumption, Constants DEF LimiterTypeOK, LimiterAssumption
<1>2. n * TicksPerSecond \in Nat
  BY <1>1, Products
<1> QED
  BY <1>1, <1>2

LEMMA BackOffKeeps ==
    ASSUME CallsInv, LimiterTypeOK, NEW c \in Clients, Trying(c), BackOff(c) PROVE CallsInv'
<1> DEFINE w == clock + Power2(client[c].attempt) * TicksPerSecond
           q == [client[c] EXCEPT !.pc = "sleep", !.wake = w, !.told = FALSE]
<1>1. w \in Nat
  <2>1. Power2(client[c].attempt) \in Nat
    BY DEF Power2
  <2> QED
    BY <2>1, Moments
<1>2. client' = [client EXCEPT ![c] = q]
  BY DEF BackOff, Sleeps, Goes
<1> HIDE DEF w
<1>3. /\ q \in Call /\ q.pc = "sleep" /\ q.at = client[c].at
      /\ q.attempt = client[c].attempt /\ q.endpoint = client[c].endpoint
  <2>1. client[c] \in Call
    BY DEF CallsInv, CallTypes
  <2> QED
    BY <1>1, <2>1 DEF Call
<1> HIDE DEF q
<1> QED
  BY <1>2, <1>3, AttemptKeeps

LEMMA EndingKeeps ==
    ASSUME CallsInv, NEW c \in Clients, Trying(c), NEW pc \in {"done", "rejected"}, Ends(c, pc)
    PROVE  CallsInv'
<1> DEFINE q == [client[c] EXCEPT !.pc = pc]
<1>1. client' = [client EXCEPT ![c] = q]
  BY DEF Ends, Goes
<1>2. /\ q \in Call /\ q.pc = pc /\ q.at = client[c].at
      /\ q.attempt = client[c].attempt /\ q.endpoint = client[c].endpoint
  BY EndIsCall DEF Ended
<1> HIDE DEF q
<1> QED
  BY <1>1, <1>2, AttemptKeeps

\* The bucket a call consults is one of the limiter's.
LEMMA BucketAtHand ==
    ASSUME CallsInv, NEW c \in Clients, client[c].pc \in {"send", "sleep"}
    PROVE  BucketOf(c) \in Buckets
<1>1. client[c].endpoint \in Endpoints /\ client[c].at <= Len(Order(c)) /\ config[c] \in Configs
  BY DEF CallsInv, CallTypes, CallInv, Ended, Order
<1>2. Target(c) \in Servers /\ config[c].tenant \in Tenants
  BY <1>1, TargetAtHand, ClientAssumption DEF ClientAssumption
<1> QED
  BY <1>1, <1>2 DEF BucketOf, Buckets

\* The wait a refused client is told.
LEMMA ToldWait ==
    ASSUME LimiterTypeOK, NEW b \in Buckets, ~Admits(b)
    PROVE  /\ Lesser(RetryAfter(b), 60) \in Nat
           /\ clock + Lesser(RetryAfter(b), 60) * TicksPerSecond \in Nat
           /\ Available(b) + Lesser(RetryAfter(b), 60) * TicksPerSecond * Rpm >= Token
<1>1. RetryAfter(b) \in Nat
      /\ Available(b) + Lesser(RetryAfter(b), 60) * TicksPerSecond * Rpm >= Token
  BY AvailableBounds, RetrySuffices
<1>2. Lesser(RetryAfter(b), 60) \in Nat
  BY <1>1 DEF Lesser
<1> QED
  BY <1>1, <1>2, Moments

LEMMA RefusedKeeps ==
    ASSUME CallsInv, LimiterTypeOK, NEW c \in Clients, Refused(c) PROVE CallsInv'
<1> DEFINE w == clock + Lesser(RetryAfter(BucketOf(c)), 60) * TicksPerSecond
           q == [client[c] EXCEPT !.pc = "sleep", !.wake = w, !.told = TRUE]
<1>1. w \in Nat
  <2>1. BucketOf(c) \in Buckets /\ ~Admits(BucketOf(c))
    BY BucketAtHand DEF Refused, Trying
  <2> QED
    BY <2>1, ToldWait
<1>2. client' = [client EXCEPT ![c] = q] /\ Trying(c)
  BY DEF Refused, Sleeps, Goes
<1> HIDE DEF w
<1>3. /\ q \in Call /\ q.pc = "sleep" /\ q.at = client[c].at
      /\ q.attempt = client[c].attempt /\ q.endpoint = client[c].endpoint
  <2>1. client[c] \in Call
    BY DEF CallsInv, CallTypes
  <2> QED
    BY <1>1, <2>1 DEF Call
<1> HIDE DEF q
<1> QED
  BY <1>2, <1>3, AttemptKeeps

LEMMA WakeKeeps == ASSUME CallsInv, NEW c \in Clients, Wake(c) PROVE CallsInv'
<1> DEFINE j == client[c]
           g == config[c]
           q == [j EXCEPT !.pc = "send", !.attempt = j.attempt + 1, !.wake = 0, !.told = FALSE]
<1>1. /\ j \in Call /\ j.pc = "sleep" /\ j.endpoint \in Endpoints /\ j.at <= Len(Order(c))
      /\ CallInv(j, g, contracts[c], tried[c], skipped[c])
  BY DEF CallsInv, CallInv, Wake, Ended, Order
<1>2. Target(c) \in Servers /\ Target(c) = OrderedTargets(g)[j.at] /\ j.at <= Len(OrderedTargets(g))
  BY <1>1, TargetAtHand DEF Order
<1>3. UNCHANGED <<config, deployed, contracts, tried, skipped>> /\ tried[c][Target(c)] > j.attempt
      /\ tried[c][Target(c)] \in Nat /\ j.attempt \in 0 .. MaxRetries /\ MaxRetries \in Nat
  BY <1>1, <1>2, FirstAttempt DEF Wake, CallInv, LeavesNone, CallsInv, CallTypes, Call
<1>4. CASE j.attempt < MaxRetries
  <2>1. client' = [client EXCEPT ![c] = q]
    BY <1>4 DEF Wake, Goes
  <2>2. q \in Call /\ q.pc = "send" /\ q.at = j.at /\ q.attempt = j.attempt + 1
        /\ q.endpoint = j.endpoint
    <3>1. j.attempt + 1 \in 0 .. MaxRetries
      BY <1>3, <1>4
    <3> HIDE DEF j
    <3> QED
      BY <1>1, <3>1 DEF Call
  <2> HIDE DEF q
  <2>3. CallTypes' /\ client'[c] = q /\ \A d \in Clients : d # c => client'[d] = client[d]
    BY <1>3, <2>1, <2>2 DEF CallsInv, CallTypes
  <2>4. LeavesNone(q, g, tried[c], skipped[c])
    <3>1. tried[c][OrderedTargets(g)[q.at]] >= q.attempt
      BY <1>2, <1>3, <2>2
    <3> QED
      BY <1>1, <2>2, <3>1 DEF LeavesNone, CallInv
  <2>5. CallInv(q, g, contracts[c], tried[c], skipped[c])
    BY <1>1, <1>2, <2>2, <2>4 DEF CallInv, Checked
  <2> QED
    BY <1>3, <2>3, <2>5, OthersGoOn
<1>5. CASE ~(j.attempt < MaxRetries)
  <2>1. NextTarget(c) /\ tried[c][Target(c)] > MaxRetries
    BY <1>3, <1>5 DEF Wake
  <2>2. /\ deployed' \in [Servers -> Contracts]
        /\ contracts' \in [Clients -> [Servers -> Contracts \cup {None}]]
        /\ skipped' \in [Clients -> SUBSET Servers]
    BY <1>3 DEF CallsInv, CallTypes
  <2> QED
    BY <1>1, <1>3, <2>1, <2>2, NextTargetKeeps
<1> QED
  BY <1>4, <1>5

\* Deployments, the clock and the window leave the calls as they are.
LEMMA OutsideKeeps ==
    ASSUME CallsInv, UNCHANGED <<config, contracts, client, tried, skipped>>,
           deployed' \in [Servers -> Contracts]
    PROVE  CallsInv'
BY DEF CallsInv, CallTypes

\* Every step keeps the calls right.
LEMMA CallsStep == QuotaInv /\ CallsInv /\ [Next]_vars => CallsInv'
<1> SUFFICES ASSUME QuotaInv, CallsInv, [Next]_vars
             PROVE  CallsInv'
  OBVIOUS
<1>0. LimiterTypeOK
  BY DEF QuotaInv
<1>1. ASSUME NEW c \in Clients,
             \/ Post(c) \/ GiveUp(c) \/ EnsureContract(c) \/ Wake(c)
             \/ Unreached(c) \/ Refused(c) \/ Served(c)
      PROVE  CallsInv'
  <2>1. CASE Post(c) \/ GiveUp(c) \/ EnsureContract(c) \/ Wake(c)
    BY <2>1, PostKeeps, GiveUpKeeps, EnsureContractKeeps, WakeKeeps
  <2>2. CASE Unreached(c)
    BY <1>0, <2>2, BackOffKeeps, EndingKeeps DEF Unreached
  <2>3. CASE Refused(c)
    BY <1>0, <2>3, RefusedKeeps
  <2>4. CASE Served(c)
    BY <1>0, <2>4, BackOffKeeps, EndingKeeps DEF Served
  <2> QED
    BY <1>1, <2>1, <2>2, <2>3, <2>4
<1>2. ASSUME NEW s \in Servers, Deploy(s)
      PROVE  CallsInv'
  <2>1. deployed' \in [Servers -> Contracts]
    BY <1>2 DEF Deploy, CallsInv, CallTypes
  <2> QED
    BY <1>2, <2>1, OutsideKeeps DEF Deploy
<1>3. ASSUME UNCHANGED clientVars
      PROVE  CallsInv'
  BY <1>3, OutsideKeeps DEF clientVars, CallsInv, CallTypes
<1> QED
  BY <1>1, <1>2, <1>3 DEF Next, vars

LEMMA CallsStart == Init => CallsInv
<1> SUFFICES ASSUME Init
             PROVE  CallsInv
  OBVIOUS
<1>1. /\ config \in [Clients -> Configs] /\ deployed \in [Servers -> Contracts]
      /\ contracts = [c \in Clients |-> [s \in Servers |-> None]]
      /\ client = [c \in Clients |-> AtRest]
      /\ tried = [c \in Clients |-> [s \in Servers |-> 0]]
      /\ skipped = [c \in Clients |-> {}]
  BY DEF Init
<1>2. AtRest \in Call /\ AtRest.pc = "idle" /\ AtRest.at = 1
  BY FirstAttempt DEF AtRest, Call, Ended
<1>3. CallTypes
  BY <1>1, <1>2 DEF CallTypes
<1>4. ASSUME NEW c \in Clients
      PROVE  CallInv(client[c], config[c], contracts[c], tried[c], skipped[c])
  BY <1>1, <1>2 DEF CallInv, Checked, LeavesNone, Ended
<1> QED
  BY <1>3, <1>4 DEF CallsInv

\* What a call knows and has tried is right in every reachable state.
THEOREM CallsInvariance == Spec => [](QuotaInv /\ CallsInv)
<1>1. Init => QuotaInv /\ CallsInv
  BY QuotaStart, CallsStart
<1>2. QuotaInv /\ CallsInv /\ [Next]_vars => (QuotaInv /\ CallsInv)'
  BY QuotaStep, CallsStep
<1> QED
  BY <1>1, <1>2, PTL DEF Spec

\* A client takes an answer only from a server whose contract it has read and accepted
\* (_ensure_contract_compatible before every attempt of _post).
THEOREM AnswersAreFromChecked == Spec => []AnswersFromChecked
<1>1. CallsInv => AnswersFromChecked
  <2> SUFFICES ASSUME CallsInv, NEW c \in Clients, client[c].pc \in {"done", "rejected"},
                      config[c].picky
               PROVE  contracts[c][Target(c)] = "good"
    BY DEF AnswersFromChecked
  <2> QED
    BY DEF CallsInv, CallInv, Checked, Target, Order
<1> QED
  BY <1>1, CallsInvariance, PTL

\* A call with failover fails only once every server of the pool has been tried out or
\* passed over (the loop of _post over _ordered_targets).
THEOREM FailuresAreLast == Spec => []FailsAfterAll
<1>1. CallsInv => FailsAfterAll
  <2> SUFFICES ASSUME CallsInv, NEW c \in Clients, client[c].pc = "failed",
                      config[c].mode \in {"failover", "hybrid"}, NEW s \in Servers
               PROVE  s \in skipped[c] \/ tried[c][s] > MaxRetries
    BY DEF FailsAfterAll
  <2> DEFINE order == OrderedTargets(config[c])
  <2>1. config[c] \in Configs /\ client[c].at \in Nat
    BY DEF CallsInv, CallTypes, CallInv, Call
  <2>2. order \in Seq(Servers) /\ ToSet(order) = Servers
    BY <2>1, TargetsOfPool
  <2>3. /\ client[c].at > Len(order)
        /\ \A n \in 1 .. Len(order) : n < client[c].at =>
              order[n] \in skipped[c] \/ tried[c][order[n]] > MaxRetries
    BY DEF CallsInv, CallInv, LeavesNone
  <2> HIDE DEF order
  <2>4. PICK n \in 1 .. Len(order) : order[n] = s
    BY <2>2 DEF ToSet
  <2>5. n < client[c].at
    BY <2>1, <2>2, <2>3
  <2> QED
    BY <2>3, <2>4, <2>5
<1> QED
  BY <1>1, CallsInvariance, PTL

Counters ==
    /\ posts \in 0 .. MaxPosts /\ deploys \in 0 .. MaxDeploys /\ undercut \subseteq Clients

LEMMA CountersStep == Counters /\ [Next]_vars => Counters'
<1> SUFFICES ASSUME Counters, [Next]_vars
             PROVE  Counters'
  OBVIOUS
<1>0. MaxPosts \in Nat /\ MaxDeploys \in Nat
  BY ClientAssumption DEF ClientAssumption
<1>1. ASSUME NEW c \in Clients, Post(c)
      PROVE  Counters'
  BY <1>0, <1>1 DEF Post, Counters
<1>2. ASSUME NEW c \in Clients, GiveUp(c) \/ EnsureContract(c)
      PROVE  Counters'
  BY <1>2 DEF GiveUp, EnsureContract, Counters
<1>3. ASSUME NEW c \in Clients, Wake(c)
      PROVE  Counters'
  BY <1>3 DEF Wake, Counters
<1>4. ASSUME NEW c \in Clients, Unreached(c) \/ Refused(c) \/ Served(c)
      PROVE  Counters'
  <2>1. UNCHANGED <<posts, deploys>>
    BY <1>4 DEF Unreached, Refused, Served, Trying
  <2>2. Waiting(BucketOf(c)) \subseteq Clients
    BY DEF Waiting
  <2>3. undercut' \subseteq Clients
    BY <1>4, <2>2 DEF Unreached, Refused, Served, Counters
  <2> QED
    BY <2>1, <2>3 DEF Counters
<1>5. ASSUME NEW s \in Servers, Deploy(s)
      PROVE  Counters'
  BY <1>0, <1>5 DEF Deploy, Counters
<1>6. ASSUME UNCHANGED clientVars
      PROVE  Counters'
  BY <1>6 DEF clientVars, Counters
<1> QED
  BY <1>1, <1>2, <1>3, <1>4, <1>5, <1>6 DEF Next, vars

\* Every variable of the client and of the limiter has its type (_post, _contract_cache and
\* RateLimiter).
THEOREM ClientTypes == Spec => []TypeOK
<1>1. Init => Counters
  BY ClientAssumption DEF Init, Counters, ClientAssumption
<1>2. Spec => []Counters
  BY <1>1, CountersStep, PTL DEF Spec
<1>3. QuotaInv /\ CallsInv /\ Counters => TypeOK
  <2> SUFFICES ASSUME QuotaInv, CallsInv, Counters
               PROVE  TypeOK
    OBVIOUS
  <2>1. ASSUME NEW c \in Clients, client[c].pc \in {"send", "sleep"}
        PROVE  client[c].endpoint \in Endpoints /\ client[c].at \in 1 .. Len(Order(c))
    <3>1. client[c].endpoint \in Endpoints /\ client[c].at <= Len(Order(c))
      BY <2>1 DEF CallsInv, CallInv, Ended, Order
    <3> QED
      BY <3>1, TargetAtHand
  <2> QED
    BY <2>1 DEF TypeOK, CallsInv, CallTypes, Counters, QuotaInv
<1> QED
  BY <1>2, <1>3, CallsInvariance, PTL

-----------------------------------------------------------------------------
(* Refusals: they come only from a bucket that is spent, and what they     *)
(* announce is enough.                                                     *)

\* What a bucket has granted and what it holds make up its burst, and a client that was
\* refused by it was refused after the burst.
Spent(c) == client[c].pc = "sleep" /\ client[c].told => granted[BucketOf(c)] >= Burst

\* Until another takes its token, a client that was told to wait finds one at the end of its
\* wait, or already now.
Enough(c) ==
    client[c].pc = "sleep" /\ client[c].told /\ c \notin undercut =>
        \/ Available(BucketOf(c)) >= Token
        \/ Available(BucketOf(c)) + (client[c].wake - clock) * Rpm >= Token

RefusalInv ==
    /\ \A b \in Buckets : granted[b] * Token + Available(b) >= Full
    /\ \A c \in Clients : Spent(c) /\ Enough(c)

\* What a bucket holds after a request: its refill, less the token it granted.
LEMMA AcquireHolds ==
    ASSUME LimiterTypeOK, NEW b \in Buckets, Acquire(b)
    PROVE  /\ (Available(b))' = Available(b) - (IF Admits(b) THEN Token ELSE 0)
           /\ granted'[b] = granted[b] + (IF Admits(b) THEN 1 ELSE 0)
           /\ \A d \in Buckets : d # b => (Available(d))' = Available(d) /\ granted'[d] = granted[d]
           /\ clock' = clock
<1> DEFINE price == IF Admits(b) THEN Token ELSE 0
           left == [tokens |-> Available(b) - price, last |-> clock]
<1>1. /\ buckets' = [buckets EXCEPT ![b] = left] /\ clock' = clock
      /\ granted' = [granted EXCEPT ![b] = granted[b] + (IF Admits(b) THEN 1 ELSE 0)]
  BY DEF Acquire
<1>2. buckets \in [Buckets -> Bucket \cup {None}] /\ granted \in [Buckets -> Nat] /\ clock \in Nat
  BY Constants DEF LimiterTypeOK
<1>3. Available(b) \in 0 .. Full /\ Available(b) - price \in 0 .. Full /\ Full \in Nat
  BY AvailableBounds, Constants DEF Admits
<1>4. left \in Bucket /\ left.tokens = Available(b) - price /\ left.last = clock
  BY <1>3, Constants DEF Bucket, LimiterTypeOK
<1> HIDE DEF price, left
<1>5. buckets'[b] = left /\ buckets'[b] # None
  BY <1>1, <1>2, <1>4, Constants
<1>6. (clock - clock) * Rpm = 0
  BY <1>2, Constants, Products
<1>7. (Available(b))' = Lesser(Full, left.tokens + (clock - left.last) * Rpm)
  BY <1>1, <1>5 DEF Available, Full, Token
<1>8. (Available(b))' = Available(b) - price
  BY <1>3, <1>4, <1>6, <1>7 DEF Lesser
<1>9. \A d \in Buckets : d # b => (Available(d))' = Available(d) /\ granted'[d] = granted[d]
  BY <1>1, <1>2 DEF Available, Full, Token
<1> QED
  BY <1>1, <1>2, <1>8, <1>9 DEF price

\* A client that does not act keeps its bucket.
LEMMA BucketStays ==
    ASSUME NEW d \in Clients, client'[d] = client[d], config' = config
    PROVE  (BucketOf(d))' = BucketOf(d)
BY DEF BucketOf, Target, Order

\* A step that leaves the limiter alone, of a client that does not begin to wait.
LEMMA QuietKeeps ==
    ASSUME RefusalInv, UNCHANGED <<limiterVars, config>>, NEW c \in Clients,
           ~(client'[c].pc = "sleep" /\ client'[c].told),
           \A d \in Clients : d # c => client'[d] = client[d] /\ (d \in undercut => d \in undercut')
    PROVE  RefusalInv'
<1>1. \A b \in Buckets : (Available(b))' = Available(b)
  BY DEF Available, Full, Token, limiterVars
<1>2. clock' = clock /\ granted' = granted
  BY DEF limiterVars
<1>3. \A b \in Buckets : granted'[b] * Token + (Available(b))' >= Full
  BY <1>1, <1>2 DEF RefusalInv
<1>4. ASSUME NEW d \in Clients
      PROVE  (Spent(d) /\ Enough(d))'
  <2>1. CASE d = c
    BY <2>1 DEF Spent, Enough
  <2>2. CASE d # c
    <3>1. client'[d] = client[d] /\ (BucketOf(d))' = BucketOf(d)
      BY <2>2, BucketStays
    <3>2. (Available(BucketOf(d)))' = Available(BucketOf(d))
      BY <3>1 DEF Available, Full, Token, limiterVars
    <3> QED
      BY <1>2, <2>2, <3>1, <3>2 DEF Spent, Enough, RefusalInv, Token
  <2> QED
    BY <2>1, <2>2
<1> QED
  BY <1>3, <1>4 DEF RefusalInv, Buckets, Token, Full

LEMMA Multiples ==
    ASSUME NEW m \in Nat, NEW n \in Nat, NEW a \in Int,
           m * Token + a >= n * Token, a < Token
    PROVE  m >= n
<1>1. Token \in Nat \ {0}
  BY Constants
<1> HIDE DEF Token
<1>2. SUFFICES ASSUME m + 1 <= n
               PROVE  FALSE
  OBVIOUS
<1>3. PICK k \in Nat : n = m + 1 + k
  <2>1. n - m - 1 \in Nat /\ n = m + 1 + (n - m - 1)
    BY <1>2
  <2> QED
    BY <2>1
<1>4. k * Token \in Nat /\ m * Token \in Nat
  BY <1>1, Products
<1>5. n * Token = m * Token + Token + k * Token
  BY <1>1, <1>3
<1> QED
  BY <1>1, <1>4, <1>5

LEMMA AcquireKeepsSum ==
    ASSUME QuotaInv, RefusalInv, NEW b \in Buckets, Acquire(b)
    PROVE  \A d \in Buckets : granted'[d] * Token + (Available(d))' >= Full
<1>1. LimiterTypeOK
  BY DEF QuotaInv
<1>2. \A d \in Buckets : d # b => granted'[d] * Token + (Available(d))' >= Full
  BY <1>1, AcquireHolds DEF RefusalInv
<1>3. granted[b] \in Int /\ Available(b) \in Int /\ Token \in Int /\ granted[b] * Token \in Int
  BY <1>1, Constants, AvailableBounds, Products DEF LimiterTypeOK
<1>4. granted[b] * Token + Available(b) >= Full /\ Full \in Int
  BY Constants DEF RefusalInv
<1>5. CASE Admits(b)
  <2>1. (Available(b))' = Available(b) - Token /\ granted'[b] = granted[b] + 1
    BY <1>1, <1>5, AcquireHolds
  <2>2. (granted[b] + 1) * Token = granted[b] * Token + Token
    BY <1>3, Products
  <2> QED
    BY <1>2, <1>3, <1>4, <2>1, <2>2
<1>6. CASE ~Admits(b)
  <2>1. (Available(b))' = Available(b) /\ granted'[b] = granted[b]
    BY <1>1, <1>3, <1>6, AcquireHolds DEF LimiterTypeOK
  <2> QED
    BY <1>2, <1>4, <2>1
<1> QED
  BY <1>5, <1>6

\* A request of one client leaves the others' waits honest, or undercuts them.
LEMMA OthersWait ==
    ASSUME QuotaInv, CallsInv, RefusalInv, NEW b \in Buckets, Acquire(b), UNCHANGED config,
           NEW d \in Clients, client'[d] = client[d], d \in undercut => d \in undercut',
           Admits(b) /\ d \in Waiting(b) => d \in undercut'
    PROVE  (Spent(d) /\ Enough(d))'
<1> SUFFICES ASSUME client[d].pc = "sleep", client[d].told
             PROVE  (Spent(d) /\ Enough(d))'
  BY DEF Spent, Enough
<1>0. PICK e \in Buckets : e = BucketOf(d)
  BY BucketAtHand
<1>1. (BucketOf(d))' = e /\ LimiterTypeOK /\ clock' = clock
  BY <1>0, BucketStays, AcquireHolds DEF QuotaInv
<1>2. granted[e] >= Burst /\ granted[e] \in Nat /\ Burst \in Nat
  BY <1>0, <1>1, LimiterAssumption DEF RefusalInv, Spent, LimiterTypeOK, LimiterAssumption
<1>3. granted'[e] >= granted[e] /\ granted'[e] \in Nat
  <2>1. CASE e = b
    BY <1>1, <1>2, <2>1, AcquireHolds
  <2>2. CASE e # b
    BY <1>1, <1>2, <2>2, AcquireHolds
  <2> QED
    BY <2>1, <2>2
<1>4. Spent(d)'
  BY <1>1, <1>2, <1>3 DEF Spent
<1>5. ASSUME d \notin undercut'
      PROVE  (Available(e))' = Available(e)
  <2>1. CASE e = b
    <3>1. ~Admits(b)
      BY <1>0, <1>5, <2>1 DEF Waiting
    <3> QED
      BY <1>1, <2>1, <3>1, AcquireHolds, AvailableBounds
  <2>2. CASE e # b
    BY <1>1, <2>2, AcquireHolds
  <2> QED
    BY <2>1, <2>2
<1>6. Enough(d)'
  BY <1>0, <1>1, <1>5 DEF RefusalInv, Enough, Token
<1> QED
  BY <1>4, <1>6

\* The refused client itself: the bucket's burst is spent, and the wait makes up for it.
LEMMA RefusedWaits ==
    ASSUME QuotaInv, CallsInv, RefusalInv, NEW c \in Clients, Refused(c)
    PROVE  (Spent(c) /\ Enough(c))'
<1>0. PICK b \in Buckets : b = BucketOf(c)
  BY BucketAtHand DEF Refused, Trying
<1>1. LimiterTypeOK /\ ~Admits(b) /\ Acquire(b) /\ UNCHANGED config
  BY <1>0 DEF QuotaInv, Refused, Trying
<1> DEFINE wait == Lesser(RetryAfter(b), 60)
           w == clock + wait * TicksPerSecond
<1>2. /\ client \in [Clients -> Call] /\ client[c] \in Call
      /\ client' = [client EXCEPT ![c] = [client[c] EXCEPT !.pc = "sleep", !.wake = w, !.told = TRUE]]
  BY <1>0 DEF Refused, Sleeps, Goes, CallsInv, CallTypes
<1>3. /\ wait \in Nat /\ w \in Nat /\ wait * TicksPerSecond \in Nat
      /\ Available(b) + wait * TicksPerSecond * Rpm >= Token
  <2>1. TicksPerSecond \in Nat
    BY LimiterAssumption DEF LimiterAssumption
  <2>2. wait \in Nat /\ w \in Nat /\ Available(b) + wait * TicksPerSecond * Rpm >= Token
    BY <1>1, ToldWait
  <2> HIDE DEF wait
  <2> QED
    BY <2>1, <2>2, Products
<1> HIDE DEF wait
<1>4. client'[c].wake = w /\ client'[c].at = client[c].at /\ client'[c].endpoint = client[c].endpoint
  BY <1>2 DEF Call
<1>5. (BucketOf(c))' = b
  BY <1>0, <1>1, <1>4 DEF BucketOf, Target, Order
<1>6. (Available(b))' = Available(b) /\ granted'[b] = granted[b] /\ clock' = clock
      /\ Available(b) \in 0 .. Full /\ granted[b] \in Nat /\ clock \in Nat
  BY <1>1, AcquireHolds, AvailableBounds, Constants DEF LimiterTypeOK
<1>7. granted[b] >= Burst
  <2>1. granted[b] * Token + Available(b) >= Burst * Token
    BY DEF RefusalInv, Full
  <2>2. Burst \in Nat /\ Available(b) \in Int /\ Available(b) < Token
    BY <1>1, <1>6, LimiterAssumption, Constants DEF Admits, LimiterAssumption
  <2> QED
    BY <1>6, <2>1, <2>2, Multiples
<1>8. w - clock = wait * TicksPerSecond
  BY <1>3, <1>6
<1>9. Spent(c)'
  BY <1>5, <1>6, <1>7 DEF Spent
<1>10. Available(b) + (w - clock) * Rpm >= Token
  BY <1>3, <1>8
<1> HIDE DEF w
<1>11. Enough(c)'
  BY <1>4, <1>5, <1>6, <1>10 DEF Enough, Token
<1> QED
  BY <1>9, <1>11

LEMMA TickWaits == ASSUME QuotaInv, CallsInv, RefusalInv, Tick, UNCHANGED clientVars PROVE RefusalInv'
<1>1. /\ clock' = clock + 1 /\ clock \in Int /\ buckets' = buckets /\ granted' = granted
      /\ LimiterTypeOK /\ UNCHANGED <<client, config, undercut>>
  BY Constants DEF Tick, QuotaInv, LimiterTypeOK, clientVars
<1>2. ASSUME NEW b \in Buckets
      PROVE  /\ Available(b) \in 0 .. Full
             /\ (Available(b))' = Lesser(Full, Available(b) + Rpm)
  <2>0. Available(b) \in 0 .. Full /\ Rpm \in Nat /\ Full \in Nat
    BY <1>1, AvailableBounds, Constants
  <2>1. CASE buckets[b] = None
    <3>1. (Available(b))' = Full /\ Available(b) = Full
      BY <1>1, <2>1 DEF Available, Full, Token
    <3> QED
      BY <2>0, <3>1 DEF Lesser
  <2>2. CASE buckets[b] # None
    <3> DEFINE units == buckets[b].tokens + (clock - buckets[b].last) * Rpm
    <3>1. buckets[b].tokens \in Int /\ buckets[b].last \in Int
      BY <1>1, <2>2, Constants DEF LimiterTypeOK, Bucket
    <3>2. Available(b) = Lesser(Full, units)
      BY <2>2 DEF Available
    <3>0. PICK now \in Int : now = clock' /\ now = clock + 1
      BY <1>1
    <3>3. (Available(b))' = Lesser(Full, buckets[b].tokens + (now - buckets[b].last) * Rpm)
      <4>1. buckets'[b] = buckets[b]
        BY <1>1
      <4> QED
        BY <2>2, <3>0, <4>1 DEF Available, Full, Token
    <3>4. (now - buckets[b].last) * Rpm = (clock - buckets[b].last) * Rpm + Rpm
          /\ (clock - buckets[b].last) * Rpm \in Int
      <4>1. PICK m \in Int : m = clock - buckets[b].last
        BY <1>1, <3>1
      <4>2. now - buckets[b].last = m + 1
        BY <1>1, <3>0, <3>1, <4>1
      <4>3. (m + 1) * Rpm = m * Rpm + Rpm /\ m * Rpm \in Int
        BY <2>0, Products
      <4> QED
        BY <4>1, <4>2, <4>3
    <3>5. units \in Int /\ (Available(b))' = Lesser(Full, units + Rpm)
      BY <2>0, <3>1, <3>3, <3>4
    <3> HIDE DEF units
    <3> QED
      BY <2>0, <3>2, <3>5 DEF Lesser
  <2> QED
    BY <2>1, <2>2
<1>3. ASSUME NEW b \in Buckets
      PROVE  granted'[b] * Token + (Available(b))' >= Full
  <2>1. (Available(b))' >= Available(b) /\ (Available(b))' \in Int /\ Available(b) \in Int
    BY <1>2, Constants DEF Lesser
  <2>2. granted[b] * Token + Available(b) >= Full /\ granted[b] * Token \in Int /\ Full \in Int
    BY <1>1, Constants, Products DEF RefusalInv, LimiterTypeOK
  <2> QED
    BY <1>1, <2>1, <2>2
<1>4. ASSUME NEW d \in Clients, client[d].pc = "sleep", client[d].told
      PROVE  (Spent(d) /\ Enough(d))'
  <2>0. PICK b \in Buckets : b = BucketOf(d)
    BY <1>4, BucketAtHand
  <2>1. (BucketOf(d))' = b
    BY <1>1, <2>0, BucketStays
  <2>2. Spent(d)'
    BY <1>1, <1>4, <2>0, <2>1 DEF RefusalInv, Spent
  <2>3. ASSUME d \notin undercut
        PROVE  \/ (Available(b))' >= Token
               \/ (Available(b))' + (client[d].wake - (clock + 1)) * Rpm >= Token
    <3>1. client[d].wake \in Int /\ Rpm \in Nat /\ Full \in Nat /\ Token \in Nat /\ Token <= Full
      BY Constants DEF CallsInv, CallTypes, Call
    <3>2. Available(b) >= Token \/ Available(b) + (client[d].wake - clock) * Rpm >= Token
      BY <1>4, <2>0, <2>3 DEF RefusalInv, Enough
    <3>3. (client[d].wake - clock) * Rpm = (client[d].wake - (clock + 1)) * Rpm + Rpm
          /\ (client[d].wake - (clock + 1)) * Rpm \in Int
      <4>1. PICK m \in Int : m = client[d].wake - (clock + 1)
        BY <1>1, <3>1
      <4>2. client[d].wake - clock = m + 1
        BY <1>1, <3>1, <4>1
      <4>3. (m + 1) * Rpm = m * Rpm + Rpm /\ m * Rpm \in Int
        BY <3>1, Products
      <4> QED
        BY <4>1, <4>2, <4>3
    <3> QED
      BY <1>2, <3>1, <3>2, <3>3 DEF Lesser
  <2>4. Enough(d)'
    BY <1>1, <1>4, <2>1, <2>3 DEF Enough, Token
  <2> QED
    BY <2>2, <2>4
<1>5. \A d \in Clients : (Spent(d) /\ Enough(d))'
  BY <1>1, <1>4 DEF Spent, Enough
<1> QED
  BY <1>3, <1>5 DEF RefusalInv, Buckets, Token, Full

\* A client that backs off was not told how long to wait.
LEMMA BackOffIsUntold ==
    ASSUME client \in [Clients -> Call], NEW c \in Clients,
           BackOff(c) \/ Ends(c, "done") \/ Ends(c, "rejected")
    PROVE  ~(client'[c].pc = "sleep" /\ client'[c].told)
<1>1. client[c] \in Call
  OBVIOUS
<1>2. CASE BackOff(c)
  <2> DEFINE w == clock + Power2(client[c].attempt) * TicksPerSecond
             q == [client[c] EXCEPT !.pc = "sleep", !.wake = w, !.told = FALSE]
  <2>1. client' = [client EXCEPT ![c] = q]
    BY <1>2 DEF BackOff, Sleeps, Goes
  <2> HIDE DEF w
  <2>2. q.told = FALSE
    BY <1>1 DEF Call
  <2> HIDE DEF q
  <2>3. client'[c] = q
    BY <2>1
  <2> QED
    BY <2>2, <2>3
<1>3. CASE Ends(c, "done") \/ Ends(c, "rejected")
  BY <1>1, <1>3 DEF Ends, Goes, Call
<1> QED
  BY <1>2, <1>3

\* An attempt that reaches the limiter: refused, or served.
LEMMA RequestWaits ==
    ASSUME QuotaInv, CallsInv, RefusalInv, NEW c \in Clients, Refused(c) \/ Served(c)
    PROVE  RefusalInv'
<1>0. PICK b \in Buckets : b = BucketOf(c)
  BY BucketAtHand DEF Refused, Served, Trying
<1>1. Acquire(b) /\ UNCHANGED config /\ client \in [Clients -> Call] /\ client[c] \in Call
  BY <1>0 DEF Refused, Served, Trying, CallsInv, CallTypes
<1>2. \A d \in Clients : d # c => client'[d] = client[d]
  BY <1>1 DEF Refused, Served, Sleeps, BackOff, Ends, Goes
<1>3. ASSUME NEW d \in Clients, d # c
      PROVE  (Spent(d) /\ Enough(d))'
  <2>1. d \in undercut => d \in undercut'
    BY <1>3 DEF Refused, Served
  <2>2. Admits(b) /\ d \in Waiting(b) => d \in undercut'
    BY <1>0 DEF Refused, Served
  <2> QED
    BY <1>1, <1>2, <1>3, <2>1, <2>2, OthersWait
<1>4. CASE Refused(c)
  <2>1. (Spent(c) /\ Enough(c))'
    BY <1>4, RefusedWaits
  <2> QED
    BY <1>1, <1>3, <2>1, AcquireKeepsSum DEF RefusalInv, Buckets, Token, Full
<1>5. CASE Served(c)
  <2>1. ~(client'[c].pc = "sleep" /\ client'[c].told)
    BY <1>1, <1>5, BackOffIsUntold DEF Served
  <2>2. (Spent(c) /\ Enough(c))'
    BY <2>1 DEF Spent, Enough
  <2> QED
    BY <1>1, <1>3, <2>2, AcquireKeepsSum DEF RefusalInv, Buckets, Token, Full
<1> QED
  BY <1>4, <1>5

LEMMA RefusalStep == QuotaInv /\ CallsInv /\ RefusalInv /\ [Next]_vars => RefusalInv'
<1> SUFFICES ASSUME QuotaInv, CallsInv, RefusalInv, [Next]_vars
             PROVE  RefusalInv'
  OBVIOUS
<1>0. client \in [Clients -> Call]
  BY DEF CallsInv, CallTypes
<1>1. ASSUME NEW c \in Clients, Post(c) \/ GiveUp(c) \/ EnsureContract(c) \/ Wake(c) \/ Unreached(c)
      PROVE  RefusalInv'
  <2>1. UNCHANGED <<limiterVars, config>>
    BY <1>1 DEF Post, GiveUp, EnsureContract, Wake, Unreached, Trying
  <2>2. \A d \in Clients : d # c => client'[d] = client[d] /\ (d \in undercut => d \in undercut')
    BY <1>0, <1>1 DEF Post, GiveUp, EnsureContract, Wake, Unreached, NextTarget, BackOff, Sleeps,
                      Ends, Goes
  <2>3. ~(client'[c].pc = "sleep" /\ client'[c].told)
    <3>1. CASE Post(c)
      BY <1>0, <3>1 DEF Post, Goes, AtRest
    <3>2. CASE GiveUp(c)
      BY <1>0, <3>2 DEF GiveUp, Ends, Goes, Call
    <3>3. CASE EnsureContract(c)
      BY <1>0, <3>3, ZenonT(30) DEF EnsureContract, NextTarget, Ends, Goes, Call
    <3>4. CASE Wake(c)
      BY <1>0, <3>4 DEF Wake, NextTarget, Goes, Call
    <3>5. CASE Unreached(c)
      BY <1>0, <3>5, BackOffIsUntold DEF Unreached
    <3> QED
      BY <1>1, <3>1, <3>2, <3>3, <3>4, <3>5
  <2> QED
    BY <2>1, <2>2, <2>3, QuietKeeps
<1>2. ASSUME UNCHANGED <<limiterVars, config, client, undercut>>
      PROVE  RefusalInv'
  BY <1>2 DEF RefusalInv, Spent, Enough, Available, BucketOf, Target, Order, Buckets, Token, Full,
              limiterVars
<1>3. ASSUME MarkWindow, UNCHANGED clientVars
      PROVE  RefusalInv'
  BY <1>3 DEF MarkWindow, clientVars, RefusalInv, Spent, Enough, Available, BucketOf, Target, Order,
              Buckets, Token, Full
<1>4. ASSUME NEW s \in Servers, Deploy(s)
      PROVE  RefusalInv'
  BY <1>2, <1>4 DEF Deploy
<1>5. ASSUME UNCHANGED vars
      PROVE  RefusalInv'
  BY <1>2, <1>5 DEF vars, clientVars
<1> QED
  BY <1>1, <1>3, <1>4, <1>5, RequestWaits, TickWaits DEF Next

LEMMA RefusalStart == Init => RefusalInv
<1> SUFFICES ASSUME Init
             PROVE  RefusalInv
  OBVIOUS
<1>1. \A b \in Buckets : Available(b) = Full /\ granted[b] = 0
  BY DEF Init, LimiterInit, Available
<1>2. Full \in Nat /\ 0 * Token = 0
  BY Constants, Products
<1>3. \A c \in Clients : client[c].pc # "sleep"
  BY DEF Init, AtRest
<1> QED
  BY <1>1, <1>2, <1>3 DEF RefusalInv, Spent, Enough

\* What buckets have granted, what they hold and what waiting clients were told fit together
\* in every reachable state.
THEOREM RefusalInvariance == Spec => []RefusalInv
<1>1. Init => QuotaInv /\ CallsInv /\ RefusalInv
  BY QuotaStart, CallsStart, RefusalStart
<1>2. QuotaInv /\ CallsInv /\ RefusalInv /\ [Next]_vars => (QuotaInv /\ CallsInv /\ RefusalInv)'
  BY QuotaStep, CallsStep, RefusalStep
<1> QED
  BY <1>1, <1>2, PTL DEF Spec

\* A client is refused only by a bucket that has granted its whole burst, whatever the other
\* tenants and endpoints do (_enforce_rate_limit).
THEOREM RefusalsAreEarned == Spec => []RefusedWhenSpent
<1>1. RefusalInv => RefusedWhenSpent
  BY DEF RefusalInv, Spent, RefusedWhenSpent, Told, BucketOf
<1> QED
  BY <1>1, RefusalInvariance, PTL

\* A client that slept out a Retry-After finds a token unless another took it, whatever the
\* rate and however often others were refused (_enforce_rate_limit and _post).
THEOREM RetriesAreHonest == Spec => []HonestRetry
<1>1. QuotaInv /\ CallsInv /\ RefusalInv => HonestRetry
  <2> SUFFICES ASSUME QuotaInv, CallsInv, RefusalInv, NEW c \in Clients, client[c].pc = "sleep",
                      client[c].told, c \notin undercut, client[c].wake <= clock
               PROVE  Admits(BucketOf(c))
    BY DEF HonestRetry, Told
  <2>0. PICK b \in Buckets : b = BucketOf(c)
    BY BucketAtHand
  <2>1. Available(b) >= Token \/ Available(b) + (client[c].wake - clock) * Rpm >= Token
    BY <2>0 DEF RefusalInv, Enough
  <2>2. Available(b) \in Int /\ client[c].wake \in Int /\ clock \in Int /\ Rpm \in Nat /\ Token \in Int
    BY AvailableBounds, Constants DEF QuotaInv, LimiterTypeOK, CallsInv, CallTypes, Call
  <2>3. (client[c].wake - clock) * Rpm <= 0 /\ (client[c].wake - clock) * Rpm \in Int
    <3>1. PICK k \in Nat : k = clock - client[c].wake
      BY <2>2
    <3>2. k * Rpm \in Nat
      BY <2>2, Products
    <3>3. (client[c].wake - clock) * Rpm = -(k * Rpm)
      BY <2>2, <3>1
    <3> QED
      BY <3>2, <3>3
  <2> QED
    BY <2>0, <2>1, <2>2, <2>3 DEF Admits
<1>2. Spec => [](QuotaInv /\ CallsInv)
  BY CallsInvariance
<1> QED
  BY <1>1, <1>2, RefusalInvariance, PTL
=============================================================================
