--------------------------- MODULE TrafficProofs ----------------------------
(***************************************************************************)
(* Which requests pass and where they go. Part one: the token buckets of   *)
(* RateLimit for any keys, specs, lag and clock bound, the honesty of      *)
(* Retry-After and the bound on what a key is granted in a window. Part    *)
(* two: the weighted round robin of Swrr for any candidates, weights and   *)
(* snapshots, the bounds on the weights of a group and the smoothness of   *)
(* its selections.                                                         *)
(***************************************************************************)
EXTENDS RateLimit, Swrr, SumTheorems

Full(s) == s.burst * Token

LEMMA MinTwo ==
  ASSUME NEW a \in Int, NEW b \in Int
  PROVE  Min({a, b}) = IF a <= b THEN a ELSE b
<1>1. \E x \in {a, b} : \A y \in {a, b} : x <= y
  OBVIOUS
<1>2. Min({a, b}) \in {a, b} /\ \A y \in {a, b} : Min({a, b}) <= y
  BY <1>1 DEF Min
<1> QED BY <1>2

LEMMA MaxTwo ==
  ASSUME NEW a \in Int, NEW b \in Int
  PROVE  Max({a, b}) = IF a <= b THEN b ELSE a
<1>1. \E x \in {a, b} : \A y \in {a, b} : x >= y
  OBVIOUS
<1>2. Max({a, b}) \in {a, b} /\ \A y \in {a, b} : Max({a, b}) >= y
  BY <1>1 DEF Max
<1> QED BY <1>2

LEMMA SpecTypes ==
  ASSUME NEW k \in Keys, NEW s \in SpecsOf[k]
  PROVE  /\ s \in Specs /\ s.rps \in Nat \ {0} /\ s.burst \in Nat \ {0}
         /\ Full(s) \in Nat /\ Token <= Full(s)
<1>1. s \in Specs /\ s.rps \in Nat \ {0} /\ s.burst \in Nat \ {0}
  BY RateLimitConstants DEF Specs
<1>2. \A b, c \in Nat \ {0} : b * c \in Nat /\ c <= b * c
  OBVIOUS
<1> QED BY <1>1, <1>2, RateLimitConstants DEF Full

\* A denial advertises at least one second and enough of them for one token.
LEMMA RetryAfterEnough ==
  ASSUME NEW k \in Keys, NEW s \in SpecsOf[k]
  PROVE  /\ retry_after(s) \in 1..Token
         /\ Token <= retry_after(s) * s.rps
<1>1. s.rps \in Nat \ {0} /\ Token \in Nat \ {0}
  BY SpecTypes, RateLimitConstants
<1>2. PICK q : q = (Token + s.rps - 1) \div s.rps
  OBVIOUS
<1>3. q \in Int /\ s.rps * q <= Token + s.rps - 1 /\ Token + s.rps - 1 < s.rps * q + s.rps
  BY <1>1, <1>2
<1>4. Token <= q * s.rps
  BY <1>1, <1>3
<1>5. q \in 1..Token
  BY <1>1, <1>3
<1>6. retry_after(s) = q
  <2>1. Max({1, q}) = q
    BY <1>5, MaxTwo
  <2> QED BY <1>2, <2>1 DEF retry_after
<1> QED BY <1>4, <1>5, <1>6

-----------------------------------------------------------------------------
(* ------------------- what a check finds and leaves --------------------- *)

\* The invariant of TokenBucket: within its burst, refilled by now.
Bucket(e) == e \in Entries /\ e.tokens <= Full(e.spec) /\ e.last <= now

LEMMA BucketOf ==
  ASSUME TypeOK, NEW k \in Keys, entries[k] # NoBucket
  PROVE  Bucket(entries[k])
  BY DEF TypeOK, Bucket, Full

\* What a refill at time t makes of bucket e.
Refill(e, t, d) ==
  /\ d \in Entries /\ d.spec = e.spec /\ d.last_active_ms = e.last_active_ms
  /\ d.last = IF t >= e.last THEN t ELSE e.last
  /\ d.tokens <= Full(e.spec)
  /\ d.tokens <= e.tokens + (d.last - e.last) * e.spec.rps
  /\ \/ d.tokens = Full(e.spec)
     \/ d.tokens = e.tokens + (d.last - e.last) * e.spec.rps

LEMMA RefilledBucket ==
  ASSUME NEW k \in Keys, NEW e, e \in Entries, e.spec \in SpecsOf[k], e.tokens <= Full(e.spec),
         NEW t \in 0..MaxNow, NEW d, d = Refilled(e, t)
  PROVE  Refill(e, t, d)
<1>1. /\ e.spec.rps \in Nat /\ Full(e.spec) \in Nat /\ e.tokens \in Nat /\ e.last \in 0..MaxNow
      /\ MaxNow \in Nat
  BY SpecTypes, RateLimitConstants DEF Entries
<1>2. CASE t >= e.last
  <2>1. PICK x : x = e.tokens + (t - e.last) * e.spec.rps
    OBVIOUS
  <2>2. x \in Nat
    <3>1. \A a, b \in Nat : a * b \in Nat
      OBVIOUS
    <3>2. t - e.last \in Nat
      BY <1>1, <1>2
    <3>3. (t - e.last) * e.spec.rps \in Nat
      BY <1>1, <3>1, <3>2
    <3> QED BY <1>1, <2>1, <3>3
  <2>3. PICK m : m = Min({x, Full(e.spec)})
    OBVIOUS
  <2>4. m \in Nat /\ m <= x /\ m <= Full(e.spec) /\ (m = x \/ m = Full(e.spec))
    BY <1>1, <2>2, <2>3, MinTwo
  <2>5. Refilled(e, t) = [e EXCEPT !.tokens = m, !.last = t]
    BY <1>2, <2>1, <2>3 DEF Refilled, Full
  <2> QED BY <1>1, <1>2, <2>1, <2>4, <2>5 DEF Refill, Entries
<1>3. CASE ~(t >= e.last)
  <2>1. Refilled(e, t) = e
    BY <1>3 DEF Refilled
  <2> QED BY <1>1, <1>3, <2>1 DEF Refill
<1> QED BY <1>2, <1>3

\* The bucket check_bucket decides on: a full one that was seeded or reset for
\* this check, or the one that was there with what time refilled.
Found(k, s, t, d) ==
  /\ Bucket(d) /\ d.spec = s /\ d.last_active_ms = t /\ t <= d.last
  /\ \/ /\ entries[k] = NoBucket \/ entries[k].spec # s
        /\ d.tokens = Full(s) /\ d.last = t
     \/ /\ entries[k] # NoBucket /\ entries[k].spec = s
        /\ d.last = IF t >= entries[k].last THEN t ELSE entries[k].last
        /\ d.tokens <= entries[k].tokens + (d.last - entries[k].last) * s.rps
        /\ \/ d.tokens = Full(s)
           \/ d.tokens = entries[k].tokens + (d.last - entries[k].last) * s.rps

LEMMA Checked ==
  ASSUME TypeOK, NEW k \in Keys, NEW s \in SpecsOf[k], NEW t \in 0..now,
         NEW d, d = Refilled(Entered(k, s, t), t)
  PROVE  Found(k, s, t, d)
<1>1. /\ s \in Specs /\ s.rps \in Nat /\ Full(s) \in Nat /\ now \in 0..MaxNow /\ MaxNow \in Nat
      /\ t \in 0..MaxNow
  BY SpecTypes, RateLimitConstants DEF TypeOK
<1>2. PICK e : e = Entered(k, s, t)
  OBVIOUS
<1>3. CASE entries[k] = NoBucket \/ entries[k].spec # s
  <2>1. e = [spec |-> s, last_active_ms |-> t, tokens |-> Full(s), last |-> 0]
    BY <1>2, <1>3 DEF Entered, Fresh, Full
  <2>2. e \in Entries /\ e.spec = s /\ e.last_active_ms = t /\ e.tokens = Full(s) /\ e.last = 0
    BY <1>1, <2>1 DEF Entries
  <2>3. /\ d \in Entries /\ d.spec = s /\ d.last_active_ms = t /\ d.last = t
        /\ d.tokens <= Full(s)
        /\ d.tokens = Full(s) \/ d.tokens = Full(s) + (t - 0) * s.rps
    <3>1. e.spec \in SpecsOf[k] /\ e.tokens <= Full(e.spec) /\ d = Refilled(e, t)
      BY <1>1, <1>2, <2>2
    <3>2. Refill(e, t, d)
      BY <1>1, <2>2, <3>1, RefilledBucket
    <3> QED BY <1>1, <2>2, <3>2 DEF Refill
  <2>4. d.tokens = Full(s)
    <3>1. \A a, b \in Nat : a * b \in Nat
      OBVIOUS
    <3>2. t * s.rps \in Nat /\ t - 0 = t
      BY <1>1, <3>1
    <3> QED BY <1>1, <2>3, <3>2
  <2> QED BY <1>1, <1>3, <2>3, <2>4 DEF Bucket, Found
<1>4. CASE ~(entries[k] = NoBucket \/ entries[k].spec # s)
  <2>1. e = [entries[k] EXCEPT !.last_active_ms = t]
    BY <1>2, <1>4 DEF Entered
  <2>2. Bucket(entries[k])
    BY <1>4, BucketOf
  <2>3. /\ e \in Entries /\ e.spec = s /\ e.last_active_ms = t /\ e.tokens = entries[k].tokens
        /\ e.last = entries[k].last /\ e.tokens <= Full(s) /\ e.last <= now
        /\ e.last \in 0..MaxNow
    BY <1>1, <1>4, <2>1, <2>2 DEF Bucket, Entries
  <2>4. /\ d \in Entries /\ d.spec = s /\ d.last_active_ms = t
        /\ d.last = IF t >= e.last THEN t ELSE e.last
        /\ d.tokens <= Full(s)
        /\ d.tokens <= e.tokens + (d.last - e.last) * s.rps
        /\ d.tokens = Full(s) \/ d.tokens = e.tokens + (d.last - e.last) * s.rps
    <3>1. e.spec \in SpecsOf[k] /\ e.tokens <= Full(e.spec) /\ d = Refilled(e, t)
      BY <1>2, <2>3
    <3>2. Refill(e, t, d)
      BY <1>1, <2>3, <3>1, RefilledBucket
    <3> QED BY <2>3, <3>2 DEF Refill
  <2>5. t <= d.last /\ d.last <= now
    BY <1>1, <2>3, <2>4
  <2> QED BY <1>4, <2>3, <2>4, <2>5 DEF Bucket, Found
<1> QED BY <1>3, <1>4

-----------------------------------------------------------------------------
(* ------------------------------ the types ------------------------------ *)

LEMMA TakenBucket ==
  ASSUME NEW d, Bucket(d), HasToken(d), NEW f, f = [d EXCEPT !.tokens = @ - Token]
  PROVE  /\ Bucket(f) /\ f.spec = d.spec /\ f.last = d.last /\ f.tokens = d.tokens - Token
         /\ f.last_active_ms = d.last_active_ms
<1>1. d.tokens \in Nat /\ Token \in Nat /\ d.tokens >= Token
  BY RateLimitConstants DEF Bucket, Entries, HasToken
<1>2. /\ f \in Entries /\ f.spec = d.spec /\ f.last = d.last /\ f.tokens = d.tokens - Token
      /\ f.last_active_ms = d.last_active_ms
  BY <1>1 DEF Bucket, Entries
<1>3. f.tokens <= Full(f.spec)
  <2>1. d.tokens <= Full(d.spec) /\ f.tokens <= d.tokens
    BY <1>1, <1>2 DEF Bucket
  <2>2. d.spec \in Specs
    BY DEF Bucket, Entries
  <2>3. Full(d.spec) \in Nat
    BY <2>2, SpecTypes DEF Specs
  <2> QED BY <1>1, <1>2, <2>1, <2>3
<1> QED BY <1>2, <1>3 DEF Bucket

\* A check writes a well-formed bucket; nothing else of the type can break.
LEMMA WriteType ==
  ASSUME TypeOK, NEW k \in Keys, NEW d, Bucket(d), entries' = [entries EXCEPT ![k] = d],
         UNCHANGED <<now, start>>, granted' \in [Keys -> Nat], promised' \in [Keys -> 0..NoPromise]
  PROVE  TypeOK'
<1>1. entries' \in [Keys -> Entries \cup {NoBucket}]
  BY DEF TypeOK, Bucket
<1>2. \A j \in Keys : entries'[j] # NoBucket =>
        entries'[j].tokens <= entries'[j].spec.burst * Token /\ entries'[j].last <= now
  BY DEF TypeOK, Bucket, Full
<1> QED BY <1>1, <1>2 DEF TypeOK

LEMMA Times ==
  ASSUME TypeOK, NEW t \in SaturatingSub(now, Lag)..now
  PROVE  t \in 0..now /\ now \in 0..MaxNow /\ now <= t + Lag
  BY RateLimitConstants DEF TypeOK, SaturatingSub

LEMMA NoPromiseIsLate ==
  ASSUME TypeOK, NEW k \in Keys, NEW s \in SpecsOf[k]
  PROVE  /\ NoPromise \in Nat /\ now < NoPromise
         /\ now + retry_after(s) \in 0..NoPromise /\ now + retry_after(s) # NoPromise
  BY RetryAfterEnough, RateLimitConstants DEF TypeOK, NoPromise

LEMMA AllowType ==
  ASSUME TypeOK, NEW k \in Keys, NEW s \in SpecsOf[k], NEW t \in 0..now, Allow(k, s, t)
  PROVE  TypeOK'
<1>1. PICK d : d = Refilled(Entered(k, s, t), t)
  OBVIOUS
<1>2. PICK f : f = [d EXCEPT !.tokens = @ - Token]
  OBVIOUS
<1>3. Bucket(d) /\ HasToken(d)
  BY <1>1, Checked DEF Allow, Found
<1>4. Bucket(f)
  BY <1>2, <1>3, TakenBucket
<1>5. granted' \in [Keys -> Nat] /\ promised' \in [Keys -> 0..NoPromise]
  BY RateLimitConstants DEF Allow, TypeOK, NoPromise
<1>6. entries' = [entries EXCEPT ![k] = f] /\ UNCHANGED <<now, start>>
  BY <1>1, <1>2 DEF Allow
<1> QED BY <1>4, <1>5, <1>6, WriteType

LEMMA DenyType ==
  ASSUME TypeOK, NEW k \in Keys, NEW s \in SpecsOf[k], NEW t \in 0..now, Deny(k, s, t)
  PROVE  TypeOK'
<1>1. PICK d : d = Refilled(Entered(k, s, t), t)
  OBVIOUS
<1>2. Bucket(d)
  BY <1>1, Checked DEF Found
<1>3. promised' \in [Keys -> 0..NoPromise]
  <2>1. promised[k] \in 0..NoPromise /\ now + retry_after(s) \in 0..NoPromise
    BY NoPromiseIsLate DEF TypeOK
  <2>2. Min({promised[k], now + retry_after(s)}) \in 0..NoPromise
    BY <2>1, MinTwo
  <2> QED BY <2>2 DEF Deny, TypeOK
<1>4. entries' = [entries EXCEPT ![k] = d] /\ UNCHANGED <<now, start, granted>>
  BY <1>1 DEF Deny
<1> QED BY <1>2, <1>3, <1>4, WriteType DEF TypeOK

LEMMA NextType == TypeOK /\ [Next]_vars => TypeOK'
<1> SUFFICES ASSUME TypeOK, [Next]_vars PROVE TypeOK'
  OBVIOUS
<1>1. CASE Check
  BY <1>1, Times, AllowType, DenyType DEF Check
<1>2. CASE Evict
  BY <1>2 DEF Evict, TypeOK
<1>3. CASE Tick
  <2>1. now' \in 0..MaxNow /\ start' \in 0..now' /\ now < now'
    BY <1>3, RateLimitConstants DEF Tick, TypeOK
  <2>2. \A k \in Keys : entries[k] # NoBucket => entries[k].last <= now'
    BY <2>1, RateLimitConstants DEF TypeOK, Entries
  <2> QED BY <1>3, <2>1, <2>2 DEF Tick, TypeOK
<1>4. CASE Observe
  BY <1>4, RateLimitConstants DEF Observe, TypeOK
<1>5. CASE UNCHANGED vars
  BY <1>5 DEF vars, TypeOK
<1> QED BY <1>1, <1>2, <1>3, <1>4, <1>5 DEF Next

LEMMA InitType == Init => TypeOK
  BY RateLimitConstants DEF Init, TypeOK, NoPromise

\* No check, eviction or out-of-order clock value takes a bucket below zero or
\* above its burst.
THEOREM BucketsWellFormed == Spec => []TypeOK
  BY InitType, NextType, PTL DEF Spec

-----------------------------------------------------------------------------
(* ------------------------------ Retry-After ---------------------------- *)

LEMMA Mul ==
  /\ \A a \in Nat, x, y \in Int : x <= y => x * a <= y * a
  /\ \A a, x, y \in Int : x * a + y * a = (x + y) * a /\ x * a \in Int
  OBVIOUS

\* At the earliest promised time the bucket will hold a token, seen from its
\* last refill: the product may be negative when that refill came later.
RetryInv ==
  \A k \in Keys : entries[k] # NoBucket /\ promised[k] # NoPromise =>
    Token <= entries[k].tokens + (promised[k] - entries[k].last) * entries[k].spec.rps

LEMMA InvHonest ==
  ASSUME TypeOK, RetryInv
  PROVE  RetryAfterHonest
<1> SUFFICES ASSUME NEW k \in Keys, NEW s \in SpecsOf[k], NEW t \in SaturatingSub(now, Lag)..now,
                    t >= promised[k], NEW d, d = Refilled(Entered(k, s, t), t)
             PROVE  HasToken(d)
  BY DEF RetryAfterHonest
<1>1. t \in 0..now /\ now \in 0..MaxNow
  BY Times
<1>2. promised[k] # NoPromise /\ promised[k] \in Nat
  BY <1>1, NoPromiseIsLate DEF TypeOK
<1>3. Found(k, s, t, d)
  BY <1>1, Checked
<1>4. Full(s) \in Nat /\ Token <= Full(s) /\ s.rps \in Nat /\ Token \in Nat
  BY SpecTypes, RateLimitConstants
<1>5. CASE d.tokens = Full(s)
  BY <1>4, <1>5 DEF HasToken
<1>6. CASE d.tokens # Full(s)
  <2>1. /\ entries[k] # NoBucket /\ entries[k].spec = s /\ t <= d.last
        /\ d.tokens = entries[k].tokens + (d.last - entries[k].last) * s.rps
    BY <1>3, <1>6 DEF Found
  <2>2. /\ d.last \in Nat /\ d.tokens \in Nat
        /\ entries[k].last \in Nat /\ entries[k].tokens \in Nat
    BY <1>3, <2>1, RateLimitConstants DEF Found, Bucket, Entries, TypeOK
  <2>3. Token <= entries[k].tokens + (promised[k] - entries[k].last) * s.rps
    BY <1>2, <2>1 DEF RetryInv
  <2>4. promised[k] - entries[k].last <= d.last - entries[k].last
    BY <1>1, <1>2, <2>1, <2>2
  <2>5. (promised[k] - entries[k].last) * s.rps <= (d.last - entries[k].last) * s.rps
    BY <1>2, <1>4, <2>2, <2>4, Mul
  <2>6. Token <= d.tokens
    BY <1>2, <1>4, <2>1, <2>2, <2>3, <2>5, Mul
  <2> QED BY <1>4, <2>2, <2>6 DEF HasToken
<1> QED BY <1>5, <1>6

LEMMA DenyRetry ==
  ASSUME TypeOK, RetryInv, NEW k \in Keys, NEW s \in SpecsOf[k], NEW t \in 0..now, Deny(k, s, t)
  PROVE  RetryInv'
<1>1. PICK d, p : /\ d = Refilled(Entered(k, s, t), t)
                  /\ p = Min({promised[k], now + retry_after(s)})
  OBVIOUS
<1>2. /\ ~HasToken(d) /\ entries' = [entries EXCEPT ![k] = d]
      /\ promised' = [promised EXCEPT ![k] = p]
  BY <1>1 DEF Deny
<1>3. Found(k, s, t, d)
  BY <1>1, Checked
<1>4. /\ Full(s) \in Nat /\ Token <= Full(s) /\ s.rps \in Nat /\ Token \in Nat /\ now \in Nat
      /\ retry_after(s) \in Nat /\ Token <= retry_after(s) * s.rps /\ promised[k] \in Nat
  BY SpecTypes, RetryAfterEnough, RateLimitConstants DEF TypeOK
<1>5. /\ d.last \in Nat /\ d.tokens \in Nat /\ d.spec = s /\ d.last <= now
  BY <1>3 DEF Found, Bucket, Entries
<1>6. /\ entries[k] # NoBucket /\ entries[k].spec = s
      /\ d.tokens = entries[k].tokens + (d.last - entries[k].last) * s.rps
  <2>1. d.tokens # Full(s)
    BY <1>2, <1>4, <1>5 DEF HasToken
  <2> QED BY <1>3, <2>1 DEF Found
<1>7. entries[k].last \in Nat /\ entries[k].tokens \in Nat
  BY <1>6, RateLimitConstants DEF Entries, TypeOK
<1>8. Token <= d.tokens + (p - d.last) * s.rps
  <2>1. p \in Nat /\ ((p = promised[k] /\ p # NoPromise) \/ p = now + retry_after(s))
    <3>1. /\ promised[k] \in 0..NoPromise /\ now + retry_after(s) \in 0..NoPromise
          /\ now + retry_after(s) # NoPromise
      BY NoPromiseIsLate DEF TypeOK
    <3>2. p = IF promised[k] <= now + retry_after(s) THEN promised[k] ELSE now + retry_after(s)
      BY <1>1, <1>4, MinTwo
    <3> QED BY <1>4, <3>1, <3>2
  <2>2. CASE p = now + retry_after(s)
    <3>1. retry_after(s) <= p - d.last
      BY <1>4, <1>5, <2>2
    <3>2. retry_after(s) * s.rps <= (p - d.last) * s.rps
      BY <1>4, <1>5, <2>1, <3>1, Mul
    <3>3. p - d.last \in Int /\ retry_after(s) \in Int /\ s.rps \in Int
      BY <1>4, <1>5, <2>1
    <3>4. (p - d.last) * s.rps \in Int /\ retry_after(s) * s.rps \in Int
      BY <3>3
    <3> QED BY <1>4, <1>5, <3>2, <3>4
  <2>3. CASE p = promised[k] /\ p # NoPromise
    <3>1. Token <= entries[k].tokens + (p - entries[k].last) * s.rps
      BY <1>6, <2>3 DEF RetryInv
    <3>2. (d.last - entries[k].last) * s.rps + (p - d.last) * s.rps = (p - entries[k].last) * s.rps
      <4>1. (d.last - entries[k].last) + (p - d.last) = p - entries[k].last
        BY <1>5, <1>7, <2>1
      <4>2. d.last - entries[k].last \in Int /\ p - d.last \in Int /\ s.rps \in Int
        BY <1>4, <1>5, <1>7, <2>1
      <4> QED BY <4>1, <4>2, Mul
    <3>3. /\ (d.last - entries[k].last) * s.rps \in Int /\ (p - d.last) * s.rps \in Int
      BY <1>4, <1>5, <1>7, <2>1, Mul
    <3> QED BY <1>4, <1>6, <1>7, <3>1, <3>2, <3>3
  <2> QED BY <2>1, <2>2, <2>3
<1> QED BY <1>2, <1>5, <1>8 DEF RetryInv, TypeOK

LEMMA NextRetry == TypeOK /\ RetryInv /\ [Next]_vars => RetryInv'
<1> SUFFICES ASSUME TypeOK, RetryInv, [Next]_vars PROVE RetryInv'
  OBVIOUS
<1>1. ASSUME NEW k \in Keys, NEW s \in SpecsOf[k], NEW t, Allow(k, s, t) PROVE RetryInv'
  <2>1. /\ promised' = [promised EXCEPT ![k] = NoPromise]
        /\ \E d : entries' = [entries EXCEPT ![k] = d]
    BY <1>1 DEF Allow
  <2> QED BY <2>1 DEF RetryInv, TypeOK
<1>2. CASE Evict
  BY <1>2 DEF Evict, RetryInv
<1>3. CASE Tick \/ Observe \/ UNCHANGED vars
  BY <1>3 DEF Tick, Observe, vars, RetryInv
<1> QED BY <1>1, <1>2, <1>3, Times, DenyRetry DEF Next, Check

\* Retry-After is honest for any specs, also those that change under a key: a key
\* that was denied and got nothing since is allowed once the delay is over.
THEOREM RetryAfterIsHonest == Spec => []RetryAfterHonest
<1>1. Init => RetryInv
  BY DEF Init, RetryInv
<1>2. TypeOK /\ RetryInv => RetryAfterHonest
  BY InvHonest
<1> QED BY <1>1, <1>2, InitType, NextType, NextRetry, PTL DEF Spec

-----------------------------------------------------------------------------
(* --------------------- what a window may be granted -------------------- *)

\* What was granted and what the bucket holds came from the burst and from the
\* refill up to its last one; without a bucket, the time since the window
\* started already pays for the grants, so the next bucket may start full.
WindowInv ==
  \A k \in Keys : \A s \in SpecsOf[k] :
    /\ entries[k] = NoBucket => granted[k] * Token <= (now - start) * s.rps
    /\ entries[k] # NoBucket =>
         /\ entries[k].spec = s
         /\ entries[k].last <= entries[k].last_active_ms + Lag
         /\ granted[k] > 0 =>
              /\ start <= entries[k].last + Lag
              /\ granted[k] * Token + entries[k].tokens
                   <= Full(s) + (entries[k].last + Lag - start) * s.rps

LEMMA Scalars ==
  ASSUME TypeOK, NEW k \in Keys, NEW s \in SpecsOf[k]
  PROVE  /\ Full(s) \in Nat /\ s.rps \in Nat /\ Token \in Nat /\ Lag \in Nat /\ Idle \in Nat
         /\ now \in Nat /\ start \in Nat /\ start <= now
         /\ granted[k] \in Nat /\ granted[k] * Token \in Nat
         /\ entries[k] # NoBucket =>
              /\ entries[k].last \in Nat /\ entries[k].tokens \in Nat
              /\ entries[k].last_active_ms \in Nat /\ entries[k].last <= now
<1>1. \A a, b \in Nat : a * b \in Nat
  OBVIOUS
<1> QED BY <1>1, SpecTypes, RateLimitConstants DEF TypeOK, Entries

\* The bucket a check decides on keeps the account.
LEMMA FoundPays ==
  ASSUME TypeOK, WindowInv, SteadySpecs, NEW k \in Keys, NEW s \in SpecsOf[k], NEW t \in 0..now,
         now <= t + Lag, NEW d, Found(k, s, t, d)
  PROVE  /\ d.last \in Nat /\ d.tokens \in Nat /\ d.spec = s /\ d.last <= d.last_active_ms + Lag
         /\ start <= d.last + Lag
         /\ granted[k] * Token + d.tokens <= Full(s) + (d.last + Lag - start) * s.rps
<1>1. /\ Full(s) \in Nat /\ s.rps \in Nat /\ Token \in Nat /\ Lag \in Nat
      /\ now \in Nat /\ start \in Nat /\ start <= now
      /\ granted[k] \in Nat /\ granted[k] * Token \in Nat
      /\ entries[k] # NoBucket => entries[k].last \in Nat /\ entries[k].tokens \in Nat
  BY Scalars
<1>2. /\ d.last \in Nat /\ d.tokens \in Nat /\ d.spec = s /\ d.last_active_ms = t /\ t <= d.last
      /\ d.last <= now /\ d.tokens <= Full(s)
  BY DEF Found, Bucket, Entries
<1>3. start <= d.last + Lag /\ d.last <= t + Lag
  BY <1>1, <1>2
<1>4. PICK x : x = d.last + Lag - start
  OBVIOUS
<1>5. x \in Nat /\ x * s.rps \in Nat
  <2>1. \A a, b \in Nat : a * b \in Nat
    OBVIOUS
  <2>2. x \in Nat
    BY <1>1, <1>2, <1>3, <1>4
  <2> QED BY <1>1, <2>1, <2>2
<1>6. granted[k] * Token + d.tokens <= Full(s) + x * s.rps
  <2>1. CASE entries[k] = NoBucket
    <3>1. granted[k] * Token <= (now - start) * s.rps
      BY <2>1 DEF WindowInv
    <3>2. now - start <= x
      BY <1>1, <1>2, <1>4
    <3>3. (now - start) * s.rps <= x * s.rps
      BY <1>1, <1>5, <3>2, Mul
    <3>4. (now - start) * s.rps \in Int
      BY <1>1, Mul
    <3> QED BY <1>1, <1>2, <1>5, <3>1, <3>3, <3>4
  <2>2. CASE entries[k] # NoBucket /\ granted[k] = 0
    <3>1. granted[k] * Token = 0
      BY <1>1, <2>2
    <3> QED BY <1>1, <1>2, <1>5, <3>1
  <2>3. CASE entries[k] # NoBucket /\ granted[k] # 0
    <3>1. /\ entries[k].spec = s /\ start <= entries[k].last + Lag
          /\ granted[k] * Token + entries[k].tokens
               <= Full(s) + (entries[k].last + Lag - start) * s.rps
      <4>1. granted[k] > 0
        BY <1>1, <2>3
      <4> QED BY <2>3, <4>1 DEF WindowInv
    <3>2. d.tokens <= entries[k].tokens + (d.last - entries[k].last) * s.rps
      BY <2>3, <3>1 DEF Found
    <3>3. (entries[k].last + Lag - start) * s.rps + (d.last - entries[k].last) * s.rps = x * s.rps
      <4>1. (entries[k].last + Lag - start) + (d.last - entries[k].last) = x
        BY <1>1, <1>2, <1>4, <2>3
      <4>2. entries[k].last + Lag - start \in Int /\ d.last - entries[k].last \in Int /\ s.rps \in Int
        BY <1>1, <1>2, <2>3
      <4> QED BY <4>1, <4>2, Mul
    <3>4. /\ (entries[k].last + Lag - start) * s.rps \in Int
          /\ (d.last - entries[k].last) * s.rps \in Int
      BY <1>1, <1>2, <2>3, Mul
    <3> QED BY <1>1, <1>2, <1>5, <2>3, <3>1, <3>2, <3>3, <3>4
  <2> QED BY <2>1, <2>2, <2>3
<1> QED BY <1>2, <1>3, <1>4, <1>6

\* A check leaves a bucket that accounts for one grant more, or for none.
LEMMA PaidWrite ==
  ASSUME TypeOK, WindowInv, SteadySpecs, NEW k \in Keys, NEW s \in SpecsOf[k],
         NEW d, NEW g \in Nat, d # NoBucket, d.spec = s, d.last <= d.last_active_ms + Lag,
         start <= d.last + Lag,
         g * Token + d.tokens <= Full(s) + (d.last + Lag - start) * s.rps,
         entries' = [entries EXCEPT ![k] = d], granted' = [granted EXCEPT ![k] = g],
         UNCHANGED <<now, start>>
  PROVE  WindowInv'
<1> SUFFICES ASSUME NEW j \in Keys, NEW u \in SpecsOf[j]
             PROVE  (/\ entries[j] = NoBucket => granted[j] * Token <= (now - start) * u.rps
                     /\ entries[j] # NoBucket =>
                          /\ entries[j].spec = u
                          /\ entries[j].last <= entries[j].last_active_ms + Lag
                          /\ granted[j] > 0 =>
                               /\ start <= entries[j].last + Lag
                               /\ granted[j] * Token + entries[j].tokens
                                    <= Full(u) + (entries[j].last + Lag - start) * u.rps)'
  BY DEF WindowInv, Full
<1>1. CASE j = k
  <2>1. u = s
    BY <1>1 DEF SteadySpecs
  <2>2. entries'[j] = d /\ granted'[j] = g
    BY <1>1 DEF TypeOK
  <2> QED BY <2>1, <2>2 DEF Full
<1>2. CASE j # k
  <2>1. entries'[j] = entries[j] /\ granted'[j] = granted[j]
    BY <1>2 DEF TypeOK
  <2> QED BY <2>1 DEF WindowInv, Full
<1> QED BY <1>1, <1>2

LEMMA CheckWindow ==
  ASSUME TypeOK, WindowInv, SteadySpecs, Check
  PROVE  WindowInv'
<1>1. PICK k \in Keys : \E s \in SpecsOf[k] : \E t \in SaturatingSub(now, Lag)..now :
        Allow(k, s, t) \/ Deny(k, s, t)
  BY DEF Check
<1>2. PICK s \in SpecsOf[k], t \in SaturatingSub(now, Lag)..now : Allow(k, s, t) \/ Deny(k, s, t)
  BY <1>1
<1>3. t \in 0..now /\ now <= t + Lag
  BY Times
<1>4. PICK d : d = Refilled(Entered(k, s, t), t)
  OBVIOUS
<1>5. Found(k, s, t, d)
  BY <1>3, <1>4, Checked
<1>6. /\ d.last \in Nat /\ d.tokens \in Nat /\ d.spec = s /\ d.last <= d.last_active_ms + Lag
      /\ start <= d.last + Lag
      /\ granted[k] * Token + d.tokens <= Full(s) + (d.last + Lag - start) * s.rps
  BY <1>3, <1>5, FoundPays
<1>7. Bucket(d) /\ granted[k] \in Nat /\ Token \in Nat
  BY <1>5, RateLimitConstants DEF Found, TypeOK
<1>8. CASE Deny(k, s, t)
  <2>1. entries' = [entries EXCEPT ![k] = d] /\ UNCHANGED <<now, start, granted>>
    BY <1>4, <1>8 DEF Deny
  <2>2. granted' = [granted EXCEPT ![k] = granted[k]]
    BY <2>1 DEF TypeOK
  <2>3. d # NoBucket
    BY <1>7, RateLimitConstants DEF Bucket
  <2>4. PICK g \in Nat : g = granted[k]
    BY <1>7
  <2> QED BY <1>6, <2>1, <2>2, <2>3, <2>4, PaidWrite
<1>9. CASE Allow(k, s, t)
  <2>1. PICK f : f = [d EXCEPT !.tokens = @ - Token]
    OBVIOUS
  <2>2. HasToken(d) /\ entries' = [entries EXCEPT ![k] = f]
    BY <1>4, <1>9, <2>1 DEF Allow
  <2>3. PICK g \in Nat : g = granted[k] + 1
    BY <1>7
  <2>4. granted' = [granted EXCEPT ![k] = g] /\ UNCHANGED <<now, start>>
    BY <1>9, <2>3 DEF Allow
  <2>5. /\ Bucket(f) /\ f.spec = s /\ f.last = d.last /\ f.tokens = d.tokens - Token
        /\ f.last_active_ms = d.last_active_ms
    BY <1>6, <1>7, <2>1, <2>2, TakenBucket
  <2>6. g * Token + f.tokens = granted[k] * Token + d.tokens
    BY <1>6, <1>7, <2>3, <2>5
  <2>7. f # NoBucket
    BY <2>5, RateLimitConstants DEF Bucket
  <2>8. g * Token + f.tokens <= Full(s) + (f.last + Lag - start) * s.rps
    BY <1>6, <2>5, <2>6
  <2>9. f.last <= f.last_active_ms + Lag /\ start <= f.last + Lag
    BY <1>6, <2>5
  <2> QED BY <2>2, <2>4, <2>5, <2>7, <2>8, <2>9, PaidWrite
<1> QED BY <1>2, <1>8, <1>9

\* An idle bucket may go: by now the rate has paid for all it was granted.
LEMMA EvictWindow ==
  ASSUME TypeOK, WindowInv, SteadySpecs, Evict
  PROVE  WindowInv'
<1> SUFFICES ASSUME NEW k \in Keys, NEW s \in SpecsOf[k], entries[k] # NoBucket, IsIdle(entries[k])
             PROVE  granted[k] * Token <= (now - start) * s.rps
  <2>1. \A k \in Keys : \/ entries'[k] = entries[k]
                        \/ entries'[k] = NoBucket /\ entries[k] # NoBucket /\ IsIdle(entries[k])
    BY DEF Evict
  <2>2. UNCHANGED <<now, start, granted>>
    BY DEF Evict
  <2> QED BY <2>1, <2>2 DEF WindowInv, Full
<1>1. /\ Full(s) \in Nat /\ s.rps \in Nat /\ Token \in Nat /\ Lag \in Nat /\ Idle \in Nat
      /\ now \in Nat /\ start \in Nat /\ start <= now
      /\ granted[k] \in Nat /\ granted[k] * Token \in Nat
      /\ entries[k].last \in Nat /\ entries[k].tokens \in Nat /\ entries[k].last_active_ms \in Nat
  BY Scalars
<1>2. CASE granted[k] = 0
  <2>1. \A a, b \in Nat : a * b \in Nat
    OBVIOUS
  <2>2. (now - start) * s.rps \in Nat
    BY <1>1, <2>1
  <2> QED BY <1>1, <1>2, <2>2
<1>3. CASE granted[k] # 0
  <2>1. entries[k].last_active_ms + Idle + 1 <= now
    BY <1>1 DEF IsIdle, SaturatingSub
  <2>2. /\ entries[k].last <= entries[k].last_active_ms + Lag
        /\ granted[k] * Token + entries[k].tokens
             <= Full(s) + (entries[k].last + Lag - start) * s.rps
    BY <1>1, <1>3 DEF WindowInv
  <2>3. Full(s) <= (Idle + 1 - 2 * Lag) * s.rps
    BY DEF SteadySpecs, Full
  <2>4. PICK x, y \in Int : x = Idle + 1 - 2 * Lag /\ y = entries[k].last + Lag - start
    BY <1>1
  <2>5. x + y <= now - start
    BY <1>1, <2>1, <2>2, <2>4
  <2>6. x * s.rps + y * s.rps = (x + y) * s.rps /\ x * s.rps \in Int /\ y * s.rps \in Int
    BY <1>1, <2>4, Mul
  <2>7. (x + y) * s.rps <= (now - start) * s.rps
    <3>1. s.rps \in Nat /\ x + y \in Int /\ now - start \in Int
      BY <1>1, <2>4
    <3> QED BY <2>5, <3>1, Mul
  <2>8. (now - start) * s.rps \in Int
    BY <1>1, Mul
  <2> QED BY <1>1, <2>2, <2>3, <2>4, <2>6, <2>7, <2>8
<1> QED BY <1>2, <1>3

LEMMA NextWindow ==
  ASSUME TypeOK, WindowInv, SteadySpecs, [Next]_vars
  PROVE  WindowInv'
<1>1. CASE Tick
  <2> SUFFICES ASSUME NEW k \in Keys, NEW s \in SpecsOf[k], entries[k] = NoBucket
               PROVE  granted[k] * Token <= (now' - start) * s.rps
    BY <1>1 DEF Tick, WindowInv, Full
  <2>1. now' \in Nat /\ start \in Nat /\ now \in Nat /\ now - start <= now' - start /\ s.rps \in Nat
        /\ granted[k] * Token \in Nat
    BY <1>1, Scalars DEF Tick
  <2>2. (now - start) * s.rps <= (now' - start) * s.rps
    <3>1. s.rps \in Nat /\ now - start \in Int /\ now' - start \in Int
      BY <2>1
    <3> QED BY <2>1, <3>1, Mul
  <2>3. granted[k] * Token <= (now - start) * s.rps
    BY DEF WindowInv
  <2>4. (now - start) * s.rps \in Int /\ (now' - start) * s.rps \in Int
    BY <2>1, Mul
  <2> QED BY <2>1, <2>2, <2>3, <2>4
<1>2. CASE Observe
  <2>1. /\ UNCHANGED <<entries, now>> /\ start' = now
        /\ \A k \in Keys : granted'[k] = 0
    BY <1>2 DEF Observe
  <2>2. ASSUME NEW k \in Keys, NEW s \in SpecsOf[k] PROVE 0 * Token <= (now - now) * s.rps
    BY Scalars
  <2> QED BY <2>1, <2>2 DEF WindowInv
<1>3. CASE UNCHANGED vars
  BY <1>3 DEF vars, WindowInv, Full
<1> QED BY <1>1, <1>2, <1>3, CheckWindow, EvictWindow DEF Next

LEMMA InvBound ==
  ASSUME TypeOK, WindowInv, SteadySpecs
  PROVE  WindowBound
<1> SUFFICES ASSUME NEW k \in Keys
             PROVE  granted[k] * Token <= MaxBurst(k) * Token + MaxRps(k) * (now - start + Lag)
  BY DEF WindowBound
<1>1. PICK s : SpecsOf[k] = {s}
  BY DEF SteadySpecs
<1>2. /\ Full(s) \in Nat /\ s.rps \in Nat /\ Token \in Nat /\ Lag \in Nat /\ s.burst \in Nat
      /\ now \in Nat /\ start \in Nat /\ start <= now
      /\ granted[k] \in Nat /\ granted[k] * Token \in Nat
      /\ entries[k] # NoBucket =>
           entries[k].last \in Nat /\ entries[k].tokens \in Nat /\ entries[k].last <= now
  <2>1. s \in SpecsOf[k]
    BY <1>1
  <2> QED BY <2>1, Scalars, SpecTypes
<1>3. MaxBurst(k) = s.burst /\ MaxRps(k) = s.rps
  <2>1. {u.burst : u \in SpecsOf[k]} = {s.burst, s.burst} /\ {u.rps : u \in SpecsOf[k]} = {s.rps, s.rps}
    BY <1>1
  <2>2. Max({s.burst, s.burst}) = s.burst /\ Max({s.rps, s.rps}) = s.rps
    BY <1>2, MaxTwo
  <2> QED BY <2>1, <2>2 DEF MaxBurst, MaxRps
<1>4. PICK x \in Nat : x = now - start + Lag
  BY <1>2
<1>5. x * s.rps \in Nat
  <2>1. \A a, b \in Nat : a * b \in Nat
    OBVIOUS
  <2> QED BY <1>2, <2>1
<1>6. granted[k] * Token <= Full(s) + x * s.rps
  <2>1. CASE granted[k] = 0
    BY <1>2, <1>5, <2>1
  <2>2. CASE entries[k] = NoBucket
    <3>1. granted[k] * Token <= (now - start) * s.rps
      BY <1>1, <2>2 DEF WindowInv
    <3>2. (now - start) * s.rps <= x * s.rps /\ (now - start) * s.rps \in Int
      BY <1>2, <1>4, Mul
    <3> QED BY <1>2, <1>5, <3>1, <3>2
  <2>3. CASE granted[k] # 0 /\ entries[k] # NoBucket
    <3>1. granted[k] * Token + entries[k].tokens
            <= Full(s) + (entries[k].last + Lag - start) * s.rps
      BY <1>1, <1>2, <2>3 DEF WindowInv
    <3>2. entries[k].last + Lag - start <= x
      BY <1>2, <1>4, <2>3
    <3>3. /\ (entries[k].last + Lag - start) * s.rps <= x * s.rps
          /\ (entries[k].last + Lag - start) * s.rps \in Int
      BY <1>2, <1>4, <2>3, <3>2, Mul
    <3> QED BY <1>2, <1>5, <2>3, <3>1, <3>3
  <2> QED BY <2>1, <2>2, <2>3
<1>7. x * s.rps = s.rps * x
  BY <1>2
<1> QED BY <1>3, <1>4, <1>6, <1>7 DEF Full

\* In every window of time a key is granted at most its burst plus what its rate
\* refills, for any keys, rates and interleavings of checks that carry old times,
\* through evictions and reseeds.
THEOREM WindowIsBounded ==
  ASSUME SteadySpecs PROVE Spec => []WindowBound
<1>1. Init => WindowInv
  <2> SUFFICES ASSUME Init, NEW k \in Keys, NEW s \in SpecsOf[k]
               PROVE  0 * Token <= (0 - 0) * s.rps
    BY DEF Init, WindowInv
  <2> QED BY SpecTypes, RateLimitConstants
<1>2. TypeOK /\ WindowInv /\ [Next]_vars => WindowInv'
  BY NextWindow
<1>3. TypeOK /\ WindowInv => WindowBound
  BY InvBound
<1> QED BY <1>1, <1>2, <1>3, InitType, NextType, PTL DEF Spec

-----------------------------------------------------------------------------
(* --------------------------- weighted round robin ---------------------- *)

-----------------------------------------------------------------------------
(* ------------------------------ finite sets ---------------------------- *)

LEMMA ImageFinite ==
  ASSUME NEW S, IsFiniteSet(S), NEW f
  PROVE  IsFiniteSet({f[x] : x \in S})
<1> DEFINE T == {f[x] : x \in S}
           h == [x \in S |-> f[x]]
<1>1. h \in Surjection(S, T)
  BY DEF Surjection
<1> HIDE DEF h, T
<1>2. IsFiniteSet(T)
  BY <1>1, FS_Surjection
<1> QED BY <1>2 DEF T

LEMMA MaxOfFinite ==
  ASSUME NEW S, IsFiniteSet(S), \A x \in S : x \in Int, S # {}
  PROVE  Max(S) \in S /\ \A y \in S : y <= Max(S)
<1> DEFINE Above(x) == {y \in S : y > x}
           T == {Above(x) : x \in S}
<1>1. T \subseteq SUBSET S /\ T # {}
  OBVIOUS
<1>2. PICK A \in T : \A B \in T : ~(B \subseteq A /\ B # A)
  <2>1. PICK V : V = T
    OBVIOUS
  <2>2. V \subseteq SUBSET S /\ V # {}
    BY <1>1, <2>1
  <2>3. \E x \in V : \A y \in V : ~(y \subseteq x /\ y # x)
    BY <2>2, MinimalSubset
  <2> HIDE DEF T
  <2> QED BY <2>1, <2>3
<1>3. PICK x \in S : A = Above(x)
  BY <1>2
<1>4. \A y \in S : ~(y > x)
  <2> SUFFICES ASSUME NEW y \in S, y > x PROVE FALSE
    OBVIOUS
  <2>1. Above(y) \in T
    OBVIOUS
  <2>2. Above(y) \subseteq A /\ y \in A /\ y \notin Above(y)
    <3>1. \A z \in S : z > y => z > x
      OBVIOUS
    <3>2. ~(y > y)
      OBVIOUS
    <3> QED BY <1>3, <3>1, <3>2, Zenon
  <2>3. Above(y) # A
    BY <2>2
  <2> HIDE DEF Above, T
  <2> QED BY <1>2, <2>1, <2>3, <2>2
<1>5. \E m \in S : \A y \in S : m >= y
  BY <1>4
<1> QED BY <1>5 DEF Max

-----------------------------------------------------------------------------
(* -------------------------- one round, abstractly ---------------------- *)

\* Integers that sum to more than zero are not all zero or less.
LEMMA SomePositive ==
  ASSUME NEW D, IsFiniteSet(D), NEW f, \A d \in D : f[d] \in Int, Sum(f, D) > 0
  PROVE  \E d \in D : f[d] > 0
<1> SUFFICES ASSUME \A d \in D : ~(f[d] > 0) PROVE FALSE
  OBVIOUS
<1> DEFINE n == [d \in D |-> -f[d]]
           z == [d \in D |-> 0]
<1>1. Sum(n, D) \in Nat
  <2>1. \A d \in D : n[d] \in Nat
    OBVIOUS
  <2> HIDE DEF n
  <2> QED BY <2>1, SumNat
<1>2. Sum(z, D) = Sum(f, D) + Sum(n, D)
  <2>1. \A d \in D : f[d] \in Int /\ n[d] \in Int /\ z[d] = f[d] + n[d]
    OBVIOUS
  <2> HIDE DEF n, z
  <2> QED BY <2>1, SumPlus
<1>3. Sum(z, D) = 0
  <2>1. \A d \in D : z[d] = 0
    OBVIOUS
  <2> HIDE DEF z
  <2> QED BY <2>1, SumZero
<1>4. Sum(f, D) \in Int
  BY SumType
<1> HIDE DEF n, z
<1> QED BY <1>1, <1>2, <1>3, <1>4

\* Every weight advances by its share, the largest one pays the sum of them.
Round(D, cur, share, nxt, p, tot, top) ==
  /\ p \in D /\ tot \in Nat \ {0} /\ top \in Nat /\ tot <= top
  /\ \A d \in D : cur[d] \in Int /\ -top < cur[d] /\ share[d] \in Nat
  /\ \A d \in D : nxt[d] = cur[d] + share[d] - (IF d = p THEN tot ELSE 0)
  /\ \A d \in D : cur[d] + share[d] <= cur[p] + share[p]
  /\ Sum(cur, D) = 0 /\ Sum(share, D) = tot

LEMMA RoundKeepsBalance ==
  ASSUME NEW D, IsFiniteSet(D), NEW cur, NEW share, NEW nxt, NEW p, NEW tot, NEW top,
         Round(D, cur, share, nxt, p, tot, top)
  PROVE  Sum(nxt, D) = 0 /\ \A d \in D : nxt[d] \in Int /\ -top < nxt[d]
<1> USE DEF Round
<1> DEFINE adv == [d \in D |-> cur[d] + share[d]]
<1>1. \A d \in D : /\ cur[d] \in Int /\ share[d] \in Int /\ adv[d] = cur[d] + share[d]
                   /\ adv[d] \in Int /\ nxt[d] \in Int
                   /\ adv[d] <= adv[p]
                   /\ nxt[d] = IF d = p THEN adv[d] - tot ELSE adv[d]
  OBVIOUS
<1> HIDE DEF adv
<1>2. Sum(adv, D) = tot
  <2>1. Sum(adv, D) = Sum(cur, D) + Sum(share, D)
    <3>1. \A d \in D : cur[d] \in Int /\ share[d] \in Int /\ adv[d] = cur[d] + share[d]
      BY <1>1
    <3> QED BY <3>1, SumPlus
  <2> QED BY <2>1
<1>3. adv[p] > 0
  <2>1. PICK d \in D : adv[d] > 0
    <3>1. Sum(adv, D) > 0 /\ \A d \in D : adv[d] \in Int
      BY <1>1, <1>2
    <3> QED BY <3>1, SomePositive
  <2> QED BY <1>1, <2>1
<1>4. Sum(nxt, D) = Sum(adv, D) + nxt[p] - adv[p]
  BY <1>1, SumExcept
<1>5. Sum(nxt, D) = 0
  BY <1>1, <1>2, <1>4
<1>6. \A d \in D : -top < nxt[d]
  BY <1>1, <1>3
<1> QED BY <1>1, <1>5, <1>6

\* Nobody's credit exceeds what the others may owe.
LEMMA CreditBounded ==
  ASSUME NEW D, IsFiniteSet(D), NEW f, Sum(f, D) = 0,
         NEW top \in Nat \ {0}, \A d \in D : f[d] \in Int /\ -top < f[d], NEW a \in D
  PROVE  /\ f[a] <= (Cardinality(D) - 1) * (top - 1)
         /\ f[a] < (Cardinality(D) - 1) * top + 1
<1> DEFINE U == D \ {a}
<1>1. /\ IsFiniteSet(U) /\ Cardinality(U) = Cardinality(D) - 1
      /\ Cardinality(U) \in Nat /\ Cardinality(D) \in Nat
  BY FS_RemoveElement, FS_CardinalityType
<1>2. Sum(f, D) = f[a] + Sum(f, U) /\ Sum(f, U) \in Int
  BY <1>1, SumRemove, SumType
<1> HIDE DEF U
<1>3. -((top - 1) * Cardinality(U)) <= Sum(f, U)
  <2>1. \A d \in U : f[d] \in Int /\ -(top - 1) <= f[d]
    BY DEF U
  <2> QED BY <1>1, <2>1, SumAtLeast
<1>4. \A n, m \in Nat : (m - 1) * n = n * (m - 1) /\ n * (m - 1) = n * m - n /\ n * m \in Nat
  OBVIOUS
<1>5. /\ (top - 1) * Cardinality(U) = Cardinality(U) * (top - 1)
      /\ Cardinality(U) * (top - 1) = Cardinality(U) * top - Cardinality(U)
      /\ Cardinality(U) * top \in Nat
  BY <1>1, <1>4
<1>6. f[a] <= Cardinality(U) * (top - 1) /\ f[a] < Cardinality(U) * top + 1
  BY <1>1, <1>2, <1>3, <1>5
<1> QED BY <1>1, <1>6

\* Multiples of the total that sum to zero, none as low as minus the total.
LEMMA CycleEndsAtZero ==
  ASSUME NEW D, IsFiniteSet(D), NEW f, Sum(f, D) = 0, NEW tot \in Nat \ {0},
         \A d \in D : -tot < f[d] /\ \E k \in Int : f[d] = tot * k
  PROVE  \A d \in D : f[d] = 0
<1>1. \A k \in Int : -tot < tot * k => tot * k \in Nat
  <2> SUFFICES ASSUME NEW k \in Int, -tot < tot * k PROVE tot * k \in Nat
    OBVIOUS
  <2>1. ~(k <= -1)
    <3> SUFFICES ASSUME k <= -1 PROVE FALSE
      OBVIOUS
    <3>1. PICK j \in Nat : k = -1 - j
      <4>1. -1 - k \in Nat /\ k = -1 - (-1 - k)
        OBVIOUS
      <4> QED BY <4>1
    <3>2. \A a, b \in Nat : a * b \in Nat /\ a * (-1 - b) = -a - a * b
      OBVIOUS
    <3>3. tot * j \in Nat /\ tot * k = -tot - tot * j
      BY <3>1, <3>2
    <3> QED BY <3>3
  <2>2. \A a, b \in Nat : a * b \in Nat
    OBVIOUS
  <2> QED BY <2>1, <2>2
<1>2. \A d \in D : f[d] \in Nat
  BY <1>1
<1>3. \A d \in D : f[d] <= 0
  BY <1>2, SumBounds
<1> QED BY <1>2, <1>3

-----------------------------------------------------------------------------
(* -------------------------- routes and groups -------------------------- *)

Shares(cs) == [d \in Ids(cs) |-> Share(cs, d)]

\* What sanitize leaves of a route's candidates.
Candidates(cs) ==
  /\ Len(cs) \in Nat \ {0} /\ DOMAIN cs = 1..Len(cs)
  /\ \A i \in DOMAIN cs : cs[i].weight \in Nat

LEMMA RouteCandidates ==
  ASSUME NEW r \in Routes
  PROVE  Candidates(r.candidates)
<1> DEFINE cs == r.candidates
<1>1. cs \in Seq(Range(cs)) /\ Len(cs) > 0 /\ \A c \in Range(cs) : c.weight \in Nat
  BY SanitizedTables
<1>2. Len(cs) \in Nat /\ DOMAIN cs = 1..Len(cs)
  BY <1>1
<1>3. \A i \in DOMAIN cs : cs[i] \in Range(cs)
  BY DEF Range
<1> HIDE DEF cs
<1>4. Candidates(cs)
  BY <1>1, <1>2, <1>3 DEF Candidates
<1> QED BY <1>4 DEF cs

LEMMA CandidateFacts ==
  ASSUME NEW cs, Candidates(cs)
  PROVE  /\ IsFiniteSet(DOMAIN cs) /\ IsFiniteSet(Ids(cs)) /\ Ids(cs) # {}
         /\ Total(cs) \in Nat /\ \A d \in Ids(cs) : Share(cs, d) \in Nat
         /\ Sum(Shares(cs), Ids(cs)) = Total(cs)
<1> DEFINE w == Weights(cs)
           c == [i \in DOMAIN cs |-> cs[i].id]
           In(d) == {i \in DOMAIN cs : cs[i].id = d}
<1>1. IsFiniteSet(DOMAIN cs) /\ DOMAIN cs # {}
  <2>1. IsFiniteSet(1..Len(cs))
    BY FS_Interval DEF Candidates
  <2>2. 1 \in DOMAIN cs
    BY DEF Candidates
  <2> QED BY <2>1, <2>2 DEF Candidates
<1>2. Ids(cs) = {c[i] : i \in DOMAIN cs}
  BY DEF Ids
<1>3. IsFiniteSet(Ids(cs)) /\ Ids(cs) # {}
  <2> HIDE DEF c
  <2> QED BY <1>1, <1>2, ImageFinite
<1>4. \A i \in DOMAIN cs : w[i] \in Nat /\ c[i] \in Ids(cs) /\ c[i] = cs[i].id
  BY DEF Weights, Candidates, Ids
<1>5. Total(cs) = Sum(w, DOMAIN cs)
  BY DEF Total, SumFunction, Sum, Weights
<1>6. \A d : Share(cs, d) = Sum(w, In(d))
  BY DEF Share, Sum
<1> HIDE DEF w
<1>7. \A d : Share(cs, d) \in Nat
  <2> TAKE d
  <2>1. In(d) \subseteq DOMAIN cs
    OBVIOUS
  <2>2. IsFiniteSet(In(d)) /\ \A i \in In(d) : w[i] \in Nat
    BY <1>1, <1>4, <2>1, FS_Subset
  <2> HIDE DEF In
  <2> QED BY <1>6, <2>2, SumNat
<1>8. Total(cs) \in Nat
  BY <1>1, <1>4, <1>5, SumNat
<1>9. Sum(Shares(cs), Ids(cs)) = Total(cs)
  <2>1. \A i \in DOMAIN cs : w[i] \in Int /\ c[i] \in Ids(cs)
    BY <1>4
  <2> DEFINE P == [d \in Ids(cs) |-> In(d)]
  <2>2. \A d \in Ids(cs) :
          /\ P[d] \subseteq DOMAIN cs /\ \A i \in DOMAIN cs : i \in P[d] <=> c[i] = d
          /\ Shares(cs)[d] = Sum(w, P[d])
    BY <1>6 DEF Shares
  <2> HIDE DEF P, c, In
  <2> QED BY <1>1, <1>3, <1>5, <2>1, <2>2, SumByClass
<1> QED BY <1>1, <1>3, <1>7, <1>8, <1>9

LEMMA RoutesFinite == IsFiniteSet(Routes)
<1> DEFINE f == [t \in Tables |-> Range(t)]
<1>1. {Range(t) : t \in Tables} = {f[t] : t \in Tables}
  OBVIOUS
<1>2. IsFiniteSet({Range(t) : t \in Tables})
  <2> HIDE DEF f
  <2>1. IsFiniteSet({f[t] : t \in Tables})
    BY SanitizedTables, ImageFinite
  <2> QED BY <1>1, <2>1
<1>3. \A t \in Tables : IsFiniteSet(Range(t))
  <2> TAKE t \in Tables
  <2>1. IsFiniteSet(DOMAIN t)
    BY SanitizedTables
  <2>2. IsFiniteSet({t[x] : x \in DOMAIN t})
    BY <2>1, ImageFinite
  <2> QED BY <2>2 DEF Range
<1>4. \A R \in {Range(t) : t \in Tables} : IsFiniteSet(R)
  BY <1>3
<1> QED BY <1>2, <1>4, FS_UNION DEF Routes

Top(g) == Max(GroupTotals(g))

\* The largest total that ever applies to a group.
LEMMA TopFacts ==
  ASSUME NEW r \in Weighted
  PROVE  /\ Total(r.candidates) \in Nat \ {0}
         /\ Top(group_key(r)) \in Nat \ {0} /\ Total(r.candidates) <= Top(group_key(r))
         /\ Steady(r) => Top(group_key(r)) = Total(r.candidates)
<1> DEFINE g == group_key(r)
           In == {x \in Weighted : group_key(x) = g}
           f == [x \in In |-> Total(x.candidates)]
<1>1. \A x \in Weighted : Total(x.candidates) \in Nat \ {0}
  <2> TAKE x \in Weighted
  <2>1. x \in Routes
    BY DEF Weighted
  <2>2. Total(x.candidates) \in Nat
    BY <2>1, RouteCandidates, CandidateFacts
  <2> QED BY <2>1, <2>2, SanitizedTables
<1>2. r \in In /\ In \subseteq Weighted /\ IsFiniteSet(In)
  BY RoutesFinite, FS_Subset DEF Weighted
<1>3. GroupTotals(g) = {f[x] : x \in In}
  BY DEF GroupTotals
<1>4. \A x \in In : f[x] = Total(x.candidates)
  OBVIOUS
<1>5. Steady(r) => \A x \in In : x = r
  BY DEF Steady
<1> HIDE DEF f, In, g
<1>6. /\ IsFiniteSet(GroupTotals(g)) /\ Total(r.candidates) \in GroupTotals(g)
      /\ \A t \in GroupTotals(g) : t \in Nat \ {0}
  BY <1>1, <1>2, <1>3, <1>4, ImageFinite
<1>7. Top(g) \in GroupTotals(g) /\ \A t \in GroupTotals(g) : t <= Top(g)
  BY <1>6, MaxOfFinite DEF Top
<1>8. Steady(r) => \A t \in GroupTotals(g) : t = Total(r.candidates)
  BY <1>3, <1>4, <1>5
<1> QED BY <1>1, <1>6, <1>7, <1>8 DEF g

-----------------------------------------------------------------------------
(* ------------------------------ the state ------------------------------ *)

\* A group's weights sum to zero and none of them owes a whole cycle.
Balanced(f, g) ==
  /\ f \in [g[2] -> Int] /\ Sum(f, g[2]) = 0
  /\ \A d \in g[2] : -Top(g) < f[d]

\* The weights are what the selections since the group appeared make of them.
Accounts(f, rounds, picks, cs) ==
  /\ picks \in [Ids(cs) -> Nat]
  /\ \A d \in Ids(cs) : f[d] = rounds * Share(cs, d) - picks[d] * Total(cs)

SwrrInv ==
  /\ SwrrTypeOK
  /\ \A g \in DOMAIN states : Balanced(states[g], g)
  /\ \A r \in Weighted : Steady(r) /\ group_key(r) \in DOMAIN hist =>
       LET h == hist[group_key(r)] IN
       /\ h.rounds \in 1..Total(r.candidates)
       /\ Accounts(states[group_key(r)], h.rounds, h.picks, r.candidates)

LEMMA KeyIds ==
  ASSUME NEW r PROVE group_key(r)[2] = Ids(r.candidates)
  BY DEF group_key

\* The facts about a weighted route, together.
LEMMA WeightedFacts ==
  ASSUME NEW r \in Weighted
  PROVE  /\ Candidates(r.candidates) /\ IsFiniteSet(Ids(r.candidates))
         /\ Ids(r.candidates) # {}
         /\ \A d \in Ids(r.candidates) : Share(r.candidates, d) \in Nat
         /\ Sum(Shares(r.candidates), Ids(r.candidates)) = Total(r.candidates)
<1>1. r \in Routes
  BY DEF Weighted
<1> QED BY <1>1, RouteCandidates, CandidateFacts

\* Steps 2-3 find an entry.
LEMMA PickedIsLargest ==
  ASSUME NEW cs, Candidates(cs), NEW cur, \A d \in Ids(cs) : cur[d] \in Int
  PROVE  /\ Picked(cs, cur) \in DOMAIN cs /\ cs[Picked(cs, cur)].id \in Ids(cs)
         /\ \A d \in Ids(cs) : cur[d] <= cur[cs[Picked(cs, cur)].id]
<1> DEFINE v == [i \in DOMAIN cs |-> cur[cs[i].id]]
           V == {v[i] : i \in DOMAIN cs}
           First(p) == \A i \in DOMAIN cs : \/ cur[cs[i].id] < cur[cs[p].id]
                                            \/ cur[cs[i].id] = cur[cs[p].id] /\ p <= i
<1>1. \A i \in DOMAIN cs : cs[i].id \in Ids(cs)
  BY DEF Ids
<1>2. \A i \in DOMAIN cs : v[i] \in Int /\ v[i] = cur[cs[i].id]
  BY <1>1
<1>3. 1 \in DOMAIN cs /\ IsFiniteSet(DOMAIN cs) /\ \A i \in DOMAIN cs : i \in Nat
  BY CandidateFacts DEF Candidates
<1> HIDE DEF v
<1>4. IsFiniteSet(V) /\ V # {} /\ \A x \in V : x \in Int
  BY <1>2, <1>3, ImageFinite
<1> DEFINE Best == {i \in DOMAIN cs : v[i] = Max(V)}
<1>5. Max(V) \in V /\ \A y \in V : y <= Max(V)
  <2> HIDE DEF V
  <2> QED BY <1>4, MaxOfFinite
<1>6. Best # {} /\ \A i \in Best : i \in Nat
  BY <1>3, <1>5
<1>7. PICK p \in Best : \A n \in Best : p <= n
  <2> HIDE DEF Best
  <2>1. Best \subseteq Nat
    BY <1>6
  <2> QED BY <1>6, <2>1, LeastNatural
<1>8. First(p) /\ p \in DOMAIN cs
  <2>1. \A i \in DOMAIN cs : v[i] <= v[p] /\ (v[i] = v[p] => p <= i)
    BY <1>5, <1>7
  <2> QED BY <1>2, <1>7, <2>1
<1>9. Picked(cs, cur) = CHOOSE x \in DOMAIN cs : First(x)
  BY DEF Picked
<1>10. Picked(cs, cur) \in DOMAIN cs /\ First(Picked(cs, cur))
  <2> HIDE DEF First
  <2> QED BY <1>8, <1>9
<1>11. \A i \in DOMAIN cs : cur[cs[i].id] <= cur[cs[Picked(cs, cur)].id]
  BY <1>1, <1>10
<1>12. \A d \in Ids(cs) : \E i \in DOMAIN cs : d = cs[i].id
  BY DEF Ids
<1> QED BY <1>1, <1>10, <1>11, <1>12

LEMMA EntryBalanced ==
  ASSUME SwrrInv, NEW r \in Weighted
  PROVE  Balanced(Entry(group_key(r), r.candidates), group_key(r))
<1> DEFINE cs == r.candidates
           g == group_key(r)
           z == Zeros(cs)
<1>1. CASE g \in DOMAIN states
  BY <1>1 DEF SwrrInv, Entry
<1>2. CASE g \notin DOMAIN states
  <2>1. z \in [g[2] -> Int] /\ \A d \in g[2] : z[d] = 0
    BY KeyIds DEF Zeros
  <2>2. IsFiniteSet(g[2]) /\ -Top(g) < 0
    BY KeyIds, WeightedFacts, TopFacts
  <2> HIDE DEF z
  <2>3. Sum(z, g[2]) = 0
    BY <2>1, <2>2, SumZero
  <2>4. Balanced(z, g)
    BY <2>1, <2>2, <2>3 DEF Balanced
  <2> QED BY <1>2, <2>4 DEF Entry, z
<1> QED BY <1>1, <1>2

\* What one round does to a group: the picked id p advances and pays.
Played(f, e, p, cs) ==
  /\ p \in Ids(cs) /\ f \in [Ids(cs) -> Int]
  /\ \A d \in Ids(cs) :
       f[d] = e[d] + Share(cs, d) - (IF d = p THEN Total(cs) ELSE 0)

LEMMA ChargedIs ==
  ASSUME NEW D, NEW cur \in [D -> Int], NEW p \in D, NEW tot \in Int
  PROVE  /\ Charged(cur, p, tot) \in [D -> Int]
         /\ \A d \in D : Charged(cur, p, tot)[d] = IF d = p THEN cur[d] - tot ELSE cur[d]
  BY DEF Charged

LEMMA RoundPlays ==
  ASSUME NEW r \in Weighted, NEW e, Balanced(e, group_key(r)),
         NEW cur, cur = Advanced(r.candidates, e),
         NEW p, p = r.candidates[Picked(r.candidates, cur)].id
  PROVE  /\ Balanced(Charged(cur, p, Total(r.candidates)), group_key(r))
         /\ Played(Charged(cur, p, Total(r.candidates)), e, p, r.candidates)
<1> DEFINE cs == r.candidates
           D == Ids(cs)
           tot == Total(cs)
           nxt == Charged(cur, p, tot)
           share == Shares(cs)
           top == Top(group_key(r))
<1>1. e \in [D -> Int] /\ Sum(e, D) = 0 /\ \A d \in D : -top < e[d]
  BY KeyIds DEF Balanced
<1>2. /\ Candidates(cs) /\ IsFiniteSet(D) /\ Sum(share, D) = tot
      /\ \A d \in D : Share(cs, d) \in Nat
  BY WeightedFacts
<1>3. tot \in Nat \ {0} /\ top \in Nat /\ tot <= top
  BY TopFacts
<1>4. /\ cur \in [D -> Int]
      /\ \A d \in D : share[d] = Share(cs, d) /\ cur[d] = e[d] + share[d]
  BY <1>1, <1>2 DEF Advanced, Shares
<1>5. p \in D /\ \A d \in D : cur[d] <= cur[p]
  BY <1>2, <1>4, PickedIsLargest
<1> HIDE DEF share, tot, top, D
<1>6. nxt \in [D -> Int] /\ \A d \in D : nxt[d] = IF d = p THEN cur[d] - tot ELSE cur[d]
  BY <1>3, <1>4, <1>5, ChargedIs
<1> HIDE DEF nxt
<1>7. \A d \in D : /\ e[d] \in Int /\ share[d] \in Nat
                   /\ nxt[d] = e[d] + share[d] - (IF d = p THEN tot ELSE 0)
                   /\ e[d] + share[d] <= e[p] + share[p]
  BY <1>1, <1>2, <1>3, <1>4, <1>5, <1>6
<1>8. Sum(nxt, D) = 0 /\ \A d \in D : -top < nxt[d]
  <2>1. Round(D, e, share, nxt, p, tot, top)
    BY <1>1, <1>2, <1>3, <1>5, <1>7 DEF Round
  <2> QED BY <1>2, <2>1, RoundKeepsBalance
<1>9. Balanced(nxt, group_key(r))
  BY <1>6, <1>8, KeyIds DEF Balanced, top, D
<1>10. Played(nxt, e, p, cs)
  BY <1>4, <1>5, <1>6, <1>7 DEF Played, D, tot
<1> QED BY <1>9, <1>10 DEF nxt, tot

\* A full cycle of selections leaves every weight at zero.
LEMMA FullCycle ==
  ASSUME NEW r \in Weighted, Steady(r), NEW f, Balanced(f, group_key(r)),
         NEW picks, Accounts(f, Total(r.candidates), picks, r.candidates)
  PROVE  \A d \in Ids(r.candidates) : f[d] = 0
<1> DEFINE cs == r.candidates
           tot == Total(cs)
           D == Ids(cs)
<1>1. tot \in Nat \ {0} /\ IsFiniteSet(D) /\ \A d \in D : Share(cs, d) \in Nat
  BY TopFacts, WeightedFacts
<1>2. Sum(f, D) = 0 /\ \A d \in D : -tot < f[d]
  BY KeyIds, TopFacts DEF Balanced
<1>3. \A d \in D : picks[d] \in Nat /\ f[d] = tot * Share(cs, d) - picks[d] * tot
  BY DEF Accounts
<1> HIDE DEF tot, D
<1>4. \A d \in D : \E k \in Int : f[d] = tot * k
  <2> TAKE d \in D
  <2>1. \A a, b, c \in Nat : b - c \in Int /\ a * b - c * a = a * (b - c)
    OBVIOUS
  <2>2. /\ Share(cs, d) - picks[d] \in Int
        /\ tot * Share(cs, d) - picks[d] * tot = tot * (Share(cs, d) - picks[d])
    BY <1>1, <1>3, <2>1
  <2> QED BY <1>3, <2>2
<1>5. \A d \in D : -tot < f[d] /\ \E k \in Int : f[d] = tot * k
  BY <1>2, <1>4
<1>6. \A d \in D : f[d] = 0
  BY <1>1, <1>2, <1>5, CycleEndsAtZero
<1> QED BY <1>6 DEF D

\* The ghost record a round starts from accounts for the weights it starts from.
LEMMA SinceAccounts ==
  ASSUME SwrrInv, NEW r \in Weighted, Steady(r)
  PROVE  LET cs == r.candidates
             h == Since(group_key(r), cs)
         IN /\ h.rounds \in 0..(Total(cs) - 1)
            /\ Accounts(Entry(group_key(r), cs), h.rounds, h.picks, cs)
<1> DEFINE cs == r.candidates
           g == group_key(r)
           h == Since(g, cs)
           e == Entry(g, cs)
<1>1. g \in DOMAIN hist <=> g \in DOMAIN states
  BY DEF SwrrInv, SwrrTypeOK
<1>2. Total(cs) \in Nat \ {0} /\ \A d \in Ids(cs) : Share(cs, d) \in Nat
  BY TopFacts, WeightedFacts
<1>3. g \in DOMAIN hist => /\ hist[g].rounds \in 1..Total(cs)
                           /\ Accounts(states[g], hist[g].rounds, hist[g].picks, cs)
                           /\ Balanced(states[g], g)
  BY <1>1 DEF SwrrInv
<1>4. CASE g \in DOMAIN hist /\ hist[g].rounds < Total(cs)
  <2>1. h = hist[g] /\ e = states[g]
    BY <1>1, <1>4 DEF Since, Entry
  <2> QED BY <1>2, <1>3, <1>4, <2>1
<1>5. CASE ~(g \in DOMAIN hist /\ hist[g].rounds < Total(cs))
  <2>1. h.rounds = 0 /\ h.picks = Zeros(cs)
    BY <1>5 DEF Since
  <2>2. \A d \in Ids(cs) : e[d] = 0
    <3>1. CASE g \in DOMAIN hist
      <4>1. hist[g].rounds = Total(cs)
        BY <1>2, <1>3, <1>5, <3>1
      <4>2. \A d \in Ids(cs) : states[g][d] = 0
        BY <1>3, <3>1, <4>1, FullCycle
      <4> QED BY <1>1, <3>1, <4>2 DEF Entry
    <3>2. CASE g \notin DOMAIN hist
      BY <1>1, <3>2 DEF Entry, Zeros
    <3> QED BY <3>1, <3>2
  <2>3. Zeros(cs) \in [Ids(cs) -> Nat] /\ \A d \in Ids(cs) : Zeros(cs)[d] = 0
    BY DEF Zeros
  <2>4. \A a \in Nat : 0 * a = 0
    OBVIOUS
  <2>5. \A d \in Ids(cs) : 0 * Share(cs, d) - Zeros(cs)[d] * Total(cs) = 0
    BY <1>2, <2>3, <2>4
  <2>6. Accounts(e, 0, Zeros(cs), cs)
    BY <2>2, <2>3, <2>5 DEF Accounts
  <2> QED BY <1>2, <2>1, <2>6
<1> QED BY <1>4, <1>5

\* One more selection, of p.
LEMMA RoundAccounts ==
  ASSUME NEW r \in Weighted, NEW e, NEW f, NEW p, Played(f, e, p, r.candidates),
         NEW n \in Nat, NEW picks, Accounts(e, n, picks, r.candidates)
  PROVE  Accounts(f, n + 1, [picks EXCEPT ![p] = @ + 1], r.candidates)
<1> DEFINE cs == r.candidates
           tot == Total(cs)
           D == Ids(cs)
           more == [picks EXCEPT ![p] = @ + 1]
<1>1. tot \in Nat /\ \A d \in D : Share(cs, d) \in Nat
  BY TopFacts, WeightedFacts
<1>2. /\ picks \in [D -> Nat]
      /\ \A d \in D : e[d] = n * Share(cs, d) - picks[d] * tot
  BY DEF Accounts
<1>3. /\ p \in D
      /\ \A d \in D : f[d] = e[d] + Share(cs, d) - (IF d = p THEN tot ELSE 0)
  BY DEF Played
<1> HIDE DEF tot, D
<1>4. /\ more \in [D -> Nat]
      /\ \A d \in D : more[d] = picks[d] + (IF d = p THEN 1 ELSE 0)
  BY <1>2, <1>3
<1> HIDE DEF more
<1>5. \A d \in D : f[d] = (n + 1) * Share(cs, d) - more[d] * tot
  <2> TAKE d \in D
  <2>1. \A a, b \in Nat : (a + 1) * b = a * b + b /\ a * b \in Nat
    OBVIOUS
  <2>2. /\ (n + 1) * Share(cs, d) = n * Share(cs, d) + Share(cs, d)
        /\ (picks[d] + 1) * tot = picks[d] * tot + tot
        /\ n * Share(cs, d) \in Nat /\ picks[d] * tot \in Nat
        /\ Share(cs, d) \in Nat /\ picks[d] \in Nat
    BY <1>1, <1>2, <2>1
  <2>3. CASE d = p
    <3>1. more[d] * tot = picks[d] * tot + tot
      BY <1>4, <2>2, <2>3
    <3> QED BY <1>1, <1>2, <1>3, <2>2, <2>3, <3>1
  <2>4. CASE d # p
    <3>1. more[d] * tot = picks[d] * tot
      BY <1>4, <2>2, <2>4
    <3> QED BY <1>1, <1>2, <1>3, <2>2, <2>4, <3>1
  <2> QED BY <2>3, <2>4
<1>6. Accounts(f, n + 1, more, cs)
  BY <1>4, <1>5 DEF Accounts, D, tot
<1> QED BY <1>6 DEF more

-----------------------------------------------------------------------------
(* ----------------------------- the invariant --------------------------- *)

LEMMA SwrrInitOK == SwrrInit => SwrrInv
<1> SUFFICES ASSUME SwrrInit PROVE SwrrInv
  OBVIOUS
<1>1. DOMAIN states = {} /\ DOMAIN hist = {}
  BY DEF SwrrInit
<1>2. SwrrTypeOK
  BY <1>1 DEF SwrrInit, SwrrTypeOK
<1> QED BY <1>1, <1>2 DEF SwrrInv

\* The group's entry changes, no other.
LEMMA OrderRouteKeeps ==
  ASSUME SwrrInv, NEW q \in Requests, NEW r, OrderRoute(q, r)
  PROVE  SwrrInv'
<1> DEFINE route == held[q][r]
           cs == route.candidates
           g == group_key(route)
           e == Entry(g, cs)
           cur == Advanced(cs, e)
           p == cs[Picked(cs, cur)].id
           nxt == Charged(cur, p, Total(cs))
           h == Since(g, cs)
           rec == [rounds |-> h.rounds + 1, picks |-> [h.picks EXCEPT ![p] = @ + 1]]
<1>1. /\ states' = With(states, g, nxt)
      /\ hist' = IF ~Steady(route) THEN hist ELSE With(hist, g, rec)
      /\ UNCHANGED <<live, pruned, held>>
  BY DEF OrderRoute
<1>2. route \in Weighted
  <2>1. held[q] \in Tables /\ r \in DOMAIN held[q] /\ Len(cs) > 1
    BY DEF OrderRoute, SwrrInv, SwrrTypeOK
  <2>2. route \in Range(held[q])
    BY <2>1 DEF Range
  <2> QED BY <2>1, <2>2 DEF Routes, Weighted
<1> HIDE DEF route
<1>3. Balanced(nxt, g) /\ Played(nxt, e, p, cs)
  <2>1. Balanced(e, g)
    BY <1>2, EntryBalanced
  <2> HIDE DEF e, nxt
  <2> QED BY <1>2, <2>1, RoundPlays DEF nxt
<1>4. Steady(route) => /\ rec.rounds \in 1..Total(cs)
                       /\ Accounts(nxt, rec.rounds, rec.picks, cs)
  <2> SUFFICES ASSUME Steady(route)
               PROVE  rec.rounds \in 1..Total(cs) /\ Accounts(nxt, rec.rounds, rec.picks, cs)
    OBVIOUS
  <2>1. h.rounds \in 0..(Total(cs) - 1) /\ Accounts(e, h.rounds, h.picks, cs)
    BY <1>2, SinceAccounts
  <2>2. Total(cs) \in Nat
    BY <1>2, TopFacts
  <2>3. rec.rounds = h.rounds + 1 /\ rec.picks = [h.picks EXCEPT ![p] = @ + 1]
    OBVIOUS
  <2> HIDE DEF e, nxt, h, p, rec
  <2>4. Accounts(nxt, h.rounds + 1, [h.picks EXCEPT ![p] = @ + 1], cs)
    <3>1. PICK n \in Nat : n = h.rounds
      BY <2>1, <2>2
    <3>2. PICK k : k = h.picks
      OBVIOUS
    <3>3. Accounts(e, n, k, cs)
      BY <2>1, <3>1, <3>2
    <3>4. Accounts(nxt, n + 1, [k EXCEPT ![p] = @ + 1], cs)
      BY <1>2, <1>3, <3>3, RoundAccounts
    <3> QED BY <3>1, <3>2, <3>4
  <2> QED BY <2>1, <2>2, <2>3, <2>4
<1> HIDE DEF e, nxt, h, p, rec, cs, g, cur
<1>5. /\ DOMAIN states' = {g} \cup DOMAIN states /\ states'[g] = nxt
      /\ \A x \in DOMAIN states : x # g => states'[x] = states[x]
  BY <1>1 DEF With
<1>6. Steady(route) =>
        /\ DOMAIN hist' = {g} \cup DOMAIN hist /\ hist'[g] = rec
        /\ \A x \in DOMAIN hist : x # g => hist'[x] = hist[x]
  BY <1>1 DEF With
<1>7. ~Steady(route) => hist' = hist
  BY <1>1
<1>8. \A x \in Weighted : Steady(x) /\ group_key(x) = g => x = route
  BY <1>2 DEF Steady, g
<1>9. g \in {group_key(x) : x \in Weighted} /\ nxt \in [g[2] -> Int]
  BY <1>2, <1>3 DEF g, Balanced
<1>10. SwrrTypeOK'
  <2>1. live' \in Tables /\ pruned' \in Tables \cup {NoTable}
        /\ held' \in [Requests -> Tables \cup {NoTable}]
    BY <1>1 DEF SwrrInv, SwrrTypeOK
  <2>2. \A x \in DOMAIN states' :
          x \in {group_key(y) : y \in Weighted} /\ states'[x] \in [x[2] -> Int]
    BY <1>5, <1>9 DEF SwrrInv, SwrrTypeOK
  <2>3. DOMAIN hist' = {x \in DOMAIN states' : \E y \in Weighted : Steady(y) /\ group_key(y) = x}
    <3>1. DOMAIN hist = {x \in DOMAIN states : \E y \in Weighted : Steady(y) /\ group_key(y) = x}
      BY DEF SwrrInv, SwrrTypeOK
    <3>2. CASE Steady(route)
      BY <1>2, <1>5, <1>6, <3>1, <3>2 DEF g
    <3>3. CASE ~Steady(route)
      BY <1>2, <1>5, <1>7, <1>8, <3>1, <3>3
    <3> QED BY <3>2, <3>3
  <2> QED BY <2>1, <2>2, <2>3 DEF SwrrTypeOK
<1>11. \A x \in DOMAIN states' : Balanced(states'[x], x)
  BY <1>3, <1>5 DEF SwrrInv
<1>12. ASSUME NEW x \in Weighted, Steady(x), group_key(x) \in DOMAIN hist'
       PROVE  /\ hist'[group_key(x)].rounds \in 1..Total(x.candidates)
              /\ Accounts(states'[group_key(x)], hist'[group_key(x)].rounds,
                          hist'[group_key(x)].picks, x.candidates)
  <2>1. CASE group_key(x) = g
    <3>1. x = route
      BY <1>8, <1>12, <2>1
    <3> QED BY <1>4, <1>5, <1>6, <1>12, <2>1, <3>1 DEF cs
  <2>2. CASE group_key(x) # g
    <3>1. group_key(x) \in DOMAIN hist /\ hist'[group_key(x)] = hist[group_key(x)]
      BY <1>6, <1>7, <1>12, <2>2
    <3>2. group_key(x) \in DOMAIN states
      BY <3>1 DEF SwrrInv, SwrrTypeOK
    <3>3. states'[group_key(x)] = states[group_key(x)]
      BY <1>5, <2>2, <3>2
    <3> QED BY <1>12, <3>1, <3>3 DEF SwrrInv
  <2> QED BY <2>1, <2>2
<1> QED BY <1>10, <1>11, <1>12 DEF SwrrInv

\* A store drops a group's weights and its record together.
LEMMA StorePruneKeeps ==
  ASSUME SwrrInv, NEW t \in Tables, StorePrune(t)
  PROVE  SwrrInv'
<1> DEFINE V == valid_group_keys(t)
<1>1. /\ DOMAIN states' = DOMAIN states \cap V
      /\ \A x \in DOMAIN states' : states'[x] = states[x]
      /\ DOMAIN hist' = DOMAIN hist \cap V
      /\ \A x \in DOMAIN hist' : hist'[x] = hist[x]
  BY DEF StorePrune, Restrict, Retained
<1>2. live' = live /\ held' = held /\ pruned' = t
  BY DEF StorePrune
<1> HIDE DEF V
<1>3. SwrrTypeOK'
  <2>1. DOMAIN hist' = {x \in DOMAIN states' : \E y \in Weighted : Steady(y) /\ group_key(y) = x}
    BY <1>1 DEF SwrrInv, SwrrTypeOK
  <2>2. \A x \in DOMAIN states' :
          x \in {group_key(y) : y \in Weighted} /\ states'[x] \in [x[2] -> Int]
    BY <1>1 DEF SwrrInv, SwrrTypeOK
  <2> QED BY <1>2, <2>1, <2>2 DEF SwrrInv, SwrrTypeOK
<1>4. \A x \in DOMAIN states' : Balanced(states'[x], x)
  BY <1>1 DEF SwrrInv
<1>5. ASSUME NEW x \in Weighted, Steady(x), group_key(x) \in DOMAIN hist'
      PROVE  /\ hist'[group_key(x)].rounds \in 1..Total(x.candidates)
             /\ Accounts(states'[group_key(x)], hist'[group_key(x)].rounds,
                         hist'[group_key(x)].picks, x.candidates)
  <2>1. group_key(x) \in DOMAIN hist /\ group_key(x) \in DOMAIN states'
    BY <1>1, <1>3, <1>5 DEF SwrrTypeOK
  <2>2. /\ hist'[group_key(x)] = hist[group_key(x)]
        /\ states'[group_key(x)] = states[group_key(x)]
    BY <1>1, <1>5, <2>1
  <2> QED BY <1>5, <2>1, <2>2 DEF SwrrInv
<1> QED BY <1>3, <1>4, <1>5 DEF SwrrInv

LEMMA SwrrStep == SwrrInv /\ [SwrrNext]_swrrVars => SwrrInv'
<1> SUFFICES ASSUME SwrrInv, [SwrrNext]_swrrVars PROVE SwrrInv'
  OBVIOUS
<1>1. ASSUME states' = states, hist' = hist, SwrrTypeOK' PROVE SwrrInv'
  BY <1>1 DEF SwrrInv
<1>2. ASSUME NEW q \in Requests, Load(q) PROVE SwrrInv'
  BY <1>1, <1>2 DEF Load, SwrrInv, SwrrTypeOK
<1>3. ASSUME NEW q \in Requests, Finish(q) PROVE SwrrInv'
  BY <1>1, <1>3 DEF Finish, SwrrInv, SwrrTypeOK
<1>4. ASSUME StoreSwap PROVE SwrrInv'
  BY <1>1, <1>4 DEF StoreSwap, SwrrInv, SwrrTypeOK
<1>5. ASSUME UNCHANGED swrrVars PROVE SwrrInv'
  BY <1>1, <1>5 DEF swrrVars, SwrrInv, SwrrTypeOK
<1> QED BY <1>2, <1>3, <1>4, <1>5, OrderRouteKeeps, StorePruneKeeps DEF SwrrNext

\* The states of all groups stay balanced and are what the selections of steady
\* groups account for.
LEMMA SwrrInvariant == SwrrSpec => []SwrrInv
  BY SwrrInitOK, SwrrStep, PTL DEF SwrrSpec

\* The current weights of a group (swrr.rs order, steps 1 and 4) sum to zero and
\* stay within the largest total that ever applied to it, for any tables,
\* requests, interleavings and reloads: none can drift towards the i32 limits.
THEOREM GroupWeightsBounded == SwrrSpec => []WeightsBounded
<1>1. SwrrInv => WeightsBounded
  <2> SUFFICES ASSUME SwrrInv, NEW g \in DOMAIN states
               PROVE  /\ SumFunction(states[g]) = 0
                      /\ \A d \in g[2] :
                           /\ -Top(g) < states[g][d]
                           /\ states[g][d] < (Cardinality(g[2]) - 1) * Top(g) + 1
    BY DEF WeightsBounded, Top
  <2>1. PICK r \in Weighted : g = group_key(r)
    BY DEF SwrrInv, SwrrTypeOK
  <2>2. IsFiniteSet(g[2]) /\ Top(g) \in Nat \ {0}
    BY <2>1, KeyIds, WeightedFacts, TopFacts
  <2>3. /\ states[g] \in [g[2] -> Int] /\ Sum(states[g], g[2]) = 0
        /\ \A d \in g[2] : states[g][d] \in Int /\ -Top(g) < states[g][d]
    BY DEF SwrrInv, Balanced
  <2>4. SumFunction(states[g]) = 0
    BY <2>3 DEF SumFunction, Sum
  <2>5. PICK D, f, top : D = g[2] /\ f = states[g] /\ top = Top(g)
    OBVIOUS
  <2>6. \A d \in D : f[d] < (Cardinality(D) - 1) * top + 1
    BY <2>2, <2>3, <2>5, CreditBounded
  <2> QED BY <2>3, <2>4, <2>5, <2>6
<1> QED BY <1>1, SwrrInvariant, PTL

\* While a group's weights stay the same no candidate gets a whole selection ahead
\* of its share, and a full cycle gives each exactly its weight, for any tables
\* and any interleaving of requests and stores (swrr.rs order, store's retain).
THEOREM SelectionsSmooth == SwrrSpec => []Smooth
<1>1. SwrrInv => Smooth
  <2> SUFFICES ASSUME SwrrInv, NEW r \in Weighted, Steady(r), group_key(r) \in DOMAIN hist,
                      NEW d \in Ids(r.candidates)
               PROVE  LET h == hist[group_key(r)]
                          cs == r.candidates
                          owed == h.rounds * Share(cs, d) - h.picks[d] * Total(cs)
                      IN /\ -Total(cs) < owed
                         /\ owed <= (Cardinality(Ids(cs)) - 1) * (Total(cs) - 1)
                         /\ h.rounds = Total(cs) => owed = 0
    BY DEF Smooth
  <2> DEFINE cs == r.candidates
             g == group_key(r)
             h == hist[g]
             f == states[g]
             owed == h.rounds * Share(cs, d) - h.picks[d] * Total(cs)
  <2>1. Accounts(f, h.rounds, h.picks, cs)
    BY DEF SwrrInv
  <2>2. Balanced(f, g)
    BY DEF SwrrInv, SwrrTypeOK
  <2>3. IsFiniteSet(Ids(cs)) /\ Total(cs) \in Nat \ {0} /\ Top(g) = Total(cs)
    BY WeightedFacts, TopFacts
  <2>4. f[d] = owed
    BY <2>1 DEF Accounts
  <2>5. Sum(f, Ids(cs)) = 0 /\ \A x \in Ids(cs) : f[x] \in Int /\ -Total(cs) < f[x]
    BY <2>2, <2>3, KeyIds DEF Balanced
  <2>6. h.rounds = Total(cs) => f[d] = 0
    BY <2>1, <2>2, FullCycle
  <2>7. PICK D, k, tot : D = Ids(cs) /\ k = f /\ tot = Total(cs)
    OBVIOUS
  <2>8. k[d] <= (Cardinality(D) - 1) * (tot - 1)
    BY <2>3, <2>5, <2>7, CreditBounded
  <2> QED BY <2>4, <2>5, <2>6, <2>7, <2>8
<1> QED BY <1>1, SwrrInvariant, PTL
=============================================================================
