----------------------------- MODULE RateLimit -----------------------------
(***************************************************************************)
(* The per-key token buckets: check_bucket (hygress-gateway/src/pipe.rs)   *)
(* over TokenBucket (hygress-core/src/ratelimit.rs), and the idle eviction *)
(* of the bootstrap dutycycle.  The caller reads the clock before it takes *)
(* the shard lock, so a check may carry a time that is up to Lag old.      *)
(* Token amounts are counted in units, Token of them to a token, so that   *)
(* the fractional refills of the f64 are exact.  A tick of the clock is a  *)
(* second, the unit of Retry-After.                                        *)
(***************************************************************************)
EXTENDS Integers, FiniteSetsExt

CONSTANTS
  Keys,      \* bucket keys, "ip:..." and "consumer:..."
  SpecsOf,   \* the [rps, burst] specs a check of each key may come with;
             \* a consumer is checked with the spec of the route it matched
  Token,     \* units of one token; rps is in units per tick
  Idle,      \* idle_ms of the eviction
  Lag,       \* how long a caller may wait for the shard lock
  MaxNow,    \* bound on the clock
  NoBucket

Specs == UNION {SpecsOf[k] : k \in Keys}
Entries ==
  [spec : Specs, last_active_ms : 0..MaxNow, tokens : Nat, last : 0..MaxNow]

ASSUME RateLimitConstants ==
  /\ Token \in Nat \ {0}
  /\ Idle \in Nat /\ Lag \in Nat /\ MaxNow \in Nat
  /\ SpecsOf \in [Keys -> SUBSET [rps : Nat \ {0}, burst : Nat \ {0}]]
  /\ NoBucket \notin Entries

VARIABLES
  now,      \* the wall clock
  entries,  \* the DashMap: key -> RateLimitEntry
  start,    \* ghost: start of an observation window
  granted,  \* ghost: tokens granted to each key since then
  promised  \* ghost: the earliest time a denial told each key to retry at

vars == <<now, entries, start, granted, promised>>

NoPromise == MaxNow + 1 + Token

SaturatingSub(a, b) == IF a > b THEN a - b ELSE 0

(* ---------------------------- TokenBucket ------------------------------ *)

\* A fresh bucket is full and was last refilled at time 0.
Fresh(s, t) ==
  [spec |-> s, last_active_ms |-> t, tokens |-> s.burst * Token, last |-> 0]

\* A time before the last refill is ignored.
Refilled(e, t) ==
  IF t >= e.last
  THEN [e EXCEPT !.tokens = Min({@ + (t - e.last) * e.spec.rps,
                                 e.spec.burst * Token}),
                 !.last = t]
  ELSE e

HasToken(e) == e.tokens >= Token

\* Seconds until the next token at the spec's rate, at least one: Token / rps
\* rounded up (mutant: rounded down).
retry_after_Floor(s) == Max({1, Token \div s.rps})
retry_after(s) == Max({1, (Token + s.rps - 1) \div s.rps})

(* --------------------------- check_bucket ------------------------------ *)

\* The entry a check works on: seeded when missing, reset when the spec
\* differs from the one that seeded it.
Entered(k, s, t) ==
  IF entries[k] = NoBucket \/ entries[k].spec # s
  THEN Fresh(s, t)
  ELSE [entries[k] EXCEPT !.last_active_ms = t]

Init ==
  /\ now = 0
  /\ entries = [k \in Keys |-> NoBucket]
  /\ start = 0
  /\ granted = [k \in Keys |-> 0]
  /\ promised = [k \in Keys |-> NoPromise]

\* check_bucket with spec s and the time t read before the lock.
Allow(k, s, t) ==
  LET e == Refilled(Entered(k, s, t), t) IN
  /\ HasToken(e)
  /\ entries' = [entries EXCEPT ![k] = [e EXCEPT !.tokens = @ - Token]]
  /\ granted' = [granted EXCEPT ![k] = @ + 1]
  /\ promised' = [promised EXCEPT ![k] = NoPromise]
  /\ UNCHANGED <<now, start>>

Deny(k, s, t) ==
  LET e == Refilled(Entered(k, s, t), t) IN
  /\ ~HasToken(e)
  /\ entries' = [entries EXCEPT ![k] = e]
  /\ promised' = [promised EXCEPT ![k] = Min({@, now + retry_after(s)})]
  /\ UNCHANGED <<now, start, granted>>

\* The entries the dutycycle removes at time now (mutant: no threshold).
IsIdle_Always(e) == TRUE
IsIdle(e) == e.last_active_ms < SaturatingSub(now, Idle)

Evict ==
  /\ \E k \in Keys : entries[k] # NoBucket /\ IsIdle(entries[k])
  /\ entries' = [k \in Keys |->
                   IF entries[k] # NoBucket /\ IsIdle(entries[k])
                   THEN NoBucket ELSE entries[k]]
  /\ UNCHANGED <<now, start, granted, promised>>

Tick ==
  /\ now < MaxNow
  /\ now' = now + 1
  /\ UNCHANGED <<entries, start, granted, promised>>

\* Ghost: a new observation window starts now.
Observe ==
  /\ start' = now
  /\ granted' = [k \in Keys |-> 0]
  /\ UNCHANGED <<now, entries, promised>>

Check ==
  \E k \in Keys : \E s \in SpecsOf[k] : \E t \in SaturatingSub(now, Lag)..now :
    Allow(k, s, t) \/ Deny(k, s, t)

Next == Check \/ Evict \/ Tick \/ Observe

Spec == Init /\ [][Next]_vars

(* ------------------------------ properties ----------------------------- *)

\* No bucket holds more than its burst or less than nothing.
TypeOK ==
  /\ now \in 0..MaxNow /\ start \in 0..now
  /\ granted \in [Keys -> Nat] /\ promised \in [Keys -> 0..NoPromise]
  /\ entries \in [Keys -> Entries \cup {NoBucket}]
  /\ \A k \in Keys : entries[k] # NoBucket =>
       /\ entries[k].tokens <= entries[k].spec.burst * Token
       /\ entries[k].last <= now

\* Every key keeps one spec, and its rate refills the burst between the last
\* check before an eviction and the first one after it, both with an old time.
SteadySpecs ==
  \A k \in Keys : \E s \in SpecsOf[k] :
    SpecsOf[k] = {s} /\ s.burst * Token <= (Idle + 1 - 2 * Lag) * s.rps

MaxBurst(k) == Max({s.burst : s \in SpecsOf[k]})
MaxRps(k) == Max({s.rps : s \in SpecsOf[k]})

\* The promise of a token bucket (ratelimit.rs:9-11): in every window of time a
\* key is granted at most the burst plus what the rate refills during the
\* window, Lag more for checks that carry an old time.  Eviction, reseeding and
\* checks whose times arrive out of order do not add to it as long as the rate
\* refills the burst within Idle, less the lag of the last check and of the next.
WindowBound ==
  \A k \in Keys :
    granted[k] * Token <= MaxBurst(k) * Token + MaxRps(k) * (now - start + Lag)

\* Retry-After is honest: a key that was denied and got nothing since is allowed
\* once the advertised delay is over, whatever other denied checks, evictions
\* and out-of-order times came between (retry_after, pipe.rs:1244-1253).
RetryAfterHonest ==
  \A k \in Keys : \A s \in SpecsOf[k] : \A t \in SaturatingSub(now, Lag)..now :
    t >= promised[k] => HasToken(Refilled(Entered(k, s, t), t))

====
