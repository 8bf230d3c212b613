---------------------------- MODULE QuotaEngine ----------------------------
(***************************************************************************)
(* The token-quota engine (hygress-core/src/quota.rs) and the reservation  *)
(* guard that drives it (hygress-gateway/src/quota.rs): fixed-window       *)
(* budgets per (consumer, model) key, shared by all requests.              *)
(*                                                                         *)
(* Every engine call runs under one DashMap shard lock and is atomic, with *)
(* two exceptions the model keeps: the clock is read before the lock is    *)
(* taken, and a commit that finds no counter releases the lock before it   *)
(* inserts one.                                                            *)
(***************************************************************************)
EXTENDS Naturals, FiniteSetsExt

CONSTANTS
  Requests,   \* requests that reach the reserve stage, each at most once
  Keys,       \* (consumer, model) budget keys
  Specs,      \* LimitWindowSpec values the policy file may carry over time
  Ests,       \* estimates est_tokens can return for the bodies at hand
  Actuals,    \* total_token values a completed response can report
  IdleMs,     \* bootstrap's idle_ms
  U64Max,     \* where the saturating u64 arithmetic saturates
  MaxNow,     \* bound on the clock
  NoCounter   \* the key has no entry in the counters map

Spec_ == [window : Nat, soft : SUBSET Nat, hard : SUBSET Nat]

Tokens == 0..U64Max

WindowCounter == [window_idx : Nat, used : Tokens, est : Tokens, last_used_ms : Nat]

\* Optional limits are sets of at most one element; est_tokens(0, K) is 0.
ASSUME QuotaConstants ==
  /\ IsFiniteSet(Requests)
  /\ Specs \subseteq Spec_
  /\ Specs # {}
  /\ U64Max \in Nat
  /\ Ests \subseteq 0..U64Max
  /\ Actuals \subseteq 0..U64Max
  /\ IdleMs \in Nat
  /\ MaxNow \in Nat
  /\ NoCounter \notin WindowCounter

VARIABLES
  now,        \* SystemTime, in milliseconds
  policy,     \* the by_model_tokens spec of the loaded policy
  counters,   \* the DashMap: key -> WindowCounter
  pc,         \* where each request is in reserve -> commit / release
  key,        \* the request's (consumer, model)
  spec,       \* the spec cloned into the guard
  clk,        \* the last now_millis() value the request read
  widx,       \* the guard's window index
  est,        \* the guard's reserved estimate
  actual      \* the tokens the request settles with

vars == <<now, policy, counters, pc, key, spec, clk, widx, est, actual>>
guard == <<key, spec, widx, est>>

States == {"idle", "reserve", "denied", "inflight",
           "commit", "insert", "committed", "release", "released"}

TypeOK ==
  /\ now \in Nat
  /\ policy \in Specs
  /\ counters \in [Keys -> WindowCounter \cup {NoCounter}]
  /\ pc \in [Requests -> States]
  /\ key \in [Requests -> Keys]
  /\ spec \in [Requests -> Specs]
  /\ clk \in [Requests -> Nat]
  /\ widx \in [Requests -> Nat]
  /\ est \in [Requests -> Tokens]
  /\ actual \in [Requests -> Tokens]

-----------------------------------------------------------------------------
SatAdd(a, b) == IF a + b > U64Max THEN U64Max ELSE a + b

SatSub(a, b) == IF a > b THEN a - b ELSE 0

\* A zero-length window is a single infinite window.
WindowIdx(t, s) == IF s.window = 0 THEN 0 ELSE t \div s.window

FreshCounter(w, used, t) ==
  [window_idx |-> w, used |-> used, est |-> 0, last_used_ms |-> t]

\* The counter reserve works on: an existing one of this window, else a new one.
Entered(c, w, t) ==
  IF c = NoCounter \/ c.window_idx # w
  THEN FreshCounter(w, 0, t)
  ELSE [c EXCEPT !.last_used_ms = t]

Reserved(c, e) == [c EXCEPT !.used = SatAdd(@, e), !.est = SatAdd(@, e)]

Denies_UsedOnly(c, s, e) == \E h \in s.hard : c.used > h
Denies(c, s, e) == \E h \in s.hard : SatAdd(c.used, e) > h

\* A settle that forgets the estimate it took out of used.
Committed_EstStays(c, w, t, e, a) ==
  [c EXCEPT !.used = SatAdd(SatSub(@, e), a), !.last_used_ms = t]

\* A settle that charges the actual on top of the estimate.
Committed_ChargesTwice(c, w, t, e, a) ==
  [c EXCEPT !.used = SatAdd(@, a), !.est = SatSub(@, e), !.last_used_ms = t]

\* The settle arithmetic of commit on an existing counter.
Committed(c, w, t, e, a) ==
  IF c.window_idx = w
  THEN LET subtract == IF e < c.est THEN e ELSE c.est
       IN  [c EXCEPT !.used = SatAdd(SatSub(@, subtract), a),
                     !.est = SatSub(@, subtract),
                     !.last_used_ms = t]
  ELSE FreshCounter(w, a, t)

\* A release that returns the budget but leaves the estimate in flight.
Released_Leaks(c, w, t, e) == [c EXCEPT !.last_used_ms = t]

\* release refreshes the activity stamp of whatever counter it finds.
Released(c, w, t, e) ==
  IF c.window_idx = w
  THEN [c EXCEPT !.used = SatSub(@, e), !.est = SatSub(@, e), !.last_used_ms = t]
  ELSE [c EXCEPT !.last_used_ms = t]

-----------------------------------------------------------------------------
Init ==
  /\ now = 0
  /\ policy \in Specs
  /\ counters = [k \in Keys |-> NoCounter]
  /\ pc = [r \in Requests |-> "idle"]
  /\ key \in [Requests -> Keys]
  /\ spec = [r \in Requests |-> policy]
  /\ clk = [r \in Requests |-> 0]
  /\ widx = [r \in Requests |-> 0]
  /\ est = [r \in Requests |-> 0]
  /\ actual = [r \in Requests |-> 0]

Goto(r, from, to) == pc[r] = from /\ pc' = [pc EXCEPT ![r] = to]

\* The stage picks the effective spec, estimates the body and reads the clock.
Estimate(r, e) ==
  /\ Goto(r, "idle", "reserve")
  /\ spec' = [spec EXCEPT ![r] = policy]
  /\ est' = [est EXCEPT ![r] = e]
  /\ clk' = [clk EXCEPT ![r] = now]
  /\ UNCHANGED <<now, policy, counters, key, widx, actual>>

\* reserve: the window reset and the stamp happen even when the answer is deny.
Reserve(r) ==
  LET w == WindowIdx(clk[r], spec[r])
      c == Entered(counters[key[r]], w, clk[r])
  IN
  /\ IF Denies(c, spec[r], est[r])
     THEN /\ Goto(r, "reserve", "denied")
          /\ counters' = [counters EXCEPT ![key[r]] = c]
          /\ UNCHANGED widx
     ELSE /\ Goto(r, "reserve", "inflight")
          /\ counters' = [counters EXCEPT ![key[r]] = Reserved(c, est[r])]
          /\ widx' = [widx EXCEPT ![r] = w]
  /\ UNCHANGED <<now, policy, key, spec, clk, est, actual>>

\* settle(Some(a)): the guard is marked settled and the clock read.
SettleActual(r, a) ==
  /\ Goto(r, "inflight", "commit")
  /\ actual' = [actual EXCEPT ![r] = a]
  /\ clk' = [clk EXCEPT ![r] = now]
  /\ UNCHANGED <<now, policy, counters, guard>>

\* settle(None), or the drop of an unsettled guard.
SettleNone(r) ==
  /\ Goto(r, "inflight", "release")
  /\ clk' = [clk EXCEPT ![r] = now]
  /\ UNCHANGED <<now, policy, counters, guard, actual>>

Commit(r) ==
  LET c == counters[key[r]]
      w == WindowIdx(clk[r], spec[r])
  IN
  /\ \/ /\ c # NoCounter
        /\ Goto(r, "commit", "committed")
        /\ counters' = [counters EXCEPT
                          ![key[r]] = Committed(c, w, clk[r], est[r], actual[r])]
     \/ /\ c = NoCounter
        /\ Goto(r, "commit", "insert")
        /\ UNCHANGED counters
  /\ UNCHANGED <<now, policy, guard, clk, actual>>

\* The insert of a commit that found no counter overwrites what is there now.
CommitInsert(r) ==
  /\ Goto(r, "insert", "committed")
  /\ counters' = [counters EXCEPT
                    ![key[r]] = FreshCounter(WindowIdx(clk[r], spec[r]), actual[r], clk[r])]
  /\ UNCHANGED <<now, policy, guard, clk, actual>>

Release(r) ==
  LET c == counters[key[r]] IN
  /\ Goto(r, "release", "released")
  /\ counters' = IF c = NoCounter THEN counters
                 ELSE [counters EXCEPT ![key[r]] = Released(c, widx[r], clk[r], est[r])]
  /\ UNCHANGED <<now, policy, guard, clk, actual>>

\* The periodic task; its retain visits one shard after another.
EvictIdle(k) ==
  /\ counters[k] # NoCounter
  /\ counters[k].last_used_ms < SatSub(now, IdleMs)
  /\ counters' = [counters EXCEPT ![k] = NoCounter]
  /\ UNCHANGED <<now, policy, pc, guard, clk, actual>>

\* A hot reload of the policy file; guards in flight keep their own spec.
ReloadPolicy(s) ==
  /\ s # policy
  /\ policy' = s
  /\ UNCHANGED <<now, counters, pc, guard, clk, actual>>

Tick ==
  /\ now < MaxNow
  /\ now' = now + 1
  /\ UNCHANGED <<policy, counters, pc, guard, clk, actual>>

Settle(r) == Commit(r) \/ CommitInsert(r) \/ Release(r)

Next ==
  \/ \E r \in Requests, e \in Ests : Estimate(r, e)
  \/ \E r \in Requests : Reserve(r)
  \/ \E r \in Requests, a \in Actuals : SettleActual(r, a)
  \/ \E r \in Requests : SettleNone(r)
  \/ \E r \in Requests : Settle(r)
  \/ \E k \in Keys : EvictIdle(k)
  \/ \E s \in Specs : ReloadPolicy(s)
  \/ Tick

Spec == Init /\ [][Next]_vars

-----------------------------------------------------------------------------
Live(k) == counters[k] # NoCounter

\* The requests whose guard holds an unsettled reservation for k in window w.
Holders(k, w) ==
  {r \in Requests : /\ key[r] = k
                    /\ widx[r] = w
                    /\ pc[r] \in {"inflight", "commit", "insert", "release"}}

InflightEst(k, w) == SumFunctionOnSet(est, Holders(k, w))

Completed(k) == {r \in Requests : key[r] = k /\ pc[r] = "committed"}

\* The in-flight part of a counter never exceeds its total: `est` is "the
\* in-flight portion of used" whatever settles, evictions, reloads and clock
\* races hit the key, and with both numbers saturating.
EstWithinUsed == \A k \in Keys : Live(k) => counters[k].est <= counters[k].used

\* No settle leaves an estimate behind: what a counter holds in flight is
\* accounted for by guards that are still going to settle it. A release lost to
\* an eviction, a window reset or the commit that inserts over a counter must
\* lose the held estimate with it.
NoLeakedEstimate ==
  \A k \in Keys : Live(k) =>
    counters[k].est <= InflightEst(k, counters[k].window_idx)

\* A budget without window resets, a process too young for evictions, and totals
\* that stay below the u64 limit.
FixedBudget ==
  /\ \A s \in Specs : s.window = 0
  /\ MaxNow <= IdleMs
  /\ \E m \in Tokens : /\ \A e \in Ests \cup Actuals : e <= m
                       /\ m * Cardinality(Requests) <= U64Max

\* No hot reload changes the limits.
OneSpec == \A s, t \in Specs : s = t

\* With one window and no eviction the two-phase protocol is exact: the total is
\* what completed requests reported plus what the unfinished ones reserved.
UsedIsExact ==
  \A k \in Keys : Live(k) =>
    counters[k].used = InflightEst(k, 0) + SumFunctionOnSet(actual, Completed(k))

\* What a request reported above its estimate.
Overrun == [r \in Requests |-> SatSub(actual[r], est[r])]

\* Concurrent requests cannot jointly pass the hard limit: the total exceeds it
\* only by what completed requests reported above their own estimate.
HardBudget ==
  \A k \in Keys : Live(k) =>
    \A h \in policy.hard :
      counters[k].used <=
        h + SumFunctionOnSet(Overrun, Completed(k))

=============================================================================
