------------------------ MODULE QuotaEngineProofs ------------------------
(***************************************************************************)
(* The quota engine for any requests, keys, specs and clock bound: types,  *)
(* the relation between the two numbers of a counter, the estimates in     *)
(* flight, and the exactness of a budget with one window.                  *)
(***************************************************************************)
EXTENDS QuotaEngine, SumTheorems, TLAPS

\* What the engine's helpers return: saturated tokens, window indices that are
\* natural numbers even for a zero-length window, and well-formed counters whose
\* in-flight part stays within the total.
Good(c) == c \in WindowCounter /\ c.est <= c.used

LEMMA SatType ==
  ASSUME NEW a \in Tokens, NEW b \in Tokens
  PROVE  /\ SatAdd(a, b) \in Tokens
         /\ SatSub(a, b) \in Tokens
  BY QuotaConstants DEF SatAdd, SatSub, Tokens

\* Saturating arithmetic is monotone, so adding or subtracting the same estimate
\* on both sides keeps est <= used (reserve and release).
LEMMA SatMono ==
  ASSUME NEW a \in Tokens, NEW b \in Tokens, NEW e \in Tokens, a <= b
  PROVE  /\ SatAdd(a, e) <= SatAdd(b, e)
         /\ SatSub(a, e) <= SatSub(b, e)
         /\ a <= SatAdd(b, e)
  BY QuotaConstants DEF SatAdd, SatSub, Tokens

LEMMA WindowIdxType ==
  ASSUME NEW t \in Nat, NEW s \in Specs
  PROVE  WindowIdx(t, s) \in Nat
<1>1. s.window \in Nat
  BY QuotaConstants DEF Spec_
<1>2. CASE s.window = 0
  BY <1>2 DEF WindowIdx
<1>3. CASE s.window # 0
  <2>1. t \div s.window \in Nat
    BY <1>1, <1>3
  <2> QED BY <2>1, <1>3 DEF WindowIdx
<1> QED BY <1>2, <1>3

LEMMA FreshGood ==
  ASSUME NEW w \in Nat, NEW t \in Nat, NEW u \in Tokens
  PROVE  Good(FreshCounter(w, u, t))
  BY QuotaConstants DEF Good, FreshCounter, WindowCounter, Tokens

LEMMA EnteredGood ==
  ASSUME NEW c, c = NoCounter \/ Good(c), NEW w \in Nat, NEW t \in Nat
  PROVE  Good(Entered(c, w, t))
<1>1. CASE c = NoCounter \/ c.window_idx # w
  <2>1. 0 \in Tokens
    BY QuotaConstants DEF Tokens
  <2> QED BY <1>1, <2>1, FreshGood DEF Entered
<1>2. CASE ~(c = NoCounter \/ c.window_idx # w)
  BY <1>2 DEF Entered, Good, WindowCounter
<1> QED BY <1>1, <1>2

LEMMA ReservedGood ==
  ASSUME NEW c, Good(c), NEW e \in Tokens
  PROVE  Good(Reserved(c, e))
<1>1. c.used \in Tokens /\ c.est \in Tokens /\ c.est <= c.used
  BY DEF Good, WindowCounter
<1>2. SatAdd(c.used, e) \in Tokens /\ SatAdd(c.est, e) \in Tokens
  BY <1>1, SatType
<1>3. SatAdd(c.est, e) <= SatAdd(c.used, e)
  BY <1>1, SatMono
<1> QED BY <1>2, <1>3 DEF Good, Reserved, WindowCounter

LEMMA CommittedGood ==
  ASSUME NEW c, Good(c), NEW w \in Nat, NEW t \in Nat, NEW e \in Tokens, NEW a \in Tokens
  PROVE  Good(Committed(c, w, t, e, a))
<1>1. CASE c.window_idx = w
  <2> DEFINE sub == IF e < c.est THEN e ELSE c.est
  <2>1. c.used \in Tokens /\ c.est \in Tokens /\ c.est <= c.used
    BY DEF Good, WindowCounter
  <2>2. sub \in Tokens
    BY <2>1 DEF Tokens
  <2>3. SatSub(c.used, sub) \in Tokens /\ SatSub(c.est, sub) \in Tokens
    BY <2>1, <2>2, SatType
  <2>4. SatSub(c.est, sub) <= SatSub(c.used, sub)
    BY <2>1, <2>2, SatMono
  <2>5. SatAdd(SatSub(c.used, sub), a) \in Tokens
    BY <2>3, SatType
  <2>6. SatSub(c.est, sub) <= SatAdd(SatSub(c.used, sub), a)
    BY <2>3, <2>4, SatMono
  <2>7. Committed(c, w, t, e, a) =
          [c EXCEPT !.used = SatAdd(SatSub(@, sub), a),
                    !.est = SatSub(@, sub), !.last_used_ms = t]
    BY <1>1 DEF Committed
  <2> QED BY <2>3, <2>5, <2>6, <2>7 DEF Good, WindowCounter
<1>2. CASE c.window_idx # w
  BY <1>2, FreshGood DEF Committed
<1> QED BY <1>1, <1>2

LEMMA ReleasedGood ==
  ASSUME NEW c, Good(c), NEW w \in Nat, NEW t \in Nat, NEW e \in Tokens
  PROVE  Good(Released(c, w, t, e))
<1>1. c.used \in Tokens /\ c.est \in Tokens /\ c.est <= c.used
  BY DEF Good, WindowCounter
<1>2. SatSub(c.used, e) \in Tokens /\ SatSub(c.est, e) \in Tokens
  BY <1>1, SatType
<1>3. SatSub(c.est, e) <= SatSub(c.used, e)
  BY <1>1, SatMono
<1> QED BY <1>2, <1>3 DEF Good, Released, WindowCounter

-----------------------------------------------------------------------------
IInv == TypeOK /\ EstWithinUsed

\* A map whose entry for k is replaced by a good counter, or removed, is still a
\* map of good counters: what every engine call has to show.
LEMMA CounterUpdate ==
  ASSUME IInv, NEW k \in Keys, NEW d, Good(d) \/ d = NoCounter,
         counters' = [counters EXCEPT ![k] = d]
  PROVE  /\ counters' \in [Keys -> WindowCounter \cup {NoCounter}]
         /\ EstWithinUsed'
  BY DEF IInv, TypeOK, EstWithinUsed, Live, Good

LEMMA GoodIsLive ==
  ASSUME NEW c, Good(c)
  PROVE  c # NoCounter
  BY QuotaConstants DEF Good

LEMMA CounterGood ==
  ASSUME IInv, NEW k \in Keys
  PROVE  counters[k] = NoCounter \/ Good(counters[k])
  BY DEF IInv, TypeOK, EstWithinUsed, Live, Good

LEMMA InitIInv == Init => IInv
  BY QuotaConstants DEF Init, IInv, TypeOK, EstWithinUsed, Live, Tokens, States

LEMMA GotoType ==
  ASSUME TypeOK, NEW r \in Requests, NEW from, NEW to \in States, Goto(r, from, to)
  PROVE  pc' \in [Requests -> States]
  BY DEF TypeOK, Goto

\* The steps that do not touch a counter.
LEMMA QuietSteps ==
  ASSUME IInv,
         \/ \E r \in Requests, e \in Ests : Estimate(r, e)
         \/ \E r \in Requests, a \in Actuals : SettleActual(r, a)
         \/ \E r \in Requests : SettleNone(r)
         \/ \E s \in Specs : ReloadPolicy(s)
         \/ Tick
  PROVE  IInv'
<1>1. counters' = counters /\ EstWithinUsed'
  BY DEF IInv, EstWithinUsed, Live, Estimate, SettleActual, SettleNone, ReloadPolicy, Tick
<1>2. ASSUME NEW r \in Requests, NEW e \in Ests, Estimate(r, e)
      PROVE  TypeOK'
  <2>1. pc' \in [Requests -> States]
    BY <1>2, GotoType DEF IInv, Estimate, States
  <2>2. e \in Tokens
    BY QuotaConstants DEF Tokens
  <2> QED BY <1>1, <1>2, <2>1, <2>2 DEF IInv, TypeOK, Estimate
<1>3. ASSUME NEW r \in Requests, NEW a \in Actuals, SettleActual(r, a)
      PROVE  TypeOK'
  <2>1. pc' \in [Requests -> States]
    BY <1>3, GotoType DEF IInv, SettleActual, States
  <2>2. a \in Tokens
    BY QuotaConstants DEF Tokens
  <2> QED BY <1>1, <1>3, <2>1, <2>2 DEF IInv, TypeOK, SettleActual, guard
<1>4. ASSUME NEW r \in Requests, SettleNone(r)
      PROVE  TypeOK'
  <2>1. pc' \in [Requests -> States]
    BY <1>4, GotoType DEF IInv, SettleNone, States
  <2> QED BY <1>1, <1>4, <2>1 DEF IInv, TypeOK, SettleNone, guard
<1>5. ASSUME NEW s \in Specs, ReloadPolicy(s)
      PROVE  TypeOK'
  BY <1>1, <1>5 DEF IInv, TypeOK, ReloadPolicy, guard
<1>6. CASE Tick
  <2>1. TypeOK'
    BY <1>1, <1>6 DEF IInv, TypeOK, Tick, guard
  <2> QED BY <1>1, <2>1 DEF IInv
<1> QED BY <1>1, <1>2, <1>3, <1>4, <1>5, <1>6 DEF IInv

LEMMA ReserveIInv ==
  ASSUME IInv, NEW r \in Requests, Reserve(r)
  PROVE  IInv'
<1> DEFINE w == WindowIdx(clk[r], spec[r])
           c == Entered(counters[key[r]], w, clk[r])
<1>1. key[r] \in Keys /\ spec[r] \in Specs /\ clk[r] \in Nat /\ est[r] \in Tokens
  BY DEF IInv, TypeOK
<1>2. w \in Nat
  BY <1>1, WindowIdxType
<1>3. Good(c)
  BY <1>1, <1>2, CounterGood, EnteredGood
<1>4. Good(Reserved(c, est[r]))
  BY <1>1, <1>3, ReservedGood
<1>5. counters' \in [Keys -> WindowCounter \cup {NoCounter}] /\ EstWithinUsed'
  <2>1. \/ counters' = [counters EXCEPT ![key[r]] = c]
        \/ counters' = [counters EXCEPT ![key[r]] = Reserved(c, est[r])]
    BY DEF Reserve
  <2> QED BY <1>1, <1>3, <1>4, <2>1, CounterUpdate
<1>6. pc' \in [Requests -> States]
  BY GotoType DEF IInv, Reserve, States
<1>7. widx' \in [Requests -> Nat]
  <2>1. widx' = widx \/ widx' = [widx EXCEPT ![r] = w]
    BY DEF Reserve
  <2> QED BY <1>2, <2>1 DEF IInv, TypeOK
<1>8. UNCHANGED <<now, policy, key, spec, clk, est, actual>>
  BY DEF Reserve
<1> QED BY <1>5, <1>6, <1>7, <1>8 DEF IInv, TypeOK

LEMMA SettleIInv ==
  ASSUME IInv, NEW r \in Requests, Settle(r)
  PROVE  IInv'
<1> DEFINE c == counters[key[r]]
           w == WindowIdx(clk[r], spec[r])
<1>1. /\ key[r] \in Keys /\ spec[r] \in Specs /\ clk[r] \in Nat
      /\ widx[r] \in Nat /\ est[r] \in Tokens /\ actual[r] \in Tokens
  BY DEF IInv, TypeOK
<1>2. w \in Nat
  BY <1>1, WindowIdxType
<1>3. pc' \in [Requests -> States]
  BY GotoType DEF IInv, Settle, Commit, CommitInsert, Release, States
<1>4. counters' \in [Keys -> WindowCounter \cup {NoCounter}] /\ EstWithinUsed'
  <2>1. CASE Commit(r)
    <3>1. CASE c # NoCounter
      <4>1. Good(Committed(c, w, clk[r], est[r], actual[r]))
        BY <1>1, <1>2, <3>1, CounterGood, CommittedGood
      <4> QED BY <1>1, <2>1, <3>1, <4>1, CounterUpdate DEF Commit
    <3>2. CASE c = NoCounter
      BY <2>1, <3>2 DEF Commit, IInv, TypeOK, EstWithinUsed, Live
    <3> QED BY <3>1, <3>2
  <2>2. CASE CommitInsert(r)
    <3>1. Good(FreshCounter(w, actual[r], clk[r]))
      BY <1>1, <1>2, FreshGood
    <3> QED BY <1>1, <2>2, <3>1, CounterUpdate DEF CommitInsert
  <2>3. CASE Release(r)
    <3>1. CASE c = NoCounter
      BY <2>3, <3>1 DEF Release, IInv, TypeOK, EstWithinUsed, Live
    <3>2. CASE c # NoCounter
      <4>1. Good(Released(c, widx[r], clk[r], est[r]))
        BY <1>1, <3>2, CounterGood, ReleasedGood
      <4> QED BY <1>1, <2>3, <3>2, <4>1, CounterUpdate DEF Release
    <3> QED BY <3>1, <3>2
  <2> QED BY <2>1, <2>2, <2>3 DEF Settle
<1>5. UNCHANGED <<now, policy, guard, clk, actual>>
  BY DEF Settle, Commit, CommitInsert, Release
<1> QED BY <1>3, <1>4, <1>5 DEF IInv, TypeOK, guard

LEMMA EvictIInv ==
  ASSUME IInv, NEW k \in Keys, EvictIdle(k)
  PROVE  IInv'
<1>1. counters' \in [Keys -> WindowCounter \cup {NoCounter}] /\ EstWithinUsed'
  BY CounterUpdate DEF EvictIdle
<1> QED BY <1>1 DEF EvictIdle, IInv, TypeOK, guard

LEMMA NextIInv == IInv /\ [Next]_vars => IInv'
<1> SUFFICES ASSUME IInv, [Next]_vars PROVE IInv'
  OBVIOUS
<1>1. CASE UNCHANGED vars
  BY <1>1 DEF vars, IInv, TypeOK, EstWithinUsed, Live
<1>2. CASE Next
  BY <1>2, QuietSteps, ReserveIInv, SettleIInv, EvictIInv DEF Next
<1> QED BY <1>1, <1>2

\* The quota engine and its guards keep their types: no sequence of reserves,
\* settles, evictions and reloads takes a counter out of the u64 range.
THEOREM TypeCorrect == Spec => []TypeOK
<1>1. IInv => TypeOK
  BY DEF IInv
<1> QED BY <1>1, InitIInv, NextIInv, PTL DEF Spec

\* The in-flight part of every counter stays within its total, for any number of
\* requests on the key, any window lengths and any reload or eviction.
THEOREM EstWithinUsedAlways == Spec => []EstWithinUsed
<1>1. IInv => EstWithinUsed
  BY DEF IInv
<1> QED BY <1>1, InitIInv, NextIInv, PTL DEF Spec

LEMMA Inductive == Spec => []IInv
  BY InitIInv, NextIInv, PTL DEF Spec

-----------------------------------------------------------------------------
(* ------------------------ estimates in flight -------------------------- *)

Holding == {"inflight", "commit", "insert", "release"}

LEMMA HoldersFinite ==
  ASSUME TypeOK, NEW k, NEW w
  PROVE  /\ IsFiniteSet(Holders(k, w)) /\ Holders(k, w) \subseteq Requests
         /\ \A r \in Holders(k, w) : est[r] \in Nat
         /\ InflightEst(k, w) \in Nat
         /\ InflightEst(k, w) = Sum(est, Holders(k, w))
<1>1. Holders(k, w) \in SUBSET Requests
  BY DEF Holders
<1>2. IsFiniteSet(Holders(k, w))
  BY <1>1, QuotaConstants, FS_Subset
<1>3. \A r \in Holders(k, w) : est[r] \in Nat
  BY <1>1 DEF TypeOK, Tokens
<1>4. Sum(est, Holders(k, w)) \in Nat
  BY <1>2, <1>3, SumNat
<1> QED BY <1>1, <1>2, <1>3, <1>4 DEF InflightEst, Sum

\* A step that changes no holder of k in w leaves what is in flight there.
LEMMA SameInflight ==
  ASSUME TypeOK, TypeOK', NEW k, NEW w, Holders(k, w)' = Holders(k, w),
         \A r \in Holders(k, w) : est'[r] = est[r]
  PROVE  InflightEst(k, w)' = InflightEst(k, w)
<1>1. /\ IsFiniteSet(Holders(k, w)) /\ \A r \in Holders(k, w) : est[r] \in Nat
      /\ InflightEst(k, w) = Sum(est, Holders(k, w))
  BY HoldersFinite
<1>2. InflightEst(k, w)' = Sum(est', Holders(k, w))
  BY DEF InflightEst, Sum
<1>3. \A r \in Holders(k, w) : est[r] \in Int /\ est'[r] \in Int
  BY <1>1
<1>4. Sum(est, Holders(k, w)) = Sum(est', Holders(k, w))
  BY <1>1, <1>3, SumSame
<1> QED BY <1>1, <1>2, <1>4

LEMMA OneLess ==
  ASSUME TypeOK, NEW k, NEW w, NEW r \in Holders(k, w),
         Holders(k, w)' = Holders(k, w) \ {r}, est' = est
  PROVE  InflightEst(k, w)' = InflightEst(k, w) - est[r]
<1>1. /\ IsFiniteSet(Holders(k, w)) /\ \A x \in Holders(k, w) : est[x] \in Int
      /\ InflightEst(k, w) = Sum(est, Holders(k, w)) /\ est[r] \in Nat
  BY HoldersFinite
<1>2. InflightEst(k, w)' = Sum(est, Holders(k, w) \ {r})
  BY DEF InflightEst, Sum
<1>3. Sum(est, Holders(k, w)) = est[r] + Sum(est, Holders(k, w) \ {r})
  BY <1>1, SumRemove
<1>4. Sum(est, Holders(k, w) \ {r}) \in Int
  <2>1. IsFiniteSet(Holders(k, w) \ {r}) /\ \A x \in Holders(k, w) \ {r} : est[x] \in Int
    BY <1>1, FS_Subset
  <2> QED BY <2>1, SumType
<1> QED BY <1>1, <1>2, <1>3, <1>4

LEMMA OneMore ==
  ASSUME TypeOK, NEW k, NEW w, NEW r \in Requests, r \notin Holders(k, w),
         Holders(k, w)' = Holders(k, w) \cup {r}, est' = est
  PROVE  InflightEst(k, w)' = InflightEst(k, w) + est[r]
<1>1. /\ IsFiniteSet(Holders(k, w)) /\ \A x \in Holders(k, w) \cup {r} : est[x] \in Int
      /\ InflightEst(k, w) = Sum(est, Holders(k, w)) /\ InflightEst(k, w) \in Nat
  BY HoldersFinite DEF TypeOK, Tokens
<1>2. InflightEst(k, w)' = Sum(est, Holders(k, w) \cup {r})
  BY DEF InflightEst, Sum
<1>3. Sum(est, Holders(k, w) \cup {r}) = est[r] + Sum(est, Holders(k, w))
  BY <1>1, SumAdd
<1> QED BY <1>1, <1>2, <1>3

\* How the holders change with the stage of one request.
LEMMA HoldersStay ==
  ASSUME TypeOK, NEW r \in Requests, NEW from, NEW to, Goto(r, from, to),
         from \in Holding <=> to \in Holding, from \in Holding => widx'[r] = widx[r],
         key' = key, \A q \in Requests : q # r => widx'[q] = widx[q],
         NEW k, NEW w
  PROVE  Holders(k, w)' = Holders(k, w)
  BY DEF TypeOK, Goto, Holders, Holding

LEMMA HoldersLeave ==
  ASSUME TypeOK, NEW r \in Requests, NEW from \in Holding, NEW to, to \notin Holding,
         Goto(r, from, to), key' = key, widx' = widx, NEW k, NEW w
  PROVE  /\ Holders(k, w)' = Holders(k, w) \ {r}
         /\ r \in Holders(k, w) <=> key[r] = k /\ widx[r] = w
  BY DEF TypeOK, Goto, Holders, Holding

LEMMA HoldersEnter ==
  ASSUME TypeOK, NEW r \in Requests, NEW from, from \notin Holding, NEW to \in Holding,
         Goto(r, from, to), key' = key, NEW v, widx' = [widx EXCEPT ![r] = v], NEW k, NEW w
  PROVE  /\ r \notin Holders(k, w)
         /\ key[r] = k /\ v = w => Holders(k, w)' = Holders(k, w) \cup {r}
         /\ ~(key[r] = k /\ v = w) => Holders(k, w)' = Holders(k, w)
  BY DEF TypeOK, Goto, Holders, Holding

\* What a step has to show of the counter it writes and of the other keys.
LEMMA LeakUpdate ==
  ASSUME TypeOK, TypeOK', NoLeakedEstimate, NEW k0 \in Keys, NEW d,
         counters' = [counters EXCEPT ![k0] = d],
         \A k \in Keys : \A w : k # k0 => InflightEst(k, w)' = InflightEst(k, w),
         d # NoCounter => \E w : d.window_idx = w /\ d.est <= InflightEst(k0, w)'
  PROVE  NoLeakedEstimate'
<1> SUFFICES ASSUME NEW k \in Keys, counters'[k] # NoCounter,
                    NEW w, w = counters'[k].window_idx
             PROVE  counters'[k].est <= InflightEst(k, w)'
  BY DEF NoLeakedEstimate, Live, InflightEst, Holders
<1>1. CASE k = k0
  <2>1. counters'[k] = d
    BY <1>1 DEF TypeOK
  <2> QED BY <1>1, <2>1
<1>2. CASE k # k0
  <2>1. counters'[k] = counters[k]
    BY <1>2 DEF TypeOK
  <2>2. counters[k].est <= InflightEst(k, w)
    BY <2>1 DEF NoLeakedEstimate, Live
  <2> QED BY <1>2, <2>1, <2>2
<1> QED BY <1>1, <1>2

\* Steps that write no counter and change no holder.
LEMMA QuietLeak ==
  ASSUME TypeOK, TypeOK', NoLeakedEstimate, counters' = counters,
         \A k, w : InflightEst(k, w)' = InflightEst(k, w)
  PROVE  NoLeakedEstimate'
<1> SUFFICES ASSUME NEW k \in Keys, counters'[k] # NoCounter,
                    NEW w, w = counters'[k].window_idx
             PROVE  counters'[k].est <= InflightEst(k, w)'
  BY DEF NoLeakedEstimate, Live, InflightEst, Holders
<1>1. counters[k].est <= InflightEst(k, w)
  BY DEF NoLeakedEstimate, Live
<1> QED BY <1>1

LEMMA EstimateLeak ==
  ASSUME TypeOK, TypeOK', NoLeakedEstimate, NEW r \in Requests, NEW e, Estimate(r, e)
  PROVE  NoLeakedEstimate'
<1>1. /\ Goto(r, "idle", "reserve") /\ est' = [est EXCEPT ![r] = e]
      /\ UNCHANGED <<counters, key, widx>>
  BY DEF Estimate
<1>2. ASSUME NEW k, NEW w PROVE InflightEst(k, w)' = InflightEst(k, w)
  <2>1. Holders(k, w)' = Holders(k, w)
    BY <1>1, HoldersStay DEF Holding
  <2>2. r \notin Holders(k, w)
    BY <1>1 DEF Holders, Goto
  <2>3. \A x \in Holders(k, w) : est'[x] = est[x]
    BY <1>1, <2>2 DEF TypeOK, Holders
  <2> QED BY <2>1, <2>3, SameInflight
<1> QED BY <1>1, <1>2, QuietLeak

LEMMA SettleStartLeak ==
  ASSUME TypeOK, TypeOK', NoLeakedEstimate, NEW r \in Requests,
         SettleNone(r) \/ \E a \in Actuals : SettleActual(r, a)
  PROVE  NoLeakedEstimate'
<1>1. /\ Goto(r, "inflight", "commit") \/ Goto(r, "inflight", "release")
      /\ UNCHANGED <<counters, key, widx, est>>
  BY DEF SettleNone, SettleActual, guard
<1>2. ASSUME NEW k, NEW w PROVE InflightEst(k, w)' = InflightEst(k, w)
  <2>1. Holders(k, w)' = Holders(k, w)
    BY <1>1, HoldersStay DEF Holding
  <2> QED BY <1>1, <2>1, SameInflight
<1> QED BY <1>1, <1>2, QuietLeak

\* A counter that reserve enters holds what it held, or nothing after a reset.
LEMMA EnteredEst ==
  ASSUME NEW c, c = NoCounter \/ c \in WindowCounter, NEW w \in Nat, NEW t
  PROVE  /\ Entered(c, w, t).window_idx = w
         /\ Entered(c, w, t).est \in Nat
         /\ \/ Entered(c, w, t).est = 0
            \/ c # NoCounter /\ c.window_idx = w /\ Entered(c, w, t).est = c.est
<1>1. CASE c = NoCounter \/ c.window_idx # w
  BY <1>1 DEF Entered, FreshCounter
<1>2. CASE ~(c = NoCounter \/ c.window_idx # w)
  BY <1>2 DEF Entered, WindowCounter, Tokens
<1> QED BY <1>1, <1>2

LEMMA ReserveLeak ==
  ASSUME IInv, TypeOK', NoLeakedEstimate, NEW r \in Requests, Reserve(r)
  PROVE  NoLeakedEstimate'
<1>1. key[r] \in Keys /\ spec[r] \in Specs /\ clk[r] \in Nat /\ est[r] \in Tokens /\ TypeOK
  BY DEF IInv, TypeOK
<1>2. WindowIdx(clk[r], spec[r]) \in Nat
  BY <1>1, WindowIdxType
<1>3. PICK k0 \in Keys, w0 \in Nat : k0 = key[r] /\ w0 = WindowIdx(clk[r], spec[r])
  BY <1>1, <1>2
<1>4. PICK d : d = Entered(counters[k0], w0, clk[r])
  OBVIOUS
<1>5. /\ d.window_idx = w0 /\ d.est \in Nat /\ d \in WindowCounter
      /\ d.est <= InflightEst(k0, w0) /\ InflightEst(k0, w0) \in Nat
  <2>1. counters[k0] = NoCounter \/ counters[k0] \in WindowCounter
    BY <1>1 DEF TypeOK
  <2>2. /\ d.window_idx = w0 /\ d.est \in Nat
        /\ \/ d.est = 0
           \/ counters[k0] # NoCounter /\ counters[k0].window_idx = w0 /\ d.est = counters[k0].est
    BY <1>4, <2>1, EnteredEst
  <2>3. d \in WindowCounter
    BY <1>1, <1>4, CounterGood, EnteredGood DEF Good
  <2>4. InflightEst(k0, w0) \in Nat
    BY <1>1, HoldersFinite
  <2> QED BY <2>2, <2>3, <2>4 DEF NoLeakedEstimate, Live
<1>6. UNCHANGED <<key, est>>
  BY DEF Reserve
<1>7. CASE Denies(d, spec[r], est[r])
  <2>1. Goto(r, "reserve", "denied") /\ counters' = [counters EXCEPT ![k0] = d] /\ widx' = widx
    BY <1>3, <1>4, <1>7 DEF Reserve
  <2>2. ASSUME NEW k, NEW w PROVE InflightEst(k, w)' = InflightEst(k, w)
    <3>1. Holders(k, w)' = Holders(k, w)
      BY <1>1, <1>6, <2>1, HoldersStay DEF Holding
    <3> QED BY <1>1, <1>6, <3>1, SameInflight
  <2> QED BY <1>1, <1>5, <2>1, <2>2, LeakUpdate
<1>8. CASE ~Denies(d, spec[r], est[r])
  <2>1. /\ Goto(r, "reserve", "inflight") /\ counters' = [counters EXCEPT ![k0] = Reserved(d, est[r])]
        /\ widx' = [widx EXCEPT ![r] = w0]
    BY <1>3, <1>4, <1>8 DEF Reserve
  <2>2. ASSUME NEW k, NEW w
        PROVE  /\ k0 = k /\ w0 = w => InflightEst(k, w)' = InflightEst(k, w) + est[r]
               /\ ~(k0 = k /\ w0 = w) => InflightEst(k, w)' = InflightEst(k, w)
    <3>1. /\ r \notin Holders(k, w)
          /\ k0 = k /\ w0 = w => Holders(k, w)' = Holders(k, w) \cup {r}
          /\ ~(k0 = k /\ w0 = w) => Holders(k, w)' = Holders(k, w)
      <4>1. "inflight" \in Holding /\ "reserve" \notin Holding
        BY DEF Holding
      <4>2. /\ r \notin Holders(k, w)
            /\ key[r] = k /\ w0 = w => Holders(k, w)' = Holders(k, w) \cup {r}
            /\ ~(key[r] = k /\ w0 = w) => Holders(k, w)' = Holders(k, w)
        BY <1>1, <1>6, <2>1, <4>1 DEF Holders, Holding, Goto, TypeOK
      <4> QED BY <1>3, <4>2
    <3>2. CASE k0 = k /\ w0 = w
      <4>1. Holders(k, w)' = Holders(k, w) \cup {r} /\ r \notin Holders(k, w)
        BY <3>1, <3>2
      <4>2. InflightEst(k, w)' = InflightEst(k, w) + est[r]
        BY <1>1, <1>6, <4>1, OneMore
      <4> QED BY <3>2, <4>2
    <3>3. CASE ~(k0 = k /\ w0 = w)
      BY <1>1, <1>6, <3>1, <3>3, SameInflight
    <3> QED BY <3>2, <3>3
  <2>3. PICK f : f = Reserved(d, est[r])
    OBVIOUS
  <2>4. f.window_idx = w0 /\ f.est = SatAdd(d.est, est[r])
    BY <1>5, <2>3 DEF Reserved, WindowCounter
  <2>5. SatAdd(d.est, est[r]) <= d.est + est[r] /\ SatAdd(d.est, est[r]) \in Nat /\ est[r] \in Nat
    BY <1>1, <1>5, QuotaConstants DEF SatAdd, Tokens
  <2>6. f.est <= InflightEst(k0, w0)'
    BY <1>5, <2>2, <2>4, <2>5
  <2>7. \A k \in Keys : \A w : k # k0 => InflightEst(k, w)' = InflightEst(k, w)
    BY <2>2
  <2> QED BY <1>1, <2>1, <2>3, <2>4, <2>6, <2>7, LeakUpdate
<1> QED BY <1>7, <1>8

\* A settle takes its request out of the holders; it must take the estimate out
\* of the counter too, when the counter is still the one it was put into.
LEMMA SettledInflight ==
  ASSUME TypeOK, TypeOK', NEW r \in Requests, NEW from \in Holding, NEW to, to \notin Holding,
         Goto(r, from, to), UNCHANGED <<key, widx, est>>, NEW k, NEW w
  PROVE  /\ InflightEst(k, w) \in Nat /\ InflightEst(k, w)' \in Nat
         /\ key[r] = k /\ widx[r] = w => InflightEst(k, w)' = InflightEst(k, w) - est[r]
         /\ ~(key[r] = k /\ widx[r] = w) => InflightEst(k, w)' = InflightEst(k, w)
<1>1. /\ Holders(k, w)' = Holders(k, w) \ {r}
      /\ r \in Holders(k, w) <=> key[r] = k /\ widx[r] = w
  BY HoldersLeave
<1>2. InflightEst(k, w) \in Nat
  BY HoldersFinite
<1>3. CASE key[r] = k /\ widx[r] = w
  <2>1. InflightEst(k, w)' = InflightEst(k, w) - est[r]
    BY <1>1, <1>3, OneLess
  <2>2. InflightEst(k, w)' \in Nat
    <3>1. /\ IsFiniteSet(Holders(k, w)) /\ (\A x \in Holders(k, w) : est[x] \in Nat)
          /\ InflightEst(k, w) = Sum(est, Holders(k, w))
      BY HoldersFinite
    <3>2. est[r] <= Sum(est, Holders(k, w)) /\ est[r] \in Nat
      BY <1>1, <1>3, <3>1, SumBounds
    <3> QED BY <1>2, <2>1, <3>1, <3>2
  <2> QED BY <1>2, <1>3, <2>1, <2>2
<1>4. CASE ~(key[r] = k /\ widx[r] = w)
  <2>1. Holders(k, w)' = Holders(k, w)
    BY <1>1, <1>4
  <2>2. InflightEst(k, w)' = InflightEst(k, w)
    BY <2>1, SameInflight
  <2> QED BY <1>2, <1>4, <2>2
<1> QED BY <1>3, <1>4

LEMMA SettleLeak ==
  ASSUME IInv, TypeOK', NoLeakedEstimate, NEW r \in Requests, Settle(r)
  PROVE  NoLeakedEstimate'
<1>1. /\ key[r] \in Keys /\ spec[r] \in Specs /\ clk[r] \in Nat /\ TypeOK
      /\ widx[r] \in Nat /\ est[r] \in Nat /\ actual[r] \in Tokens
  BY DEF IInv, TypeOK, Tokens
<1>2. UNCHANGED <<key, widx, est>>
  BY DEF Settle, Commit, CommitInsert, Release, guard
<1>3. PICK k0 \in Keys, c \in {counters[key[r]]} : k0 = key[r] /\ c = counters[k0]
  BY <1>1
<1>4. c # NoCounter => /\ c \in WindowCounter /\ c.est \in Nat /\ c.window_idx \in Nat
                       /\ c.est <= InflightEst(k0, c.window_idx)
  BY <1>1, <1>3 DEF TypeOK, NoLeakedEstimate, Live, WindowCounter, Tokens
<1>5. CASE Commit(r) /\ c = NoCounter
  <2>1. Goto(r, "commit", "insert") /\ counters' = counters
    BY <1>3, <1>5 DEF Commit
  <2>2. ASSUME NEW k, NEW w PROVE InflightEst(k, w)' = InflightEst(k, w)
    <3>1. Holders(k, w)' = Holders(k, w)
      BY <1>1, <1>2, <2>1, HoldersStay DEF Holding
    <3> QED BY <1>1, <1>2, <3>1, SameInflight
  <2> QED BY <1>1, <2>1, <2>2, QuietLeak
<1>6. ASSUME NEW d, counters' = [counters EXCEPT ![k0] = d], NEW from \in Holding, NEW to,
             to \notin Holding, Goto(r, from, to), d.est \in Nat,
             \/ d.est = 0
             \/ /\ c # NoCounter /\ d.window_idx = c.window_idx /\ d.est <= c.est
                /\ widx[r] = c.window_idx => d.est <= c.est - est[r]
      PROVE  NoLeakedEstimate'
  <2>1. \A k, w :
          /\ InflightEst(k, w) \in Nat /\ InflightEst(k, w)' \in Nat
          /\ k0 = k /\ widx[r] = w => InflightEst(k, w)' = InflightEst(k, w) - est[r]
          /\ ~(k0 = k /\ widx[r] = w) => InflightEst(k, w)' = InflightEst(k, w)
    BY <1>1, <1>2, <1>3, <1>6, SettledInflight
  <2>2. PICK w : w = d.window_idx
    OBVIOUS
  <2>3. d.est <= InflightEst(k0, w)'
    <3>1. CASE d.est = 0
      BY <2>1, <3>1
    <3>2. CASE d.est # 0
      <4>1. /\ w = c.window_idx /\ c # NoCounter /\ d.est <= c.est
            /\ widx[r] = w => d.est <= c.est - est[r]
        BY <1>6, <2>2, <3>2
      <4>2. c.est <= InflightEst(k0, w) /\ c.est \in Nat
        BY <1>4, <4>1
      <4> QED BY <1>1, <1>6, <2>1, <4>1, <4>2
    <3> QED BY <3>1, <3>2
  <2>4. \A k \in Keys : \A v : k # k0 => InflightEst(k, v)' = InflightEst(k, v)
    BY <2>1
  <2> QED BY <1>1, <1>6, <2>2, <2>3, <2>4, LeakUpdate
<1>7. CASE Commit(r) /\ c # NoCounter
  <2>1. PICK w0, d : w0 = WindowIdx(clk[r], spec[r]) /\ d = Committed(c, w0, clk[r], est[r], actual[r])
    OBVIOUS
  <2>2. Goto(r, "commit", "committed") /\ counters' = [counters EXCEPT ![k0] = d]
    BY <1>3, <1>7, <2>1 DEF Commit
  <2>3. CASE c.window_idx = w0
    <3> DEFINE sub == IF est[r] < c.est THEN est[r] ELSE c.est
    <3>1. d = [c EXCEPT !.used = SatAdd(SatSub(@, sub), actual[r]),
                        !.est = SatSub(@, sub), !.last_used_ms = clk[r]]
      BY <2>1, <2>3 DEF Committed
    <3>2. d.window_idx = c.window_idx /\ d.est = SatSub(c.est, sub)
      BY <1>4, <1>7, <3>1 DEF WindowCounter
    <3>3. d.est \in Nat /\ d.est <= c.est /\ (d.est = 0 \/ d.est <= c.est - est[r])
      BY <1>1, <1>4, <1>7, <3>2 DEF SatSub
    <3> HIDE DEF sub
    <3> QED BY <1>6, <1>7, <2>2, <3>2, <3>3 DEF Holding
  <2>4. CASE c.window_idx # w0
    <3>1. d.est = 0 /\ d.est \in Nat
      BY <2>1, <2>4 DEF Committed, FreshCounter
    <3> QED BY <1>6, <2>2, <3>1 DEF Holding
  <2> QED BY <2>3, <2>4
<1>8. CASE CommitInsert(r)
  <2>1. PICK d : d = FreshCounter(WindowIdx(clk[r], spec[r]), actual[r], clk[r])
    OBVIOUS
  <2>2. d.est = 0 /\ d.est \in Nat /\ Goto(r, "insert", "committed") /\ counters' = [counters EXCEPT ![k0] = d]
    BY <1>3, <1>8, <2>1 DEF CommitInsert, FreshCounter
  <2> QED BY <1>6, <2>2 DEF Holding
<1>9. CASE Release(r) /\ c # NoCounter
  <2>1. PICK d : d = Released(c, widx[r], clk[r], est[r])
    OBVIOUS
  <2>2. Goto(r, "release", "released") /\ counters' = [counters EXCEPT ![k0] = d]
    BY <1>3, <1>9, <2>1 DEF Release
  <2>3. /\ d.window_idx = c.window_idx /\ d.est \in Nat /\ d.est <= c.est
        /\ widx[r] = c.window_idx => d.est = 0 \/ d.est <= c.est - est[r]
    BY <1>1, <1>4, <1>9, <2>1 DEF Released, WindowCounter, SatSub
  <2> QED BY <1>6, <1>9, <2>2, <2>3 DEF Holding
<1>10. CASE Release(r) /\ c = NoCounter
  <2>1. Goto(r, "release", "released") /\ counters' = counters
    BY <1>3, <1>10 DEF Release
  <2>2. \A k, w :
          /\ InflightEst(k, w) \in Nat /\ InflightEst(k, w)' \in Nat
          /\ ~(k0 = k /\ widx[r] = w) => InflightEst(k, w)' = InflightEst(k, w)
    BY <1>1, <1>2, <1>3, <2>1, SettledInflight DEF Holding
  <2>3. counters' = [counters EXCEPT ![k0] = NoCounter]
    BY <1>1, <1>3, <1>10, <2>1 DEF TypeOK
  <2> QED BY <1>1, <2>2, <2>3, LeakUpdate
<1> QED BY <1>5, <1>7, <1>8, <1>9, <1>10 DEF Settle

LEMMA NextLeak == IInv /\ IInv' /\ NoLeakedEstimate /\ [Next]_vars => NoLeakedEstimate'
<1> SUFFICES ASSUME IInv, IInv', NoLeakedEstimate, [Next]_vars PROVE NoLeakedEstimate'
  OBVIOUS
<1>1. TypeOK /\ TypeOK'
  BY DEF IInv
<1>2. CASE UNCHANGED <<counters, pc, key, widx, est>>
  BY <1>2 DEF NoLeakedEstimate, Live, InflightEst, Holders
<1>3. ASSUME NEW k \in Keys, EvictIdle(k) PROVE NoLeakedEstimate'
  <2>1. counters' = [counters EXCEPT ![k] = NoCounter] /\ UNCHANGED <<pc, key, widx, est>>
    BY <1>3 DEF EvictIdle, guard
  <2>2. \A j \in Keys : \A w : InflightEst(j, w)' = InflightEst(j, w)
    BY <2>1 DEF InflightEst, Holders
  <2> QED BY <1>1, <2>1, <2>2, LeakUpdate
<1>4. CASE UNCHANGED vars \/ Tick \/ \E s \in Specs : ReloadPolicy(s)
  BY <1>2, <1>4 DEF vars, Tick, ReloadPolicy, guard
<1> QED BY <1>1, <1>3, <1>4, EstimateLeak, SettleStartLeak, ReserveLeak, SettleLeak DEF Next

\* What a counter holds in flight is accounted for by guards that will still
\* settle it, for any requests, windows, reloads, evictions and clock races.
THEOREM NoEstimateLeaks == Spec => []NoLeakedEstimate
<1>1. Init => NoLeakedEstimate
  BY DEF Init, NoLeakedEstimate, Live
<1> QED BY <1>1, Inductive, NextLeak, PTL DEF Spec

-----------------------------------------------------------------------------
(* ------------------------- an exact budget ----------------------------- *)

Charged(k) == Sum(actual, Completed(k))
Over(k) == Sum(Overrun, Completed(k))

\* Estimates and charges of different requests fit below the u64 limit.
LEMMA Fits ==
  ASSUME FixedBudget, NEW H \in SUBSET Requests, NEW C \in SUBSET Requests, H \cap C = {},
         NEW f, NEW h, \A x \in H : f[x] \in Ests \cup {0}, \A x \in C : h[x] \in Actuals \cup {0}
  PROVE  Sum(f, H) \in Nat /\ Sum(h, C) \in Nat /\ Sum(f, H) + Sum(h, C) <= U64Max
<1>1. PICK m \in Nat : (\A e \in Ests \cup Actuals : e <= m) /\ m * Cardinality(Requests) <= U64Max
  BY DEF FixedBudget, Tokens
<1>2. IsFiniteSet(H) /\ IsFiniteSet(C) /\ IsFiniteSet(H \cup C)
  BY QuotaConstants, FS_Subset
<1>3. \A e \in Ests \cup Actuals \cup {0} : e \in Nat /\ e <= m
  BY <1>1, QuotaConstants
<1>4. /\ \A x \in H : f[x] \in Nat
      /\ \A x \in H : f[x] <= m
  BY <1>3
<1>5. /\ \A x \in C : h[x] \in Nat
      /\ \A x \in C : h[x] <= m
  BY <1>3
<1>6. Sum(f, H) \in Nat /\ Sum(f, H) <= m * Cardinality(H)
  <2>1. Sum(f, H) \in Nat
    BY <1>2, <1>4, SumNat
  <2>2. Sum(f, H) <= m * Cardinality(H)
    BY <1>2, <1>4, SumAtMost
  <2> QED BY <2>1, <2>2
<1>7. Sum(h, C) \in Nat /\ Sum(h, C) <= m * Cardinality(C)
  <2>1. Sum(h, C) \in Nat
    BY <1>2, <1>5, SumNat
  <2>2. Sum(h, C) <= m * Cardinality(C)
    BY <1>2, <1>5, SumAtMost
  <2> QED BY <2>1, <2>2
<1>8. Cardinality(H) + Cardinality(C) <= Cardinality(Requests)
      /\ Cardinality(H) \in Nat /\ Cardinality(C) \in Nat /\ Cardinality(Requests) \in Nat
  <2>1. Cardinality(H \cup C) = Cardinality(H) + Cardinality(C) - Cardinality(H \cap C)
    BY <1>2, FS_Union
  <2>2. Cardinality(H \cap C) = 0
    BY FS_EmptySet
  <2>3. H \cup C \in SUBSET Requests
    OBVIOUS
  <2>4. Cardinality(H \cup C) <= Cardinality(Requests)
    BY <2>3, QuotaConstants, FS_Subset
  <2>5. Cardinality(H) \in Nat /\ Cardinality(C) \in Nat /\ Cardinality(Requests) \in Nat
    BY <1>2, QuotaConstants, FS_CardinalityType
  <2> QED BY <2>1, <2>2, <2>4, <2>5
<1>9. m * Cardinality(H) + m * Cardinality(C) <= m * Cardinality(Requests)
  <2>1. \A a, b, c \in Nat : a + b <= c => m * a + m * b <= m * c
    OBVIOUS
  <2> QED BY <1>8, <2>1
<1>10. m * Cardinality(H) \in Nat /\ m * Cardinality(C) \in Nat /\ m * Cardinality(Requests) \in Nat
  BY <1>8
<1> QED BY <1>1, <1>6, <1>7, <1>9, <1>10, QuotaConstants

LEMMA CompletedFinite ==
  ASSUME TypeOK, NEW k
  PROVE  /\ IsFiniteSet(Completed(k)) /\ Completed(k) \in SUBSET Requests
         /\ \A r \in Completed(k) : actual[r] \in Nat
         /\ \A r \in Completed(k) : Overrun[r] \in Nat
         /\ Charged(k) \in Nat /\ Over(k) \in Nat
<1>1. Completed(k) \in SUBSET Requests
  BY DEF Completed
<1>2. IsFiniteSet(Completed(k))
  BY <1>1, QuotaConstants, FS_Subset
<1>3. /\ \A r \in Completed(k) : actual[r] \in Nat
      /\ \A r \in Completed(k) : Overrun[r] \in Nat
  BY <1>1 DEF TypeOK, Tokens, Overrun, SatSub
<1>4. Charged(k) \in Nat /\ Over(k) \in Nat
  BY <1>2, <1>3, SumNat DEF Charged, Over
<1> QED BY <1>1, <1>2, <1>3, <1>4

\* Nothing a completed request is charged with changes unless it completes.
LEMMA SameCharges ==
  ASSUME TypeOK, TypeOK', NEW k, Completed(k)' = Completed(k),
         \A r \in Completed(k) : actual'[r] = actual[r] /\ est'[r] = est[r]
  PROVE  Charged(k)' = Charged(k) /\ Over(k)' = Over(k)
<1>1. /\ IsFiniteSet(Completed(k)) /\ Completed(k) \in SUBSET Requests
      /\ \A r \in Completed(k) : actual[r] \in Nat
      /\ \A r \in Completed(k) : Overrun[r] \in Nat
  BY CompletedFinite
<1>2. Charged(k)' = Sum(actual', Completed(k)) /\ Over(k)' = Sum(Overrun', Completed(k))
  BY DEF Charged, Over, Sum
<1>3. \A r \in Completed(k) : Overrun'[r] = Overrun[r]
  BY <1>1 DEF Overrun, SatSub
<1>4. /\ \A r \in Completed(k) : actual[r] \in Int
      /\ \A r \in Completed(k) : actual'[r] \in Int
      /\ \A r \in Completed(k) : actual'[r] = actual[r]
  BY <1>1
<1>5. Sum(actual, Completed(k)) = Sum(actual', Completed(k))
  BY <1>1, <1>4, SumSame
<1>6. /\ \A r \in Completed(k) : Overrun[r] \in Int
      /\ \A r \in Completed(k) : Overrun'[r] \in Int
  BY <1>1, <1>3
<1>7. Sum(Overrun, Completed(k)) = Sum(Overrun', Completed(k))
  BY <1>1, <1>3, <1>6, SumSame
<1> QED BY <1>2, <1>5, <1>7 DEF Charged, Over

LEMMA OneCompletes ==
  ASSUME TypeOK, NEW k, NEW r \in Requests, r \notin Completed(k),
         Completed(k)' = Completed(k) \cup {r}, actual' = actual, est' = est
  PROVE  /\ Charged(k)' = Charged(k) + actual[r]
         /\ Over(k)' = Over(k) + SatSub(actual[r], est[r])
<1>1. /\ IsFiniteSet(Completed(k)) /\ Completed(k) \in SUBSET Requests
      /\ Charged(k) \in Nat /\ Over(k) \in Nat
  BY CompletedFinite
<1>2. /\ Charged(k)' = Sum(actual, Completed(k) \cup {r})
      /\ Over(k)' = Sum(Overrun, Completed(k) \cup {r})
  BY DEF Charged, Over, Sum, Overrun
<1>3. /\ \A x \in Completed(k) \cup {r} : actual[x] \in Int
      /\ \A x \in Completed(k) \cup {r} : Overrun[x] \in Int
      /\ Overrun[r] = SatSub(actual[r], est[r])
  BY <1>1 DEF TypeOK, Tokens, Overrun, SatSub
<1>4. Sum(actual, Completed(k) \cup {r}) = actual[r] + Sum(actual, Completed(k))
  BY <1>1, <1>3, SumAdd
<1>5. Sum(Overrun, Completed(k) \cup {r}) = Overrun[r] + Sum(Overrun, Completed(k))
  BY <1>1, <1>3, SumAdd
<1>6. actual[r] \in Int /\ Overrun[r] \in Int
  BY <1>3
<1> QED BY <1>1, <1>2, <1>3, <1>4, <1>5, <1>6 DEF Charged, Over

\* What the hypotheses rule out: a second window, an eviction and with it the
\* commit that finds no counter. Every request past its reserve has a counter.
Calm ==
  /\ now <= MaxNow
  /\ \A r \in Requests : /\ widx[r] = 0 /\ pc[r] # "insert"
                         /\ pc[r] \notin {"idle", "reserve"} => Live(key[r])
                         /\ est[r] \in Ests \cup {0} /\ actual[r] \in Actuals \cup {0}
  /\ \A k \in Keys : Live(k) => counters[k].window_idx = 0

\* The two numbers of a counter are what its guards and charges add up to.
Balanced ==
  \A k \in Keys : Live(k) =>
    /\ counters[k].est = InflightEst(k, 0)
    /\ counters[k].used = InflightEst(k, 0) + Charged(k)

LEMMA OneWindow ==
  ASSUME FixedBudget, NEW s \in Specs, NEW t
  PROVE  WindowIdx(t, s) = 0
  BY DEF FixedBudget, WindowIdx

LEMMA NoEviction ==
  ASSUME FixedBudget, TypeOK, Calm, NEW k \in Keys
  PROVE  ~EvictIdle(k)
<1> SUFFICES ASSUME EvictIdle(k) PROVE FALSE
  OBVIOUS
<1>1. SatSub(now, IdleMs) = 0
  BY QuotaConstants DEF FixedBudget, Calm, TypeOK, SatSub
<1>2. counters[k].last_used_ms \in Nat /\ counters[k].last_used_ms < SatSub(now, IdleMs)
  BY DEF TypeOK, EvictIdle, WindowCounter
<1> QED BY <1>1, <1>2

\* A step that writes one counter of window 0 and moves one request keeps Calm.
LEMMA CalmWrite ==
  ASSUME TypeOK, TypeOK', Calm, NEW r \in Requests, NEW d, d # NoCounter, d.window_idx = 0,
         NEW from, NEW to, to # "insert", Goto(r, from, to),
         counters' = [counters EXCEPT ![key[r]] = d],
         widx' = widx \/ widx' = [widx EXCEPT ![r] = 0], UNCHANGED <<now, key, est, actual>>
  PROVE  Calm'
<1>1. key[r] \in Keys /\ counters'[key[r]] = d
  BY DEF TypeOK
<1>2. \A k \in Keys : k # key[r] => counters'[k] = counters[k]
  BY DEF TypeOK
<1>3. \A k \in Keys : Live(k)' => counters'[k].window_idx = 0
  BY <1>1, <1>2 DEF Calm, Live
<1>4. \A k \in Keys : Live(k) => Live(k)'
  BY <1>1, <1>2 DEF Live
<1>5. Live(key[r])'
  BY <1>1 DEF Live
<1>6. \A q \in Requests : widx'[q] = 0
  BY DEF TypeOK, Calm
<1>7. \A q \in Requests : /\ q # r => pc'[q] = pc[q]
                         /\ pc'[r] = to
  BY DEF TypeOK, Goto
<1>8. \A q \in Requests : pc'[q] # "insert"
  BY <1>7 DEF Calm
<1>9. \A q \in Requests : pc'[q] \notin {"idle", "reserve"} => Live(key[q])'
  <2> SUFFICES ASSUME NEW q \in Requests, pc'[q] \notin {"idle", "reserve"} PROVE Live(key[q])'
    OBVIOUS
  <2>1. CASE q = r
    BY <1>5, <2>1
  <2>2. CASE q # r
    <3>1. Live(key[q])
      BY <1>7, <2>2 DEF Calm
    <3>2. key'[q] = key[q] /\ key[q] \in Keys
      BY DEF TypeOK
    <3> QED BY <1>1, <1>2, <3>1, <3>2 DEF Live
  <2> QED BY <2>1, <2>2
<1> QED BY <1>3, <1>6, <1>8, <1>9 DEF Calm

LEMMA NextCalm ==
  ASSUME FixedBudget, IInv, IInv', Calm, Next
  PROVE  Calm'
<1>1. TypeOK /\ TypeOK'
  BY DEF IInv
<1>2. ASSUME NEW r \in Requests, NEW e \in Ests, Estimate(r, e) PROVE Calm'
  BY <1>1, <1>2 DEF Estimate, Goto, Calm, Live, TypeOK
<1>3. ASSUME NEW r \in Requests, NEW a \in Actuals, SettleActual(r, a) PROVE Calm'
  BY <1>1, <1>3 DEF SettleActual, Goto, Calm, Live, TypeOK, guard
<1>4. ASSUME NEW r \in Requests, SettleNone(r) PROVE Calm'
  BY <1>1, <1>4 DEF SettleNone, Goto, Calm, Live, TypeOK, guard
<1>5. ASSUME NEW s \in Specs, ReloadPolicy(s) PROVE Calm'
  BY <1>5 DEF ReloadPolicy, Calm, Live, guard
<1>6. CASE Tick
  BY <1>1, <1>6, QuotaConstants DEF Tick, Calm, Live, guard, TypeOK
<1>7. ASSUME NEW r \in Requests, Reserve(r) PROVE Calm'
  <2>1. key[r] \in Keys /\ WindowIdx(clk[r], spec[r]) = 0
    BY <1>1, OneWindow DEF TypeOK
  <2>2. PICK d : d = Entered(counters[key[r]], 0, clk[r])
    OBVIOUS
  <2>3. d.window_idx = 0 /\ Reserved(d, est[r]).window_idx = 0
    <3>1. counters[key[r]] = NoCounter \/ counters[key[r]] \in WindowCounter
      BY <1>1, <2>1 DEF TypeOK
    <3>2. d.window_idx = 0
      BY <2>2, <3>1, EnteredEst
    <3>3. Good(d)
      <4>1. clk[r] \in Nat /\ 0 \in Nat
        BY <1>1 DEF TypeOK
      <4> QED BY <2>1, <2>2, <4>1, CounterGood, EnteredGood
    <3> QED BY <3>2, <3>3 DEF Good, Reserved, WindowCounter
  <2>4. \/ Goto(r, "reserve", "denied") /\ counters' = [counters EXCEPT ![key[r]] = d] /\ widx' = widx
        \/ /\ Goto(r, "reserve", "inflight") /\ widx' = [widx EXCEPT ![r] = 0]
           /\ counters' = [counters EXCEPT ![key[r]] = Reserved(d, est[r])]
    BY <1>7, <2>1, <2>2 DEF Reserve
  <2>5. d # NoCounter /\ Reserved(d, est[r]) # NoCounter
    <3>1. clk[r] \in Nat /\ 0 \in Nat /\ est[r] \in Tokens
      BY <1>1 DEF TypeOK
    <3>2. Good(d)
      BY <2>1, <2>2, <3>1, CounterGood, EnteredGood
    <3>3. Good(Reserved(d, est[r]))
      BY <3>1, <3>2, ReservedGood
    <3> QED BY <3>2, <3>3, GoodIsLive
  <2>6. UNCHANGED <<now, key, est, actual>>
    BY <1>7 DEF Reserve
  <2> QED BY <1>1, <2>3, <2>4, <2>5, <2>6, CalmWrite
<1>8. ASSUME NEW r \in Requests, Settle(r) PROVE Calm'
  <2>1. key[r] \in Keys /\ WindowIdx(clk[r], spec[r]) = 0 /\ UNCHANGED <<now, key, est, actual, widx>>
    BY <1>1, <1>8, OneWindow DEF TypeOK, Settle, Commit, CommitInsert, Release, guard
  <2>2. PICK c : c = counters[key[r]]
    OBVIOUS
  <2>3. pc[r] \in {"commit", "release"}
    BY <1>8 DEF Settle, Commit, CommitInsert, Release, Goto, Calm
  <2>4. c # NoCounter /\ c.window_idx = 0
    BY <2>1, <2>2, <2>3 DEF Calm, Live
  <2>5. Good(c)
    BY <2>1, <2>2, <2>4, CounterGood
  <2>6. /\ clk[r] \in Nat /\ est[r] \in Tokens /\ actual[r] \in Tokens
        /\ widx[r] = 0 /\ 0 \in Nat
    BY <1>1 DEF TypeOK, Calm
  <2>7. PICK d, to : /\ counters' = [counters EXCEPT ![key[r]] = d] /\ Goto(r, pc[r], to) /\ to # "insert"
                     /\ \/ d = Committed(c, 0, clk[r], est[r], actual[r])
                        \/ d = Released(c, 0, clk[r], est[r])
    BY <1>8, <2>1, <2>2, <2>3, <2>4, <2>6 DEF Settle, Commit, CommitInsert, Release, Goto
  <2>8. Good(d)
    BY <2>5, <2>6, <2>7, CommittedGood, ReleasedGood
  <2>9. d # NoCounter
    BY <2>8, GoodIsLive
  <2>10. d.window_idx = 0
    BY <2>4, <2>5, <2>7 DEF Good, Committed, Released, WindowCounter
  <2> QED BY <1>1, <2>1, <2>7, <2>9, <2>10, CalmWrite
<1>9. ASSUME NEW k \in Keys, EvictIdle(k) PROVE Calm'
  BY <1>1, <1>9, NoEviction
<1> QED BY <1>2, <1>3, <1>4, <1>5, <1>6, <1>7, <1>8, <1>9 DEF Next

\* What the completed requests are charged, when none of them or one more completes.
LEMMA ChargesStay ==
  ASSUME TypeOK, TypeOK', NEW r \in Requests, NEW from, NEW to, Goto(r, from, to),
         from # "committed", to # "committed", key' = key, NEW k,
         \A q \in Requests : q # r => actual'[q] = actual[q] /\ est'[q] = est[q]
  PROVE  Charged(k)' = Charged(k) /\ Over(k)' = Over(k)
<1>1. Completed(k)' = Completed(k)
  BY DEF TypeOK, Goto, Completed
<1>2. r \notin Completed(k) /\ Completed(k) \subseteq Requests
  BY DEF Goto, Completed
<1>3. \A q \in Completed(k) : actual'[q] = actual[q] /\ est'[q] = est[q]
  BY <1>2
<1> QED BY <1>1, <1>3, SameCharges

LEMMA ChargesEnter ==
  ASSUME TypeOK, TypeOK', NEW r \in Requests, NEW from, from # "committed",
         Goto(r, from, "committed"), UNCHANGED <<key, est, actual>>, NEW k
  PROVE  /\ key[r] = k => /\ Charged(k)' = Charged(k) + actual[r]
                          /\ Over(k)' = Over(k) + SatSub(actual[r], est[r])
         /\ key[r] # k => Charged(k)' = Charged(k) /\ Over(k)' = Over(k)
<1>1. /\ key[r] = k => Completed(k)' = Completed(k) \cup {r}
      /\ key[r] # k => Completed(k)' = Completed(k)
      /\ r \notin Completed(k)
  BY DEF TypeOK, Goto, Completed
<1>2. CASE key[r] = k
  BY <1>1, <1>2, OneCompletes
<1>3. CASE key[r] # k
  BY <1>1, <1>3, SameCharges
<1> QED BY <1>2, <1>3

\* A key without a counter has neither guards nor charges.
LEMMA NothingOwed ==
  ASSUME TypeOK, Calm, NEW k, ~Live(k)
  PROVE  InflightEst(k, 0) = 0 /\ Charged(k) = 0 /\ Over(k) = 0
<1>1. Holders(k, 0) = {} /\ Completed(k) = {}
  BY DEF Calm, Holders, Completed
<1> QED BY <1>1, SumEmpty DEF InflightEst, Charged, Over, Sum

\* The next totals fit, so no saturating sum of the step saturates.
LEMMA Room ==
  ASSUME FixedBudget, TypeOK', Calm', NEW k
  PROVE  InflightEst(k, 0)' \in Nat /\ Charged(k)' \in Nat /\ InflightEst(k, 0)' + Charged(k)' <= U64Max
<1>1. Holders(k, 0)' \in SUBSET Requests /\ Completed(k)' \in SUBSET Requests
  BY DEF Holders, Completed
<1>2. Holders(k, 0)' \cap Completed(k)' = {}
  BY DEF Holders, Completed
<1>3. /\ \A x \in Holders(k, 0)' : est'[x] \in Ests \cup {0}
      /\ \A x \in Completed(k)' : actual'[x] \in Actuals \cup {0}
  BY <1>1 DEF Calm
<1>4. PICK H, C, f, h : H = Holders(k, 0)' /\ C = Completed(k)' /\ f = est' /\ h = actual'
  OBVIOUS
<1>5. Sum(f, H) \in Nat /\ Sum(h, C) \in Nat /\ Sum(f, H) + Sum(h, C) <= U64Max
  <2>1. /\ H \in SUBSET Requests /\ C \in SUBSET Requests /\ H \cap C = {}
        /\ \A x \in H : f[x] \in Ests \cup {0}
        /\ \A x \in C : h[x] \in Actuals \cup {0}
    BY <1>1, <1>2, <1>3, <1>4
  <2> QED BY <2>1, Fits
<1>6. InflightEst(k, 0)' = Sum(f, H) /\ Charged(k)' = Sum(h, C)
  BY <1>4 DEF InflightEst, Charged, Sum
<1> QED BY <1>5, <1>6

LEMMA BalanceUpdate ==
  ASSUME TypeOK, TypeOK', Balanced, NEW k0 \in Keys, NEW d,
         counters' = [counters EXCEPT ![k0] = d],
         \A k \in Keys : k # k0 => InflightEst(k, 0)' = InflightEst(k, 0) /\ Charged(k)' = Charged(k),
         d.est = InflightEst(k0, 0)', d.used = InflightEst(k0, 0)' + Charged(k0)'
  PROVE  Balanced'
<1> SUFFICES ASSUME NEW k \in Keys, counters'[k] # NoCounter
             PROVE  /\ counters'[k].est = InflightEst(k, 0)'
                    /\ counters'[k].used = InflightEst(k, 0)' + Charged(k)'
  BY DEF Balanced, Live
<1>1. CASE k = k0
  <2>1. counters'[k] = d
    BY <1>1 DEF TypeOK
  <2> QED BY <1>1, <2>1
<1>2. CASE k # k0
  <2>1. counters'[k] = counters[k]
    BY <1>2 DEF TypeOK
  <2>2. counters[k].est = InflightEst(k, 0) /\ counters[k].used = InflightEst(k, 0) + Charged(k)
    BY <2>1 DEF Balanced, Live
  <2> QED BY <1>2, <2>1, <2>2
<1> QED BY <1>1, <1>2

LEMMA HardUpdate ==
  ASSUME TypeOK, TypeOK', HardBudget, NEW k0 \in Keys, NEW d, policy' = policy,
         counters' = [counters EXCEPT ![k0] = d],
         \A k \in Keys : k # k0 => Over(k)' = Over(k),
         \A h \in policy.hard : d.used <= h + Over(k0)'
  PROVE  HardBudget'
<1> SUFFICES ASSUME NEW k \in Keys, counters'[k] # NoCounter, NEW h \in policy.hard
             PROVE  counters'[k].used <= h + Over(k)'
  BY DEF HardBudget, Live, Over, Sum
<1>1. CASE k = k0
  <2>1. counters'[k] = d
    BY <1>1 DEF TypeOK
  <2> QED BY <1>1, <2>1
<1>2. CASE k # k0
  <2>1. counters'[k] = counters[k]
    BY <1>2 DEF TypeOK
  <2>2. counters[k].used <= h + Over(k)
    BY <2>1 DEF HardBudget, Live, Over, Sum
  <2> QED BY <1>2, <2>1, <2>2
<1> QED BY <1>1, <1>2

LEMMA QuietBudget ==
  ASSUME TypeOK, TypeOK', Balanced, counters' = counters,
         \A k \in Keys : /\ InflightEst(k, 0)' = InflightEst(k, 0)
                        /\ Charged(k)' = Charged(k) /\ Over(k)' = Over(k)
  PROVE  Balanced' /\ (HardBudget /\ policy' = policy => HardBudget')
<1>1. Balanced'
  BY DEF Balanced, Live
<1>2. HardBudget /\ policy' = policy => HardBudget'
  BY DEF HardBudget, Live, Over, Sum
<1> QED BY <1>1, <1>2

LEMMA StartBudget ==
  ASSUME TypeOK, TypeOK', Balanced, NEW r \in Requests,
         \/ \E e \in Ests : Estimate(r, e)
         \/ \E a \in Actuals : SettleActual(r, a)
         \/ SettleNone(r)
  PROVE  Balanced' /\ (HardBudget => HardBudget')
<1>1. /\ UNCHANGED <<counters, policy, key, widx>>
      /\ \A q \in Requests : q # r => actual'[q] = actual[q] /\ est'[q] = est[q]
  BY DEF Estimate, SettleActual, SettleNone, guard, TypeOK
<1>2. ASSUME NEW k PROVE InflightEst(k, 0)' = InflightEst(k, 0)
  <2>1. CASE \E e \in Ests : Estimate(r, e)
    <3>1. Goto(r, "idle", "reserve")
      BY <2>1 DEF Estimate
    <3>2. Holders(k, 0)' = Holders(k, 0)
      BY <1>1, <3>1, HoldersStay DEF Holding
    <3>3. r \notin Holders(k, 0) /\ Holders(k, 0) \subseteq Requests
      BY <3>1 DEF Holders, Goto
    <3>4. \A x \in Holders(k, 0) : est'[x] = est[x]
      BY <1>1, <3>3
    <3> QED BY <3>2, <3>4, SameInflight
  <2>2. CASE SettleNone(r) \/ \E a \in Actuals : SettleActual(r, a)
    <3>1. /\ Goto(r, "inflight", "commit") \/ Goto(r, "inflight", "release")
          /\ est' = est
      BY <2>2 DEF SettleActual, SettleNone, guard
    <3>2. Holders(k, 0)' = Holders(k, 0)
      BY <1>1, <3>1, HoldersStay DEF Holding
    <3> QED BY <3>1, <3>2, SameInflight
  <2> QED BY <2>1, <2>2
<1>3. ASSUME NEW k PROVE Charged(k)' = Charged(k) /\ Over(k)' = Over(k)
  <2>1. \/ Goto(r, "idle", "reserve") \/ Goto(r, "inflight", "commit")
        \/ Goto(r, "inflight", "release")
    BY DEF Estimate, SettleActual, SettleNone
  <2> QED BY <1>1, <2>1, ChargesStay
<1> QED BY <1>1, <1>2, <1>3, QuietBudget

\* The total that reserve enters is exact, and so is the one it leaves; a request
\* it admits finds room for its estimate below the limit.
LEMMA ReserveBudget ==
  ASSUME FixedBudget, IInv, TypeOK', Calm, Calm', Balanced, NEW r \in Requests, Reserve(r)
  PROVE  Balanced' /\ (OneSpec /\ HardBudget => HardBudget')
<1>1. key[r] \in Keys /\ spec[r] \in Specs /\ clk[r] \in Nat /\ est[r] \in Tokens /\ est[r] \in Nat
      /\ TypeOK /\ policy \in Specs /\ 0 \in Nat
  BY DEF IInv, TypeOK, Tokens
<1>2. WindowIdx(clk[r], spec[r]) = 0
  BY <1>1, OneWindow
<1>3. PICK k0 \in Keys, c \in {counters[key[r]]}, d \in {Entered(counters[key[r]], 0, clk[r])} :
        k0 = key[r] /\ c = counters[k0] /\ d = Entered(c, 0, clk[r])
  BY <1>1
<1>4. UNCHANGED <<key, est, actual, policy>>
  BY DEF Reserve
<1>5. InflightEst(k0, 0) \in Nat /\ Charged(k0) \in Nat /\ Over(k0) \in Nat
  BY <1>1, HoldersFinite, CompletedFinite
<1>6. d.est = InflightEst(k0, 0) /\ d.used = InflightEst(k0, 0) + Charged(k0) /\ d \in WindowCounter
  <2>1. Good(d)
    BY <1>1, <1>3, CounterGood, EnteredGood
  <2>2. CASE c = NoCounter
    <3>1. InflightEst(k0, 0) = 0 /\ Charged(k0) = 0
      BY <1>1, <1>3, <2>2, NothingOwed DEF Live
    <3>2. d.est = 0 /\ d.used = 0
      BY <1>3, <2>2 DEF Entered, FreshCounter
    <3> QED BY <2>1, <3>1, <3>2 DEF Good
  <2>3. CASE c # NoCounter
    <3>1. c.window_idx = 0 /\ c.est = InflightEst(k0, 0) /\ c.used = InflightEst(k0, 0) + Charged(k0)
      BY <1>3, <2>3 DEF Calm, Balanced, Live
    <3>2. c \in WindowCounter
      BY <1>1, <1>3, <2>3 DEF TypeOK
    <3>3. d = [c EXCEPT !.last_used_ms = clk[r]]
      BY <1>3, <2>3, <3>1 DEF Entered
    <3>4. d.est = c.est /\ d.used = c.used
      BY <3>2, <3>3 DEF WindowCounter
    <3> QED BY <2>1, <3>1, <3>4 DEF Good
  <2> QED BY <2>2, <2>3
<1>7. ASSUME HardBudget, NEW h \in policy.hard PROVE d.used <= h + Over(k0) /\ h \in Nat
  <2>1. h \in Nat
    BY <1>1, QuotaConstants DEF Spec_
  <2>2. CASE c = NoCounter
    <3>1. d.used = 0
      BY <1>3, <2>2 DEF Entered, FreshCounter
    <3> QED BY <1>5, <2>1, <3>1
  <2>3. CASE c # NoCounter
    <3>1. c.used = InflightEst(k0, 0) + Charged(k0)
      BY <1>3, <2>3 DEF Balanced, Live
    <3>2. c.used <= h + Over(k0)
      BY <1>3, <1>7, <2>3 DEF HardBudget, Live, Over, Sum
    <3> QED BY <1>6, <2>1, <3>1, <3>2
  <2> QED BY <2>2, <2>3
<1>8. CASE Denies(d, spec[r], est[r])
  <2>1. Goto(r, "reserve", "denied") /\ counters' = [counters EXCEPT ![k0] = d] /\ widx' = widx
    BY <1>2, <1>3, <1>8 DEF Reserve
  <2>2. ASSUME NEW k PROVE InflightEst(k, 0)' = InflightEst(k, 0)
    <3>1. Holders(k, 0)' = Holders(k, 0)
      BY <1>1, <1>4, <2>1, HoldersStay DEF Holding
    <3> QED BY <1>1, <1>4, <3>1, SameInflight
  <2>3. ASSUME NEW k PROVE Charged(k)' = Charged(k) /\ Over(k)' = Over(k)
    BY <1>1, <1>4, <2>1, ChargesStay
  <2>4. Balanced'
    <3>1. d.est = InflightEst(k0, 0)' /\ d.used = InflightEst(k0, 0)' + Charged(k0)'
      BY <1>6, <2>2, <2>3
    <3>2. \A k \in Keys : k # k0 => InflightEst(k, 0)' = InflightEst(k, 0) /\ Charged(k)' = Charged(k)
      BY <2>2, <2>3
    <3> QED BY <1>1, <2>1, <3>1, <3>2, BalanceUpdate
  <2>5. HardBudget => HardBudget'
    BY <1>1, <1>4, <1>7, <2>1, <2>3, HardUpdate
  <2> QED BY <2>4, <2>5
<1>9. CASE ~Denies(d, spec[r], est[r])
  <2>1. PICK f : f = Reserved(d, est[r])
    OBVIOUS
  <2>2. /\ Goto(r, "reserve", "inflight") /\ counters' = [counters EXCEPT ![k0] = f]
        /\ widx' = [widx EXCEPT ![r] = 0]
    BY <1>2, <1>3, <1>9, <2>1 DEF Reserve
  <2>3. ASSUME NEW k
        PROVE  /\ k0 = k => InflightEst(k, 0)' = InflightEst(k, 0) + est[r]
               /\ k0 # k => InflightEst(k, 0)' = InflightEst(k, 0)
    <3>1. /\ r \notin Holders(k, 0)
          /\ k0 = k => Holders(k, 0)' = Holders(k, 0) \cup {r}
          /\ k0 # k => Holders(k, 0)' = Holders(k, 0)
      BY <1>1, <1>3, <1>4, <2>2 DEF Holders, Goto, TypeOK
    <3>2. CASE k0 = k
      <4>1. Holders(k, 0)' = Holders(k, 0) \cup {r} /\ r \notin Holders(k, 0)
        BY <3>1, <3>2
      <4>2. InflightEst(k, 0)' = InflightEst(k, 0) + est[r]
        BY <1>1, <1>4, <4>1, OneMore
      <4> QED BY <3>2, <4>2
    <3>3. CASE k0 # k
      BY <1>1, <1>4, <3>1, <3>3, SameInflight
    <3> QED BY <3>2, <3>3
  <2>4. ASSUME NEW k PROVE Charged(k)' = Charged(k) /\ Over(k)' = Over(k)
    BY <1>1, <1>4, <2>2, ChargesStay
  <2>5. InflightEst(k0, 0) + est[r] + Charged(k0) <= U64Max
    <3>1. InflightEst(k0, 0)' + Charged(k0)' <= U64Max
      BY Room
    <3> QED BY <1>1, <1>5, <2>3, <2>4, <3>1
  <2>6. f.est = SatAdd(d.est, est[r]) /\ f.used = SatAdd(d.used, est[r])
    BY <1>6, <2>1 DEF Reserved, WindowCounter
  <2>7. /\ SatAdd(d.est, est[r]) = InflightEst(k0, 0) + est[r]
        /\ SatAdd(d.used, est[r]) = InflightEst(k0, 0) + Charged(k0) + est[r]
    BY <1>1, <1>5, <1>6, <2>5, QuotaConstants DEF SatAdd
  <2>8. /\ f.est = InflightEst(k0, 0)'
        /\ f.used = InflightEst(k0, 0)' + Charged(k0)'
    BY <1>1, <1>5, <2>3, <2>4, <2>6, <2>7
  <2>9. Balanced'
    BY <1>1, <2>2, <2>3, <2>4, <2>8, BalanceUpdate
  <2>10. ASSUME OneSpec, HardBudget PROVE HardBudget'
    <3>1. spec[r] = policy
      BY <1>1, <2>10 DEF OneSpec
    <3>2. \A h \in policy.hard : f.used <= h
      BY <1>1, <1>5, <1>7, <1>9, <2>6, <2>7, <2>10, <3>1 DEF Denies
    <3>3. \A h \in policy.hard : f.used <= h + Over(k0)'
      BY <1>1, <1>5, <1>7, <2>4, <2>6, <2>7, <2>10, <3>2
    <3> QED BY <1>1, <1>4, <2>2, <2>4, <2>10, <3>3, HardUpdate
  <2> QED BY <2>9, <2>10
<1> QED BY <1>8, <1>9

LEMMA SettleBudget ==
  ASSUME FixedBudget, IInv, TypeOK', Calm, Calm', Balanced, NEW r \in Requests, Settle(r)
  PROVE  Balanced' /\ (HardBudget => HardBudget')
<1>1. /\ key[r] \in Keys /\ spec[r] \in Specs /\ widx[r] = 0 /\ TypeOK
      /\ est[r] \in Nat /\ actual[r] \in Nat /\ policy \in Specs
  BY DEF IInv, TypeOK, Tokens, Calm
<1>2. WindowIdx(clk[r], spec[r]) = 0
  BY <1>1, OneWindow
<1>3. UNCHANGED <<key, widx, est, actual, policy>>
  BY DEF Settle, Commit, CommitInsert, Release, guard
<1>4. PICK k0 \in Keys, c \in {counters[key[r]]} : k0 = key[r] /\ c = counters[k0]
  BY <1>1
<1>5. pc[r] \in {"commit", "release"}
  BY DEF Settle, Commit, CommitInsert, Release, Goto, Calm
<1>6. /\ c # NoCounter /\ c.window_idx = 0 /\ c \in WindowCounter
      /\ c.est = InflightEst(k0, 0) /\ c.used = InflightEst(k0, 0) + Charged(k0)
  BY <1>1, <1>4, <1>5 DEF Calm, Live, Balanced, TypeOK
<1>7. /\ InflightEst(k0, 0) \in Nat /\ Charged(k0) \in Nat /\ Over(k0) \in Nat
      /\ est[r] <= InflightEst(k0, 0)
  <2>1. r \in Holders(k0, 0)
    BY <1>1, <1>4, <1>5 DEF Holders
  <2>2. /\ IsFiniteSet(Holders(k0, 0)) /\ (\A x \in Holders(k0, 0) : est[x] \in Nat)
        /\ InflightEst(k0, 0) = Sum(est, Holders(k0, 0)) /\ InflightEst(k0, 0) \in Nat
    BY <1>1, HoldersFinite
  <2>3. est[r] <= Sum(est, Holders(k0, 0))
    BY <2>1, <2>2, SumBounds
  <2> QED BY <1>1, <2>2, <2>3, CompletedFinite
<1>8. ASSUME NEW from \in Holding, NEW to, to \notin Holding, Goto(r, from, to), NEW k
      PROVE  /\ k0 = k => InflightEst(k, 0)' = InflightEst(k, 0) - est[r]
             /\ k0 # k => InflightEst(k, 0)' = InflightEst(k, 0)
  BY <1>1, <1>3, <1>4, <1>8, SettledInflight
<1>9. "commit" \in Holding /\ "release" \in Holding /\ "committed" \notin Holding /\ "released" \notin Holding
  BY DEF Holding
<1>10. \A h \in policy.hard : h \in Nat /\ (HardBudget => c.used <= h + Over(k0))
  <2>1. \A h \in policy.hard : h \in Nat
    BY <1>1, QuotaConstants DEF Spec_
  <2> QED BY <1>4, <1>6, <2>1 DEF HardBudget, Live, Over, Sum
<1>11. CASE Commit(r)
  <2>1. PICK d : d = Committed(c, 0, clk[r], est[r], actual[r])
    OBVIOUS
  <2>2. Goto(r, "commit", "committed") /\ counters' = [counters EXCEPT ![k0] = d]
    BY <1>2, <1>4, <1>6, <1>11, <2>1 DEF Commit
  <2>3. \A k : /\ k0 = k => InflightEst(k, 0)' = InflightEst(k, 0) - est[r]
               /\ k0 # k => InflightEst(k, 0)' = InflightEst(k, 0)
    BY <1>8, <1>9, <2>2
  <2>4. \A k : /\ k0 = k => /\ Charged(k)' = Charged(k) + actual[r]
                            /\ Over(k)' = Over(k) + SatSub(actual[r], est[r])
               /\ k0 # k => Charged(k)' = Charged(k) /\ Over(k)' = Over(k)
    BY <1>1, <1>3, <1>4, <2>2, ChargesEnter
  <2>5. InflightEst(k0, 0) - est[r] + (Charged(k0) + actual[r]) <= U64Max
    <3>1. InflightEst(k0, 0)' + Charged(k0)' <= U64Max
      BY Room
    <3> QED BY <2>3, <2>4, <3>1
  <2>6. PICK e : e = IF est[r] < c.est THEN est[r] ELSE c.est
    OBVIOUS
  <2>7. e = est[r]
    BY <1>1, <1>6, <1>7, <2>6
  <2>8. d.est = SatSub(c.est, e) /\ d.used = SatAdd(SatSub(c.used, e), actual[r])
    BY <1>6, <2>1, <2>6 DEF Committed, WindowCounter
  <2>9. SatSub(c.est, e) = InflightEst(k0, 0) - est[r]
        /\ SatSub(c.used, e) = InflightEst(k0, 0) + Charged(k0) - est[r]
    BY <1>1, <1>6, <1>7, <2>7 DEF SatSub
  <2>10. d.used = InflightEst(k0, 0) + Charged(k0) - est[r] + actual[r]
    BY <1>1, <1>7, <2>5, <2>8, <2>9, QuotaConstants DEF SatAdd
  <2>11. Balanced'
    <3>1. d.est = InflightEst(k0, 0)' /\ d.used = InflightEst(k0, 0)' + Charged(k0)'
      BY <1>1, <1>7, <2>3, <2>4, <2>8, <2>9, <2>10
    <3>2. \A k \in Keys : k # k0 => InflightEst(k, 0)' = InflightEst(k, 0) /\ Charged(k)' = Charged(k)
      BY <2>3, <2>4
    <3> QED BY <1>1, <2>2, <3>1, <3>2, BalanceUpdate
  <2>12. ASSUME HardBudget PROVE HardBudget'
    <3>1. SatSub(actual[r], est[r]) \in Nat /\ actual[r] - est[r] <= SatSub(actual[r], est[r])
      BY <1>1 DEF SatSub
    <3>2. Over(k0)' = Over(k0) + SatSub(actual[r], est[r])
      BY <2>4
    <3>3. d.used <= c.used + SatSub(actual[r], est[r])
      BY <1>1, <1>6, <1>7, <2>10, <3>1
    <3>4. d.used \in Int /\ c.used \in Int
      BY <1>1, <1>6, <1>7, <2>10
    <3>5. \A h \in policy.hard : d.used <= h + Over(k0)'
      BY <1>7, <1>10, <2>12, <3>1, <3>2, <3>3, <3>4
    <3>6. \A k \in Keys : k # k0 => Over(k)' = Over(k)
      BY <2>4
    <3> QED BY <1>1, <1>3, <2>2, <2>12, <3>5, <3>6, HardUpdate
  <2> QED BY <2>11, <2>12
<1>12. CASE Release(r)
  <2>1. PICK d : d = Released(c, 0, clk[r], est[r])
    OBVIOUS
  <2>2. Goto(r, "release", "released") /\ counters' = [counters EXCEPT ![k0] = d]
    BY <1>1, <1>4, <1>6, <1>12, <2>1 DEF Release
  <2>3. \A k : /\ k0 = k => InflightEst(k, 0)' = InflightEst(k, 0) - est[r]
               /\ k0 # k => InflightEst(k, 0)' = InflightEst(k, 0)
    BY <1>8, <1>9, <2>2
  <2>4. \A k : Charged(k)' = Charged(k) /\ Over(k)' = Over(k)
    BY <1>1, <1>3, <2>2, ChargesStay
  <2>5. d.est = SatSub(c.est, est[r]) /\ d.used = SatSub(c.used, est[r])
    BY <1>6, <2>1 DEF Released, WindowCounter
  <2>6. d.est = InflightEst(k0, 0) - est[r] /\ d.used = InflightEst(k0, 0) + Charged(k0) - est[r]
    BY <1>1, <1>6, <1>7, <2>5 DEF SatSub
  <2>7. Balanced'
    <3>1. d.est = InflightEst(k0, 0)' /\ d.used = InflightEst(k0, 0)' + Charged(k0)'
      BY <1>1, <1>7, <2>3, <2>4, <2>6
    <3>2. \A k \in Keys : k # k0 => InflightEst(k, 0)' = InflightEst(k, 0) /\ Charged(k)' = Charged(k)
      BY <2>3, <2>4
    <3> QED BY <1>1, <2>2, <3>1, <3>2, BalanceUpdate
  <2>8. ASSUME HardBudget PROVE HardBudget'
    <3>1. \A h \in policy.hard : d.used <= h + Over(k0)'
      BY <1>1, <1>6, <1>7, <1>10, <2>4, <2>6, <2>8
    <3> QED BY <1>1, <1>3, <2>2, <2>4, <2>8, <3>1, HardUpdate
  <2> QED BY <2>7, <2>8
<1>13. CASE CommitInsert(r)
  BY <1>5, <1>13 DEF CommitInsert, Goto
<1> QED BY <1>11, <1>12, <1>13 DEF Settle

\* The inductive invariant of a fixed budget.
ExactInv == IInv /\ Calm /\ Balanced

LEMMA InitExact == Init => ExactInv /\ HardBudget
<1> SUFFICES ASSUME Init PROVE ExactInv /\ HardBudget
  OBVIOUS
<1>1. \A k \in Keys : ~Live(k)
  BY DEF Init, Live
<1>2. IInv
  BY InitIInv
<1>3. Calm
  BY <1>1, QuotaConstants DEF Init, Calm
<1> QED BY <1>1, <1>2, <1>3 DEF ExactInv, Balanced, HardBudget

LEMMA NextExact ==
  ASSUME FixedBudget, ExactInv, [Next]_vars
  PROVE  ExactInv' /\ (OneSpec /\ HardBudget => HardBudget')
<1>1. TypeOK /\ TypeOK' /\ IInv /\ IInv'
  <2>1. IInv /\ IInv'
    BY NextIInv DEF ExactInv
  <2> QED BY <2>1 DEF IInv
<1>2. CASE UNCHANGED vars
  <2>1. \A k : /\ InflightEst(k, 0)' = InflightEst(k, 0)
               /\ Charged(k)' = Charged(k) /\ Over(k)' = Over(k)
    BY <1>2 DEF vars, InflightEst, Holders, Charged, Completed, Over, Overrun, Sum
  <2>2. Balanced' /\ (HardBudget => HardBudget')
    BY <1>1, <1>2, <2>1, QuietBudget DEF ExactInv, vars
  <2>3. Calm'
    BY <1>2 DEF ExactInv, vars, Calm, Live
  <2> QED BY <1>1, <2>2, <2>3 DEF ExactInv
<1>3. CASE Next
  <2>1. Calm' /\ Calm /\ Balanced
    BY <1>1, <1>3, NextCalm DEF ExactInv
  <2>2. Balanced' /\ (OneSpec /\ HardBudget => HardBudget')
    <3>1. ASSUME Tick \/ \E s \in Specs : ReloadPolicy(s)
          PROVE  Balanced' /\ (OneSpec /\ HardBudget => HardBudget')
      <4>1. UNCHANGED <<counters, pc, key, widx, est, actual>>
        BY <3>1 DEF Tick, ReloadPolicy, guard
      <4>2. \A k : /\ InflightEst(k, 0)' = InflightEst(k, 0)
                   /\ Charged(k)' = Charged(k) /\ Over(k)' = Over(k)
        BY <4>1 DEF InflightEst, Holders, Charged, Completed, Over, Overrun, Sum
      <4>3. OneSpec => policy' = policy
        BY <1>1, <3>1 DEF Tick, ReloadPolicy, OneSpec, TypeOK
      <4> QED BY <1>1, <2>1, <4>1, <4>2, <4>3, QuietBudget
    <3>2. ASSUME NEW k \in Keys, EvictIdle(k) PROVE FALSE
      BY <1>1, <2>1, <3>2, NoEviction
    <3> QED BY <1>1, <1>3, <2>1, <3>1, <3>2, StartBudget, ReserveBudget, SettleBudget DEF Next
  <2> QED BY <1>1, <2>1, <2>2 DEF ExactInv
<1> QED BY <1>2, <1>3

\* The two-phase protocol is exact: a counter's total is what completed requests
\* reported plus what the unfinished ones reserved, for any number of requests,
\* any interleaving of their reserves, commits and releases, and any reload.
THEOREM BudgetIsExact ==
  ASSUME FixedBudget PROVE Spec => []UsedIsExact
<1>1. ExactInv => UsedIsExact
  BY DEF ExactInv, Balanced, UsedIsExact, Charged, Sum
<1>2. ExactInv /\ [Next]_vars => ExactInv'
  BY NextExact
<1> QED BY <1>1, <1>2, InitExact, PTL DEF Spec

\* Concurrent requests never jointly pass the hard limit by more than what
\* completed ones reported above their own estimate.
THEOREM HardLimitHolds ==
  ASSUME FixedBudget, OneSpec PROVE Spec => []HardBudget
<1>1. ExactInv /\ HardBudget /\ [Next]_vars => ExactInv' /\ HardBudget'
  BY NextExact
<1> QED BY <1>1, InitExact, PTL DEF Spec
=============================================================================
