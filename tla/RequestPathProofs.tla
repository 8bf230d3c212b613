------------------------- MODULE RequestPathProofs -------------------------
(***************************************************************************)
(* Proofs about RequestPath: the accounting of a request, the ext-auth of  *)
(* each hop, the gate on resends and the end of failover at the first      *)
(* byte, for every route table and every policy.                           *)
(***************************************************************************)
EXTENDS RequestPath, TLAPS

Ended == {"return", "done"}

\* Before its end a request has counted and reported nothing.
Counters ==
  /\ pc \in Stages
  /\ pc \notin Ended => recorded = 0 /\ rows = 0
  /\ pc \in Ended => recorded = 1 /\ rows \in {0, 1}
  /\ pc \in Ended /\ header = "2xx" => (rows = 1 <=> IsModelRoute)

\* The guard is taken once, on the first hop, and settled at the end only.
GuardLife ==
  /\ quota \in {"none", "held", "committed", "released"}
  /\ quota \in {"none", "held"} => settles = 0
  /\ quota \in {"committed", "released"} => settles = 1
  /\ pc \notin Ended => quota \in {"none", "held"} /\ ~streamed
  /\ pc \in {"rate_pre", "body", "rate_post", "reserve"} => quota = "none"
  /\ pc \in {"prepare", "auth"} /\ hop = 0 => quota = "none"
  /\ hop \in Nat
  /\ quota = "committed" => streamed
  /\ streamed => quota \in {"none", "committed"}
  /\ pc = "done" => quota # "held"

HeaderLast == pc \notin {"stream", "broken"} \cup Ended => header = "none"

Authorized ==
  pc \in {"rate_post", "reserve", "guardrail", "dial", "stream"}
    /\ failClosed /\ Table[route].auth => authed

Gated ==
  /\ pc \in {"auth", "rate_post", "reserve", "guardrail"} => i = 0
  /\ ResendIsGated

IInv == Counters /\ GuardLife /\ HeaderLast /\ Authorized /\ Gated

LEMMA InitIInv == Init => IInv
  BY DEF Init, IInv, Counters, GuardLife, HeaderLast, Authorized, Gated, ResendIsGated,
         Stages, Ended

LEMMA ShortCircuitIInv ==
  ASSUME IInv, pc \notin {"return", "done"}, ShortCircuit
  PROVE  IInv'
  BY DEF IInv, Counters, GuardLife, HeaderLast, Authorized, Gated, ResendIsGated, Stages,
         Ended, ShortCircuit, Record, target, attempt, guard, IsModelRoute

\* Moving on between the stages before the dial.
LEMMA ProceedIInv ==
  ASSUME IInv, NEW stage, Proceed(stage),
         \/ pc = "rate_pre" /\ stage = "body"
         \/ pc = "body" /\ stage = "prepare"
         \/ pc = "rate_post" /\ stage = "reserve"
         \/ pc = "reserve" /\ stage = "guardrail"
         \/ pc = "guardrail" /\ stage = "dial"
         \/ pc = "stream" /\ stage = "broken"
         \/ pc = "fallback" /\ stage = "forward"
  PROVE  IInv'
  BY DEF IInv, Counters, GuardLife, HeaderLast, Authorized, Gated, ResendIsGated, Stages,
         Ended, Proceed, target, attempt, response, guard, meters, IsModelRoute

LEMMA PrepareIInv ==
  ASSUME IInv, Prepare
  PROVE  IInv'
<1>1. CASE ShortCircuit
  BY <1>1, ShortCircuitIInv DEF Prepare
<1>2. CASE /\ pc' = "auth" /\ i' = 0
           /\ UNCHANGED <<hop, response, guard, meters>>
  BY <1>2 DEF IInv, Counters, GuardLife, HeaderLast, Authorized, Gated, ResendIsGated, Stages,
              Ended, Prepare, response, guard, meters
<1> QED BY <1>1, <1>2 DEF Prepare

LEMMA AuthIInv ==
  ASSUME IInv, Auth
  PROVE  IInv'
<1>1. CASE ShortCircuit
  BY <1>1, ShortCircuitIInv DEF Auth
<1>2. CASE Pass
  BY <1>2 DEF IInv, Counters, GuardLife, HeaderLast, Authorized, Gated, ResendIsGated, Stages,
              Ended, Auth, Pass, AfterAuth, target, attempt, response, guard, meters
<1>3. CASE Proceed(AfterAuth) /\ ~(failClosed /\ Table[route].auth)
  BY <1>3 DEF IInv, Counters, GuardLife, HeaderLast, Authorized, Gated, ResendIsGated, Stages,
              Ended, Auth, Proceed, AfterAuth, target, attempt, response, guard, meters
<1> QED BY <1>1, <1>2, <1>3 DEF Auth

LEMMA ReserveIInv ==
  ASSUME IInv, Reserve
  PROVE  IInv'
<1>1. CASE ShortCircuit
  BY <1>1, ShortCircuitIInv DEF Reserve
<1>2. CASE Proceed("guardrail")
  BY <1>2, ProceedIInv DEF Reserve
<1>3. CASE /\ quota' = "held" /\ pc' = "guardrail"
           /\ UNCHANGED <<target, attempt, authed, response, settles, meters>>
  BY <1>3 DEF IInv, Counters, GuardLife, HeaderLast, Authorized, Gated, ResendIsGated, Stages,
              Ended, Reserve, target, attempt, response, meters
<1> QED BY <1>1, <1>2, <1>3 DEF Reserve

\* The terminals that report usage, count and leave the guard alone.
LEMMA TerminalIInv ==
  ASSUME IInv, GuardrailIn \/ Broken \/ ForwardHttp \/ ForwardTransport,
         ~Proceed("dial")
  PROVE  IInv'
<1>1. /\ pc \notin Ended /\ pc' = "return"
      /\ recorded' = recorded + 1
      /\ rows' = (IF IsModelRoute THEN rows + 1 ELSE rows) \/ (rows' = rows /\ header' = "error")
      /\ UNCHANGED <<target, attempt, authed, streamed, guard>>
  BY DEF GuardrailIn, Broken, ForwardHttp, ForwardTransport, Record, ReportUsage, Ended,
         response
<1> QED BY <1>1 DEF IInv, Counters, GuardLife, HeaderLast, Authorized, Gated, ResendIsGated,
                    Stages, Ended, target, attempt, guard, IsModelRoute

LEMMA DialIInv ==
  ASSUME IInv, NEW outcome, Dial(outcome)
  PROVE  IInv'
<1>1. UNCHANGED <<target, authed, response, guard, meters>> /\ pc = "dial"
  BY DEF Dial
<1>2. Counters' /\ GuardLife' /\ HeaderLast' /\ Authorized'
  BY <1>1 DEF Dial, IInv, Counters, GuardLife, HeaderLast, Authorized, Stages, Ended,
              target, response, guard, meters
<1>3. CASE outcome # "2xx" /\ Advances(outcome)
  BY <1>1, <1>2, <1>3 DEF IInv, Dial, Gated, ResendIsGated, Advances, should_retry, target
<1>4. CASE i' = i
  BY <1>1, <1>2, <1>4 DEF IInv, Dial, Gated, ResendIsGated, target
<1> QED BY <1>3, <1>4 DEF Dial

LEMMA StreamIInv ==
  ASSUME IInv, WriteHeader \/ StreamEnd \/ GuardrailCut
  PROVE  IInv'
<1>1. CASE WriteHeader
  BY <1>1 DEF WriteHeader, IInv, Counters, GuardLife, HeaderLast, Authorized, Gated,
              ResendIsGated, Stages, Ended, target, attempt, guard, meters
<1>2. CASE StreamEnd
  BY <1>2 DEF StreamEnd, Settle, Record, ReportUsage, IInv, Counters, GuardLife, HeaderLast,
              Authorized, Gated, ResendIsGated, Stages, Ended, target, attempt, guard,
              IsModelRoute
<1>3. CASE GuardrailCut
  BY <1>3 DEF GuardrailCut, Settle, Record, ReportUsage, IInv, Counters, GuardLife, HeaderLast,
              Authorized, Gated, ResendIsGated, Stages, Ended, target, attempt, response, guard,
              IsModelRoute
<1> QED BY <1>1, <1>2, <1>3

LEMMA FallbackIInv ==
  ASSUME IInv, Fallback
  PROVE  IInv'
<1>1. CASE Proceed("forward")
  BY <1>1, ProceedIInv DEF Fallback
<1>2. CASE \E spec \in Plans :
             /\ Redirect(spec)
             /\ pc' = "prepare"
             /\ UNCHANGED <<failClosed, nonIdem, route, cands, tries, attempt, authed, response,
                         guard, meters>>
  <2>1. hop' # 0 /\ hop' \in Nat
    BY <1>2 DEF Redirect, IInv, GuardLife
  <2> QED BY <1>2, <2>1 DEF Fallback, IInv, Counters, GuardLife, HeaderLast, Authorized, Gated,
             ResendIsGated, Stages, Ended, response, guard, meters
<1> QED BY <1>1, <1>2 DEF Fallback

LEMMA ReturnIInv ==
  ASSUME IInv, Return
  PROVE  IInv'
  BY DEF Return, Drop, Settle, IInv, Counters, GuardLife, HeaderLast, Authorized, Gated,
         ResendIsGated, Stages, Ended, target, attempt, response, guard, meters, IsModelRoute

LEMMA NextIInv == IInv /\ [Next]_vars => IInv'
<1> SUFFICES ASSUME IInv, [Next]_vars PROVE IInv'
  OBVIOUS
<1>1. CASE RateLimitPre \/ ReadBody \/ RateLimitPost
  <2>1. CASE ShortCircuit
    BY <1>1, <2>1, ShortCircuitIInv DEF RateLimitPre, ReadBody, RateLimitPost
  <2> QED BY <1>1, <2>1, ProceedIInv DEF RateLimitPre, ReadBody, RateLimitPost
<1>2. CASE Prepare
  BY <1>2, PrepareIInv
<1>3. CASE Auth
  BY <1>3, AuthIInv
<1>4. CASE Reserve
  BY <1>4, ReserveIInv
<1>5. CASE GuardrailIn \/ Broken \/ ForwardHttp \/ ForwardTransport
  <2>1. CASE Proceed("dial")
    <3>1. GuardrailIn
      BY <1>5, <2>1 DEF Proceed, Broken, ForwardHttp, ForwardTransport
    <3> QED BY <2>1, <3>1, ProceedIInv DEF GuardrailIn
  <2> QED BY <1>5, <2>1, TerminalIInv
<1>6. CASE \E outcome \in Statuses \cup Transports : Dial(outcome)
  BY <1>6, DialIInv
<1>7. CASE WriteHeader \/ StreamEnd \/ GuardrailCut
  BY <1>7, StreamIInv
<1>8. CASE StreamBreaks
  BY <1>8, ProceedIInv DEF StreamBreaks
<1>9. CASE Fallback
  BY <1>9, FallbackIInv
<1>10. CASE Return
  BY <1>10, ReturnIInv
<1>11. CASE UNCHANGED vars
  BY <1>11 DEF vars, IInv, Counters, GuardLife, HeaderLast, Authorized, Gated, ResendIsGated,
               IsModelRoute
<1> QED BY <1>1, <1>2, <1>3, <1>4, <1>5, <1>6, <1>7, <1>8, <1>9, <1>10, <1>11
        DEF Next, Handle, Stream, Finished

LEMMA Inductive == Spec => []IInv
  BY InitIInv, NextIInv, PTL DEF Spec

\* Every terminal of request_filter counts the request once in
\* hygress_requests_total, for every route table and policy.
THEOREM RequestsAreCounted == Spec => []RecordedOnce
<1>1. IInv => RecordedOnce
  BY DEF IInv, Counters, RecordedOnce, Ended
<1> QED BY <1>1, Inductive, PTL

\* The reservation of a request is settled exactly once, by a commit exactly if a
\* 2xx stream was relayed to its end, across any number of hops.
THEOREM ReservationsAreSettled == Spec => []ReservationSettledOnce
<1>1. IInv => ReservationSettledOnce
  BY DEF IInv, GuardLife, ReservationSettledOnce
<1> QED BY <1>1, Inductive, PTL

\* A request pushes at most one usage row, and one for every relayed 2xx answer of
\* a model route.
THEOREM RequestsAreMetered == Spec => []MeteredOnce
<1>1. IInv => MeteredOnce
  BY DEF IInv, Counters, MeteredOnce, Ended
<1> QED BY <1>1, Inductive, PTL

\* With fail-closed ext-auth every dial into a scoped route is authorized on its
\* own hop.
THEOREM DialsAreAuthorized == Spec => []DialIsAuthorized
<1>1. IInv => DialIsAuthorized
  BY DEF IInv, Authorized, DialIsAuthorized
<1> QED BY <1>1, Inductive, PTL

\* should_retry's gate holds over the whole failover loop.
THEOREM ResendsAreGated == Spec => []ResendIsGated
<1>1. IInv => ResendIsGated
  BY DEF IInv, Gated
<1> QED BY <1>1, Inductive, PTL

\* After the first byte of a response nothing is sent upstream.
THEOREM NoFailoverAfterFirstByte == Spec => NoDialAfterHeader
<1>1. IInv /\ [Next]_vars => [header # "none" => sent' = sent]_vars
  <2> SUFFICES ASSUME IInv, Next, header # "none" PROVE sent' = sent
    BY DEF vars
  <2>1. pc \in {"stream", "broken"} \cup Ended
    BY DEF IInv, HeaderLast
  <2> QED BY <2>1 DEF Ended, Next, Handle, Stream, Finished, RateLimitPre, ReadBody, Prepare,
             Auth, RateLimitPost, Reserve, GuardrailIn, Dial, WriteHeader, StreamEnd,
             GuardrailCut, StreamBreaks, Broken, Fallback, ForwardHttp, ForwardTransport,
             Return, Proceed, attempt, vars
<1> QED BY <1>1, Inductive, PTL DEF Spec, NoDialAfterHeader

-----------------------------------------------------------------------------
(* ------------------------ types and the retry budget ------------------- *)

\* A hop sends to each of its candidates once at most, and at most once more than
\* its policy has retries.
RetryBudget == sent <= cands /\ sent <= tries + 1

\* At the dial the index is that of a candidate, and one send was made for each of
\* those before it.
Dialling ==
  pc \in {"auth", "rate_post", "reserve", "guardrail", "dial"} =>
    i < cands /\ i <= tries /\ sent = i

Matched == pc \in {"auth", "rate_post", "reserve", "guardrail", "dial", "fallback"} => route \in Routes

HopInv == TypeOK /\ RetryBudget /\ Dialling /\ Matched

LEMMA InitHopInv == Init => HopInv
<1> SUFFICES ASSUME Init PROVE HopInv
  OBVIOUS
<1>1. authed \in BOOLEAN /\ streamed \in BOOLEAN
  BY Zenon DEF Init
<1>2. TypeOK
  BY <1>1 DEF Init, TypeOK, Stages
<1>3. RetryBudget /\ Dialling /\ Matched
  BY DEF Init, RetryBudget, Dialling, Matched
<1> QED BY <1>2, <1>3 DEF HopInv

LEMMA ShortCircuitHopInv ==
  ASSUME HopInv, ShortCircuit
  PROVE  HopInv'
  BY DEF HopInv, TypeOK, RetryBudget, Dialling, Matched, ShortCircuit, Record, Stages, target, attempt, guard

\* No stage before the dial touches the index or the candidates.
LEMMA ProceedHopInv ==
  ASSUME HopInv, NEW stage \in Stages, Proceed(stage),
         \/ stage \in {"body", "prepare", "broken", "forward"}
         \/ pc \in {"auth", "rate_post", "reserve", "guardrail"}
  PROVE  HopInv'
  BY DEF HopInv, TypeOK, RetryBudget, Dialling, Matched, Proceed, target, attempt, response, guard, meters

LEMMA PrepareHopInv ==
  ASSUME HopInv, Prepare
  PROVE  HopInv'
<1>1. CASE ShortCircuit
  BY <1>1, ShortCircuitHopInv
<1>2. ASSUME NEW r \in (IF hop = 0 THEN match_initial ELSE match_fallback) \ {NoRoute},
             NEW d \in Decorated(r),
             route' = r, cands' = d[1], tries' = d[2], i' = 0, last' = "none", sent' = 0,
             authed' = FALSE, pc' = "auth",
             UNCHANGED <<failClosed, nonIdem, hop, key, response, guard, meters>>
      PROVE  HopInv'
  <2>1. r \in Routes
    BY DEF match_initial, match_fallback, OfKind, Mirror
  <2>2. Table[r].cands \in Nat \ {0} /\ Table[r].tries \in Nat
    BY <2>1, PathConstants DEF RouteRule
  <2>3. d[1] \in Nat \ {0} /\ d[2] \in Nat
    <3>1. CASE d = <<Table[r].cands, Table[r].tries>>
      BY <2>2, <3>1
    <3>2. CASE d \in (1..Table[r].cands) \X ({Table[r].tries} \cup Overrides)
      <4>1. d[1] \in 1..Table[r].cands /\ d[2] \in {Table[r].tries} \cup Overrides
        BY <3>2
      <4>2. PICK c \in Nat, n \in {d[2]} : c = Table[r].cands
        BY <2>2
      <4>3. d[1] \in 1..c /\ n \in {Table[r].tries} \cup Overrides
        BY <4>1, <4>2
      <4>4. n \in Nat
        BY <2>2, <4>3, PathConstants
      <4> QED BY <4>2, <4>3, <4>4
    <3> QED BY <3>1, <3>2 DEF Decorated
  <2> DEFINE c == d[1]
             n == d[2]
  <2>4. cands' = c /\ tries' = n /\ c \in Nat \ {0} /\ n \in Nat
    BY <1>2, <2>3
  <2> HIDE DEF c, n
  <2>5. i' = 0 /\ sent' = 0 /\ pc' = "auth" /\ route' \in Routes
    BY <1>2, <2>1
  <2>6. (RetryBudget /\ Dialling /\ Matched)'
    BY <2>4, <2>5 DEF RetryBudget, Dialling, Matched
  <2>7. authed' \in BOOLEAN
    BY <1>2, Zenon
  <2>8. TypeOK'
    BY <1>2, <2>4, <2>5, <2>7 DEF HopInv, TypeOK, Stages, response, guard, meters
  <2> QED BY <2>6, <2>8 DEF HopInv
<1> QED BY <1>1, <1>2 DEF Prepare

LEMMA DialHopInv ==
  ASSUME HopInv, NEW outcome \in Statuses \cup Transports, Dial(outcome)
  PROVE  HopInv'
<1>1. /\ pc = "dial" /\ sent' = sent + 1
      /\ UNCHANGED <<target, authed, response, guard, meters>>
  BY DEF Dial
<1>2. /\ i < cands /\ i <= tries /\ sent = i
      /\ i \in Nat /\ cands \in Nat /\ tries \in Nat /\ sent \in Nat
  BY <1>1 DEF HopInv, TypeOK, Dialling
<1>3. CASE outcome # "2xx" /\ Advances(outcome) /\ i' = i + 1 /\ UNCHANGED <<pc, last>>
  BY <1>1, <1>2, <1>3 DEF HopInv, TypeOK, RetryBudget, Dialling, Matched, Advances, target, response, guard, meters
<1>4. CASE i' = i /\ pc' \in {"stream", "fallback"} /\ last' \in {last, outcome}
  BY <1>1, <1>2, <1>4 DEF HopInv, TypeOK, RetryBudget, Dialling, Matched, Stages, target, response, guard, meters
<1> QED BY <1>3, <1>4 DEF Dial

\* The steps that end the handling leave the hop as it is.
LEMMA EndHopInv ==
  ASSUME HopInv,
         \/ GuardrailIn /\ ~Proceed("dial")
         \/ WriteHeader \/ StreamEnd \/ GuardrailCut \/ Broken \/ ForwardHttp \/ ForwardTransport \/ Return
  PROVE  HopInv'
<1>1. UNCHANGED <<target, attempt, authed>> /\ pc' \in {"return", "done", "stream"}
  BY DEF GuardrailIn, WriteHeader, StreamEnd, GuardrailCut, Broken, ForwardHttp, ForwardTransport, Return
<1>2. /\ header' \in {"none", "2xx", "error"} /\ streamed' \in BOOLEAN
      /\ recorded' \in Nat /\ rows' \in Nat /\ exhausted' \in Nat
  <2>1. header' \in {"none", "2xx", "error"} /\ streamed' \in BOOLEAN
    BY DEF HopInv, TypeOK, GuardrailIn, WriteHeader, StreamEnd, GuardrailCut, Broken, ForwardHttp,
           ForwardTransport, Return, response
  <2>2. recorded' \in {recorded, recorded + 1} /\ rows' \in {rows, rows + 1}
        /\ exhausted' \in {exhausted, exhausted + 1}
    BY DEF GuardrailIn, WriteHeader, StreamEnd, GuardrailCut, Broken, ForwardHttp,
           ForwardTransport, Return, Record, ReportUsage, meters
  <2> QED BY <2>1, <2>2 DEF HopInv, TypeOK
<1>3. quota' \in {"none", "held", "committed", "released"} /\ settles' \in Nat
  BY DEF HopInv, TypeOK, GuardrailIn, WriteHeader, StreamEnd, GuardrailCut, Broken, ForwardHttp,
         ForwardTransport, Return, Drop, Settle, guard
<1> QED BY <1>1, <1>2, <1>3 DEF HopInv, TypeOK, RetryBudget, Dialling, Matched, Stages, target, attempt

LEMMA FallbackHopInv ==
  ASSUME HopInv, Fallback
  PROVE  HopInv'
<1>1. CASE Proceed("forward")
  BY <1>1, ProceedHopInv DEF Stages
<1>2. ASSUME NEW spec \in Plans, Redirect(spec), pc' = "prepare", pc = "fallback",
             UNCHANGED <<failClosed, nonIdem, route, cands, tries, attempt, authed, response, guard, meters>>
      PROVE  HopInv'
  <2>1. Table[route].fallback \in SUBSET [key : Routes \cup {NoRoute}, max : Nat]
    BY <1>2, PathConstants DEF HopInv, Matched, RouteRule
  <2>2. spec.key \in Routes \cup {NoRoute}
    BY <2>1 DEF Plans
  <2> QED BY <1>2, <2>2 DEF Redirect, HopInv, TypeOK, RetryBudget, Dialling, Matched, Stages, attempt,
                            response, guard, meters
<1> QED BY <1>1, <1>2 DEF Fallback

LEMMA NextHopInv == HopInv /\ [Next]_vars => HopInv'
<1> SUFFICES ASSUME HopInv, [Next]_vars PROVE HopInv'
  OBVIOUS
<1>1. CASE ShortCircuit
  BY <1>1, ShortCircuitHopInv
<1>2. CASE (RateLimitPre \/ ReadBody \/ RateLimitPost \/ Auth \/ Reserve \/ GuardrailIn \/ StreamBreaks)
           /\ \E stage \in Stages : Proceed(stage)
  <2>1. PICK stage \in Stages : Proceed(stage)
    BY <1>2
  <2>2. pc \in {"rate_pre", "body", "stream", "auth", "rate_post", "reserve", "guardrail"}
    BY <1>2 DEF RateLimitPre, ReadBody, RateLimitPost, Auth, Reserve, GuardrailIn, StreamBreaks
  <2>3. CASE pc \in {"rate_pre", "body", "stream"}
    <3>1. RateLimitPre \/ ReadBody \/ StreamBreaks
      BY <1>2, <2>3 DEF RateLimitPost, Auth, Reserve, GuardrailIn
    <3>2. ShortCircuit \/ Proceed("body") \/ Proceed("prepare") \/ Proceed("broken")
      BY <3>1 DEF RateLimitPre, ReadBody, StreamBreaks
    <3> QED BY <1>1, <3>2, ProceedHopInv DEF Stages
  <2> QED BY <2>1, <2>2, <2>3, ProceedHopInv
<1>3. CASE Prepare
  BY <1>3, PrepareHopInv
<1>4. CASE Auth /\ Pass
  BY <1>4 DEF Auth, Pass, AfterAuth, HopInv, TypeOK, RetryBudget, Dialling, Matched, Stages, target,
              attempt, response, guard, meters
<1>5. CASE Reserve /\ quota' = "held" /\ pc' = "guardrail"
           /\ UNCHANGED <<target, attempt, authed, response, settles, meters>>
  BY <1>5 DEF Reserve, HopInv, TypeOK, RetryBudget, Dialling, Matched, Stages, target, attempt,
              response, meters
<1>6. CASE \E outcome \in Statuses \cup Transports : Dial(outcome)
  BY <1>6, DialHopInv
<1>7. CASE Fallback
  BY <1>7, FallbackHopInv
<1>8. CASE UNCHANGED vars
  BY <1>8 DEF vars, HopInv, TypeOK, RetryBudget, Dialling, Matched
<1>9. CASE RateLimitPre \/ ReadBody \/ RateLimitPost
  BY <1>1, <1>2, <1>9 DEF RateLimitPre, ReadBody, RateLimitPost, Stages
<1>10. CASE Auth
  <2>1. AfterAuth \in Stages
    BY DEF AfterAuth, Stages
  <2> QED BY <1>1, <1>2, <1>4, <1>10, <2>1 DEF Auth
<1>11. CASE Reserve
  BY <1>1, <1>2, <1>5, <1>11 DEF Reserve, Stages
<1>12. CASE StreamBreaks
  BY <1>2, <1>12 DEF StreamBreaks, Stages
<1>13. CASE GuardrailIn
  <2>1. CASE Proceed("dial")
    BY <1>2, <1>13, <2>1 DEF Stages
  <2> QED BY <1>13, <2>1, EndHopInv
<1> QED BY <1>3, <1>6, <1>7, <1>8, <1>9, <1>10, <1>11, <1>12, <1>13, EndHopInv
        DEF Next, Handle, Stream, Finished

\* Every variable of the handler keeps its type; in particular the index of the
\* failover loop never leaves the candidates of the hop, whatever the policy made
\* of them (pipe.rs indexes the vector with it).
THEOREM TypeCorrect == Spec => []TypeOK
<1>1. HopInv => TypeOK
  BY DEF HopInv
<1> QED BY <1>1, InitHopInv, NextHopInv, PTL DEF Spec

\* On every hop, decorated by a policy or not, the failover loop makes at most one
\* send per candidate and one more than the retries it is given.
THEOREM RetriesAreBounded == Spec => []RetryBudget
<1>1. HopInv => RetryBudget
  BY DEF HopInv
<1> QED BY <1>1, InitHopInv, NextHopInv, PTL DEF Spec

=============================================================================
