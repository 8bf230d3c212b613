---------------------------- MODULE RequestPath ----------------------------
(***************************************************************************)
(* One request through HygressProxy::request_filter (hygress-gateway/src/  *)
(* pipe.rs): the stages before the dial, the failover loop over the        *)
(* candidates of a route, the relay of a 2xx stream, the bounded fallback  *)
(* re-dispatch and the terminals, with the accounting each terminal owes:  *)
(* the request total, the usage row and the settling of the quota guard.   *)
(*                                                                         *)
(* What other components answer (auth, limits, quota, guardrail, the       *)
(* upstreams, the client's socket) is chosen by the environment. Between   *)
(* two awaits the handler runs alone.                                      *)
(***************************************************************************)
EXTENDS Naturals, FiniteSets

CONSTANTS
  Routes,           \* route rules of the snapshot the request reads
  Table,            \* Routes -> RouteRule
  Overrides,        \* retry counts the routing policy may set
  NoRoute           \* nothing matches

Statuses == {"2xx", "3xx", "4xx", "503", "500"}
Transports == {"error", "timeout"}
RetryConds == {"error", "timeout", "5xx", "503", "4xx", "non_idempotent"}

\* A fallback link is a set of at most one [key, max].
RouteRule ==
  [kind : {"main", "fallback", "mirror"}, key : Routes \cup {NoRoute}, auth : BOOLEAN,
   conds : SUBSET RetryConds, tries : Nat, cands : Nat \ {0},
   fallback : SUBSET [key : Routes \cup {NoRoute}, max : Nat]]

ASSUME PathConstants ==
  /\ NoRoute \notin Routes
  /\ Table \in [Routes -> RouteRule]
  /\ \A r \in Routes : Cardinality(Table[r].fallback) <= 1
  /\ Overrides \subseteq Nat

VARIABLES
  pc,         \* the stage the handler is in
  failClosed, \* ext_auth_fail_closed, read from the configuration at start
  nonIdem,    \* the method is POST, PUT or PATCH
  hop,        \* redirect_count
  key,        \* x-higress-fallback-from, armed by the last fallback
  route,      \* the matched route
  cands,      \* candidates left by the routing policy
  tries,      \* retry_cap
  i,          \* index of the candidate to dial
  authed,     \* this hop passed ext-auth
  last,       \* how the hop's last candidate failed
  sent,       \* upstream sends of this hop
  header,     \* the response header written downstream
  streamed,   \* a 2xx stream was relayed to its end
  quota,      \* the reservation guard
  settles,    \* commit and release calls it made
  recorded,   \* increments of hygress_requests_total
  rows,       \* usage rows pushed
  exhausted   \* increments of hygress_fallback_exhausted_total

vars == <<pc, failClosed, nonIdem, hop, key, route, cands, tries, i, authed, last, sent,
          header, streamed, quota, settles, recorded, rows, exhausted>>
target == <<failClosed, nonIdem, hop, key, route, cands, tries>>
attempt == <<i, last, sent>>
response == <<header, streamed>>
guard == <<quota, settles>>
meters == <<recorded, rows, exhausted>>

Stages == {"rate_pre", "body", "prepare", "auth", "rate_post", "reserve", "guardrail",
           "dial", "stream", "broken", "fallback", "forward", "return", "done"}

TypeOK ==
  /\ pc \in Stages
  /\ failClosed \in BOOLEAN /\ nonIdem \in BOOLEAN
  /\ hop \in Nat
  /\ key \in Routes \cup {NoRoute}
  /\ route \in Routes \cup {NoRoute}
  /\ cands \in Nat /\ tries \in Nat
  /\ i \in 0..cands
  /\ authed \in BOOLEAN
  /\ last \in Statuses \cup Transports \cup {"none"}
  /\ sent \in Nat
  /\ header \in {"none", "2xx", "error"}
  /\ streamed \in BOOLEAN
  /\ quota \in {"none", "held", "committed", "released"}
  /\ settles \in Nat /\ recorded \in Nat /\ rows \in Nat /\ exhausted \in Nat

Init ==
  /\ pc = "rate_pre"
  /\ failClosed \in BOOLEAN /\ nonIdem \in BOOLEAN
  /\ hop = 0
  /\ key = NoRoute /\ route = NoRoute
  /\ cands = 0 /\ tries = 0
  /\ i = 0 /\ authed = FALSE /\ last = "none" /\ sent = 0
  /\ header = "none" /\ streamed = FALSE
  /\ quota = "none" /\ settles = 0
  /\ recorded = 0 /\ rows = 0 /\ exhausted = 0

-----------------------------------------------------------------------------
OfKind(k) == {r \in Routes : Table[r].kind = k}

Mirror == IF OfKind("mirror") = {} THEN {NoRoute} ELSE OfKind("mirror")

\* A Main route by header and path, else the mirror, else nothing.
match_initial == OfKind("main") \cup Mirror

\* A Fallback route by key and path, else the mirror, else nothing.
match_fallback == {r \in OfKind("fallback") : Table[r].key = key} \cup Mirror

IsModelRoute == Table[route].kind \in {"main", "fallback"}

-----------------------------------------------------------------------------
\* Terminals. record_short_circuit counts in the request total.
Record == recorded' = recorded + 1

\* Usage is reported for model-route traffic only.
ReportUsage == rows' = IF IsModelRoute THEN rows + 1 ELSE rows

ShortCircuit ==
  /\ pc' = "return"
  /\ header' = "error"
  /\ Record
  /\ UNCHANGED <<target, attempt, authed, streamed, guard, rows, exhausted>>

Proceed(stage) ==
  /\ pc' = stage
  /\ UNCHANGED <<target, attempt, authed, response, guard, meters>>

RateLimitPre ==
  /\ pc = "rate_pre"
  /\ ShortCircuit \/ Proceed("body")

\* A body over the cap, or a read aborted by the client, is never dispatched.
ReadBody ==
  /\ pc = "body"
  /\ ShortCircuit \/ Proceed("prepare")

\* The routing policy decorates a Main route on the initial dispatch: it may
\* narrow the candidates and replace the retry count.
Decorated(r) ==
  IF hop = 0 /\ Table[r].kind = "main"
  THEN (1..Table[r].cands) \X ({Table[r].tries} \cup Overrides)
  ELSE {<<Table[r].cands, Table[r].tries>>}

\* prepare, or prepare_fallback on a redirect; a candidate without a registry
\* entry fails the whole request.
Prepare ==
  /\ pc = "prepare"
  /\ \/ ShortCircuit
     \/ \E r \in (IF hop = 0 THEN match_initial ELSE match_fallback) \ {NoRoute} :
          \E d \in Decorated(r) :
            /\ route' = r
            /\ cands' = d[1]
            /\ tries' = d[2]
            /\ i' = 0 /\ last' = "none" /\ sent' = 0
            /\ authed' = FALSE
            /\ pc' = "auth"
            /\ UNCHANGED <<failClosed, nonIdem, hop, key, response, guard, meters>>

\* The policy stages run on the initial dispatch only.
AfterAuth == IF hop = 0 THEN "rate_post" ELSE "dial"

Pass ==
  /\ authed' = TRUE
  /\ pc' = AfterAuth
  /\ UNCHANGED <<target, attempt, response, guard, meters>>

\* A gateway that trusts the ext-auth of the first hop.
Auth_FirstHopOnly ==
  /\ pc = "auth"
  /\ \/ Table[route].auth /\ hop = 0 /\ Pass
     \/ Table[route].auth /\ hop = 0 /\ ShortCircuit
     \/ Table[route].auth /\ hop = 0 /\ ~failClosed /\ Proceed(AfterAuth)
     \/ ~(Table[route].auth /\ hop = 0) /\ Proceed(AfterAuth)

\* ext-auth on every hop into a scoped route: allowed, denied, or unavailable.
Auth ==
  /\ pc = "auth"
  /\ \/ Table[route].auth /\ Pass
     \/ Table[route].auth /\ ShortCircuit
     \/ Table[route].auth /\ ~failClosed /\ Proceed(AfterAuth)
     \/ ~Table[route].auth /\ Proceed(AfterAuth)

RateLimitPost ==
  /\ pc = "rate_post"
  /\ ShortCircuit \/ Proceed("reserve")

\* A model route with a token budget reserves; a hard deny is a 429.
Reserve ==
  /\ pc = "reserve"
  /\ \/ Proceed("guardrail")
     \/ IsModelRoute /\ ShortCircuit
     \/ /\ IsModelRoute
        /\ quota' = "held"
        /\ pc' = "guardrail"
        /\ UNCHANGED <<target, attempt, authed, response, settles, meters>>

\* A hit, or a failed verdict under fail-closed, reports usage and answers 403.
GuardrailIn ==
  /\ pc = "guardrail"
  /\ \/ Proceed("dial")
     \/ /\ ReportUsage
        /\ Record
        /\ header' = "error"
        /\ pc' = "return"
        /\ UNCHANGED <<target, attempt, authed, streamed, guard, exhausted>>

-----------------------------------------------------------------------------
\* RetryPolicy::should_retry. A timeout is a transport error too.
Triggers(outcome) ==
  CASE outcome = "error" -> {"error"}
    [] outcome = "timeout" -> {"error", "timeout"}
    [] outcome \in {"503", "500"} -> {"5xx", outcome}
    [] OTHER -> {outcome}

should_retry_Ungated(outcome) == Table[route].conds \cap Triggers(outcome) # {}

should_retry(outcome) ==
  /\ Table[route].conds \cap Triggers(outcome) # {}
  /\ nonIdem => "non_idempotent" \in Table[route].conds

\* The loop advances past candidate i while the budget and the policy allow.
Advances(outcome) ==
  /\ i + 1 # cands
  /\ i < tries
  /\ should_retry(outcome)

Dial(outcome) ==
  /\ pc = "dial"
  /\ sent' = sent + 1
  /\ \/ /\ outcome = "2xx"
        /\ pc' = "stream"
        /\ UNCHANGED <<i, last>>
     \/ /\ outcome # "2xx" /\ Advances(outcome)
        /\ i' = i + 1
        /\ UNCHANGED <<pc, last>>
     \/ /\ outcome # "2xx" /\ ~Advances(outcome)
        /\ last' = outcome
        /\ pc' = "fallback"
        /\ UNCHANGED i
  /\ UNCHANGED <<target, authed, response, guard, meters>>

-----------------------------------------------------------------------------
\* stream_back: the 2xx header goes out, then the chunks.
WriteHeader ==
  /\ pc = "stream" /\ header = "none"
  /\ header' = "2xx"
  /\ UNCHANGED <<pc, target, attempt, authed, streamed, guard, meters>>

Settle(how) ==
  IF quota = "held" THEN quota' = how /\ settles' = settles + 1 ELSE UNCHANGED guard

\* The stream ends: count, commit the reservation, push the row.
StreamEnd ==
  /\ pc = "stream" /\ header = "2xx"
  /\ streamed' = TRUE
  /\ Record
  /\ ReportUsage
  /\ Settle("committed")
  /\ pc' = "return"
  /\ UNCHANGED <<target, attempt, authed, header, exhausted>>

\* A cut that is also reported to the caller as a broken stream.
GuardrailCut_Propagates ==
  /\ pc = "stream" /\ header = "2xx"
  /\ Record
  /\ ReportUsage
  /\ Settle("released")
  /\ pc' = "broken"
  /\ UNCHANGED <<target, attempt, authed, response, exhausted>>

\* An output guardrail hit cuts the stream; the caller sees success.
GuardrailCut ==
  /\ pc = "stream" /\ header = "2xx"
  /\ Record
  /\ ReportUsage
  /\ Settle("released")
  /\ pc' = "return"
  /\ UNCHANGED <<target, attempt, authed, response, exhausted>>

\* The client's socket, even for the header, or the upstream read fails.
StreamBreaks ==
  /\ pc = "stream"
  /\ Proceed("broken")

\* The caller of stream_back closes the connection; the guard drops.
Broken ==
  /\ pc = "broken"
  /\ Record
  /\ ReportUsage
  /\ pc' = "return"
  /\ UNCHANGED <<target, attempt, authed, response, guard, exhausted>>

-----------------------------------------------------------------------------
IsErrorStatus == last \in {"4xx", "503", "500"} \cup Transports

budget_exhausted(spec) == hop >= spec.max

Plans == {spec \in Table[route].fallback : IsErrorStatus /\ ~budget_exhausted(spec)}

\* A re-dispatch that does not count its hop.
Redirect_Uncounted(spec) ==
  /\ key' = spec.key
  /\ UNCHANGED hop

Redirect(spec) ==
  /\ key' = spec.key
  /\ hop' = hop + 1

\* Arm the next hop, or forward the failure.
Fallback ==
  /\ pc = "fallback"
  /\ \/ \E spec \in Plans :
          /\ Redirect(spec)
          /\ pc' = "prepare"
          /\ UNCHANGED <<failClosed, nonIdem, route, cands, tries, attempt, authed, response,
                         guard, meters>>
     \/ Plans = {} /\ Proceed("forward")

\* A 502 that is not counted.
ForwardTransport_Uncounted ==
  /\ pc = "forward" /\ last \in Transports
  /\ exhausted' = IF hop > 0 THEN exhausted + 1 ELSE exhausted
  /\ header' = "error"
  /\ pc' = "return"
  /\ UNCHANGED <<target, attempt, authed, streamed, guard, recorded, rows>>

\* A final transport failure is a 502 without a usage row.
ForwardTransport ==
  /\ pc = "forward" /\ last \in Transports
  /\ exhausted' = IF hop > 0 THEN exhausted + 1 ELSE exhausted
  /\ Record
  /\ header' = "error"
  /\ pc' = "return"
  /\ UNCHANGED <<target, attempt, authed, streamed, guard, rows>>

\* A final answer of an upstream is forwarded and reported.
ForwardHttp ==
  /\ pc = "forward" /\ last \in Statuses
  /\ exhausted' = IF hop > 0 THEN exhausted + 1 ELSE exhausted
  /\ Record
  /\ ReportUsage
  /\ header' = "error"
  /\ pc' = "return"
  /\ UNCHANGED <<target, attempt, authed, streamed, guard>>

\* A guard that releases on drop even when it was settled.
Drop_NotIdempotent ==
  IF quota # "none" THEN quota' = "released" /\ settles' = settles + 1 ELSE UNCHANGED guard

\* The drop of the guard releases what was not settled.
Drop == Settle("released")

Return ==
  /\ pc = "return"
  /\ Drop
  /\ pc' = "done"
  /\ UNCHANGED <<target, attempt, authed, response, meters>>

Finished == pc = "done" /\ UNCHANGED vars

Stream == WriteHeader \/ StreamEnd \/ GuardrailCut \/ StreamBreaks \/ Broken

Handle ==
  \/ RateLimitPre \/ ReadBody \/ Prepare \/ Auth \/ RateLimitPost \/ Reserve \/ GuardrailIn
  \/ \E outcome \in Statuses \cup Transports : Dial(outcome)
  \/ Stream
  \/ Fallback \/ ForwardHttp \/ ForwardTransport
  \/ Return

Next == Handle \/ Finished

\* Peers answer or fail: every await of the handler ends.
Spec == Init /\ [][Next]_vars /\ WF_vars(Handle)

-----------------------------------------------------------------------------
\* Every request that ends is counted in hygress_requests_total exactly once,
\* whichever of the terminals it ends in and however many hops it took.
RecordedOnce == recorded <= 1 /\ (pc = "done" => recorded = 1)

\* A reservation is settled exactly once, and it is committed exactly when a 2xx
\* stream was relayed to its end, on whichever hop: the guard outlives the hops.
ReservationSettledOnce ==
  pc = "done" =>
    /\ settles = IF quota = "none" THEN 0 ELSE 1
    /\ quota # "held"
    /\ quota # "none" => (quota = "committed" <=> streamed)

\* No request is metered twice over its retries and hops, and every 2xx answer
\* relayed for a model route, cut or whole, is metered.
MeteredOnce ==
  /\ rows <= 1
  /\ pc = "done" /\ header = "2xx" => (rows = 1 <=> IsModelRoute)

\* No upstream of a scoped route is dialled without ext-auth on that very hop,
\* when the gateway fails closed: a fallback hop is not covered by the first one.
DialIsAuthorized ==
  pc \in {"dial", "stream"} /\ failClosed /\ Table[route].auth => authed

\* Once a response header is on its way to the client nothing is sent upstream
\* again: no failover after the first byte.
NoDialAfterHeader == [][header # "none" => sent' = sent]_vars

\* Within a hop a POST, PUT or PATCH is sent a second time only if the route
\* lists non_idempotent.
ResendIsGated ==
  pc \in {"dial", "stream", "fallback"} /\ nonIdem /\ i > 0
    => "non_idempotent" \in Table[route].conds

\* The handler comes to an end, so the guard is dropped and no budget leaks.
Terminates == <>(pc = "done")

=============================================================================
