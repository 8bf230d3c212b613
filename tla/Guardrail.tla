----------------------------- MODULE Guardrail -----------------------------
(***************************************************************************)
(* The input guardrail: HygressProxy::guardrail_in (hygress-gateway/src/   *)
(* pipe.rs) and the verdict client it shares between all requests,         *)
(* GuardrailClient (hygress-egress/src/guardrail.rs): a cache of verdicts  *)
(* with an expiry and a bound, and a semaphore around the calls to the     *)
(* service. Handlers interleave between the steps that another worker      *)
(* thread can observe, the accesses to the concurrent map; the two tests   *)
(* of its size before an insert and the sweep between them are one step.   *)
(***************************************************************************)
EXTENDS Naturals, FiniteSets

CONSTANTS
  Handlers,           \* request handlers that run at the same time
  Texts,              \* request bodies
  normalize,          \* text -> cache key: whitespace runs collapsed
  StaticHits,         \* texts a static rule matches
  MAX_CACHE_ENTRIES,
  max_rps,            \* the permits asked for; zero is a legal setting
  cache_ttl, timeout, \* in ticks of the clock; the clock itself is not kept
  Configs,            \* guardrail sections the policy file may hold
  Contested,          \* texts the service blocks at times; it passes the others
  MaxArrivals         \* bound: requests in all

GuardrailSpec ==
  [static : BOOLEAN,                       \* rules are configured and compile
   llm : {"off", "sync", "async"},         \* off: no llm section or no URL
   closed : BOOLEAN, reject : BOOLEAN]     \* fail_mode, on_error

ASSUME GuardrailConstants ==
  /\ IsFiniteSet(Handlers) /\ Handlers # {}
  /\ Texts # {} /\ StaticHits \subseteq Texts
  /\ DOMAIN normalize = Texts
  /\ MAX_CACHE_ENTRIES \in Nat /\ max_rps \in Nat
  /\ cache_ttl \in Nat /\ timeout \in Nat \ {0}
  /\ Configs \subseteq GuardrailSpec
  /\ Contested \subseteq Texts
  /\ MaxArrivals \in Nat

Keys == {normalize[x] : x \in Texts}

VARIABLES
  g,        \* the merged guardrail section
  arrivals, \* requests so far
  cache,    \* key -> at most one [blocked, left, age]: ticks to live, ticks since
            \* the service gave the verdict
  pc,       \* where each request is
  text,     \* the body of each request
  elapsed,  \* ticks since its call was sent
  answer,   \* what the call yielded
  out       \* what guardrail_in returned

vars == <<g, arrivals, cache, pc, text, elapsed, answer, out>>
world == <<g, arrivals>>

Stages == {"start", "lookup", "remove", "acquire", "post", "answered", "room", "insert", "conclude", "done"}
MaxAge == cache_ttl + timeout + 1   \* ages past this are not told apart
NoAnswer == [kind |-> "none", blocked |-> FALSE, age |-> 0]
Answers == [kind : {"none", "verdict", "empty", "error"}, blocked : BOOLEAN, age : 0..MaxAge]

TypeOK ==
  /\ g \in Configs
  /\ arrivals \in 0..MaxArrivals
  /\ \A k \in Keys : Cardinality(cache[k]) <= 1
  /\ pc \in [Handlers -> Stages] /\ text \in [Handlers -> Texts]
  /\ answer \in [Handlers -> Answers]
  /\ out \in [Handlers -> {"none", "pass", "block", "unavailable"}]

Idle == CHOOSE x \in Texts : TRUE   \* the text of a handler without a request

Init ==
  /\ g \in Configs
  /\ arrivals = 0
  /\ cache = [k \in Keys |-> {}]
  /\ pc = [r \in Handlers |-> "done"]
  /\ text = [r \in Handlers |-> Idle]
  /\ elapsed = [r \in Handlers |-> 0]
  /\ answer = [r \in Handlers |-> NoAnswer]
  /\ out = [r \in Handlers |-> "none"]

Key(r) == normalize[text[r]]
Goto(r, stage) == pc' = [pc EXCEPT ![r] = stage]
Entries == UNION {cache[k] : k \in Keys}
CacheLen == Cardinality({k \in Keys : cache[k] # {}})

-----------------------------------------------------------------------------
\* A request reaches the guardrail stage.
Arrive(r) ==
  /\ pc[r] = "done" /\ arrivals < MaxArrivals
  /\ arrivals' = arrivals + 1
  /\ text' \in {[text EXCEPT ![r] = x] : x \in Texts}
  /\ out' = [out EXCEPT ![r] = "none"]
  /\ Goto(r, "start")
  /\ UNCHANGED <<g, cache, elapsed, answer>>

\* The static scan first; then the verdict, on the path or in a spawned task.
GuardrailIn(r) ==
  /\ pc[r] = "start"
  /\ \/ /\ g.static /\ text[r] \in StaticHits
        /\ out' = [out EXCEPT ![r] = "block"]
        /\ Goto(r, "done")
     \/ /\ ~(g.static /\ text[r] \in StaticHits)
        /\ g.llm = "off"
        /\ out' = [out EXCEPT ![r] = "pass"]
        /\ Goto(r, "done")
     \/ /\ ~(g.static /\ text[r] \in StaticHits)
        /\ g.llm # "off"
        /\ out' = [out EXCEPT ![r] = IF g.llm = "async" THEN "pass" ELSE "none"]
        /\ Goto(r, "lookup")
  /\ UNCHANGED <<world, cache, text, elapsed, answer>>

Live(e) == e.left > 0

\* A cache that does not look at the expiry of what it finds.
Lookup_Unexpiring(r) ==
  /\ pc[r] = "lookup"
  /\ \/ \E e \in cache[Key(r)] :
          /\ answer' = [answer EXCEPT ![r] =
                          [kind |-> "verdict", blocked |-> e.blocked, age |-> e.age]]
          /\ Goto(r, "conclude")
     \/ cache[Key(r)] = {} /\ Goto(r, "acquire") /\ UNCHANGED answer
  /\ UNCHANGED <<world, cache, text, elapsed, out>>

\* classify, 1: a live entry answers; an expired one is dropped in a second step.
Lookup(r) ==
  /\ pc[r] = "lookup"
  /\ \/ \E e \in cache[Key(r)] :
          /\ Live(e)
          /\ answer' = [answer EXCEPT ![r] =
                          [kind |-> "verdict", blocked |-> e.blocked, age |-> e.age]]
          /\ Goto(r, "conclude")
     \/ \E e \in cache[Key(r)] : ~Live(e) /\ Goto(r, "remove") /\ UNCHANGED answer
     \/ cache[Key(r)] = {} /\ Goto(r, "acquire") /\ UNCHANGED answer
  /\ UNCHANGED <<world, cache, text, elapsed, out>>

\* The entry removed may be a fresh one another request has put there meanwhile.
RemoveExpired(r) ==
  /\ pc[r] = "remove"
  /\ cache' = [cache EXCEPT ![Key(r)] = {}]
  /\ Goto(r, "acquire")
  /\ UNCHANGED <<world, text, elapsed, answer, out>>

InFlight == {r \in Handlers : pc[r] \in {"post", "answered"}}

\* A semaphore built with the setting as it stands.
permits_Unclamped == max_rps
permits == IF max_rps = 0 THEN 1 ELSE max_rps

\* classify, 2: a permit, then the POST.
Acquire(r) ==
  /\ pc[r] = "acquire"
  /\ Cardinality(InFlight) < permits
  /\ elapsed' = [elapsed EXCEPT ![r] = 0]
  /\ Goto(r, "post")
  /\ UNCHANGED <<world, cache, text, answer, out>>

Yields(r, a) == answer' = [answer EXCEPT ![r] = a]

\* The service answers, about a contested text now this way and now that.
Serve(r) ==
  /\ pc[r] = "post"
  /\ \/ \E b \in IF text[r] \in Contested THEN BOOLEAN ELSE {FALSE} :
          Yields(r, [kind |-> "verdict", blocked |-> b, age |-> 0])
     \/ Yields(r, [NoAnswer EXCEPT !.kind = "empty"])
     \/ Yields(r, [NoAnswer EXCEPT !.kind = "error"])
  /\ Goto(r, "answered")
  /\ UNCHANGED <<world, cache, text, elapsed, out>>

\* post returns and the permit with it; only a verdict goes on to the cache.
Receive(r) ==
  /\ pc[r] = "answered"
  /\ Goto(r, IF answer[r].kind = "verdict" THEN "room" ELSE "conclude")
  /\ UNCHANGED <<world, cache, text, elapsed, answer, out>>

TimesOut(r) ==
  /\ pc[r] \in {"post", "answered"}
  /\ elapsed[r] = timeout
  /\ Yields(r, [NoAnswer EXCEPT !.kind = "error"])
  /\ Goto(r, "conclude")
  /\ UNCHANGED <<world, cache, text, elapsed, out>>

\* An insert whatever the size of the cache.
MakeRoom_Skipped(r) ==
  /\ pc[r] = "room"
  /\ Goto(r, "insert")
  /\ UNCHANGED <<world, cache, text, elapsed, answer, out>>

\* classify, 3: at the bound the expired entries go, then the size is tested.
MakeRoom(r) ==
  /\ pc[r] = "room"
  /\ cache' = IF CacheLen >= MAX_CACHE_ENTRIES
              THEN [k \in Keys |-> {e \in cache[k] : Live(e)}]
              ELSE cache
  /\ Goto(r, IF CacheLen' < MAX_CACHE_ENTRIES THEN "insert" ELSE "conclude")
  /\ UNCHANGED <<world, text, elapsed, answer, out>>

Insert(r) ==
  /\ pc[r] = "insert"
  /\ cache' = [cache EXCEPT ![Key(r)] =
                 {[blocked |-> answer[r].blocked, left |-> cache_ttl, age |-> answer[r].age]}]
  /\ Goto(r, "conclude")
  /\ UNCHANGED <<world, text, elapsed, answer, out>>

\* A failed check rejects only when fail_mode is closed and on_error says reject.
Resolution(a) ==
  CASE a.kind = "verdict" -> IF a.blocked THEN "block" ELSE "pass"
    [] a.kind = "error" /\ g.closed /\ g.reject -> "unavailable"
    [] OTHER -> "pass"

\* The verdict decides a request on the path and is only recorded off the path.
Conclude(r) ==
  /\ pc[r] = "conclude"
  /\ out' = [out EXCEPT ![r] = IF g.llm = "sync" THEN Resolution(answer[r]) ELSE @]
  /\ Goto(r, "done")
  /\ elapsed' = [elapsed EXCEPT ![r] = 0]
  /\ answer' = [answer EXCEPT ![r] = NoAnswer]
  /\ text' = [text EXCEPT ![r] = Idle]
  /\ UNCHANGED <<world, cache>>

-----------------------------------------------------------------------------
\* Time passes while requests wait for a permit or for the service, never past
\* a call's timeout; the steps around the cache take none.
Older(age) == IF age = MaxAge THEN age ELSE age + 1
Tick ==
  /\ \A r \in InFlight : elapsed[r] < timeout
  /\ \A r \in Handlers : pc[r] \in {"start", "lookup", "acquire", "post", "answered", "done"}
  /\ elapsed' = [r \in Handlers |-> IF r \in InFlight THEN elapsed[r] + 1 ELSE 0]
  /\ answer' = [r \in Handlers |-> IF pc[r] = "answered" /\ answer[r].kind = "verdict"
                                    THEN [answer[r] EXCEPT !.age = Older(@)] ELSE answer[r]]
  /\ cache' = [k \in Keys |->
                 {[e EXCEPT !.left = IF @ = 0 THEN 0 ELSE @ - 1, !.age = Older(@)]
                    : e \in cache[k]}]
  /\ UNCHANGED <<world, pc, text, out>>

Step(r) ==
  \/ GuardrailIn(r) \/ Lookup(r) \/ RemoveExpired(r) \/ Acquire(r)
  \/ Receive(r) \/ TimesOut(r)
  \/ MakeRoom(r) \/ Insert(r) \/ Conclude(r)

Finished == arrivals = MaxArrivals /\ (\A r \in Handlers : pc[r] = "done") /\ UNCHANGED vars

Next == (\E r \in Handlers : Arrive(r) \/ Step(r) \/ Serve(r)) \/ Tick \/ Finished

\* Tokio polls every task that can run and fires the timeout; the semaphore is
\* fair to its waiters. The service owes nothing.
Fairness == \A r \in Handlers : SF_vars(Step(r))
Spec == Init /\ [][Next]_vars /\ Fairness /\ WF_vars(Tick)

-----------------------------------------------------------------------------
\* At most max_rps calls are open at the service, and the bound on the verdict
\* cache is exceeded at most by the handlers that passed the test of its size
\* together: the test and the insert are two steps.
CacheAndCallsBounded ==
  /\ Cardinality(InFlight) <= permits
  /\ CacheLen <= MAX_CACHE_ENTRIES + Cardinality(Handlers) - 1

\* A sync guardrail that fails closed lets a request through only on an empty
\* answer, or on a verdict the service gave for that text, up to whitespace, no
\* longer ago than the time to live and one call: neither an overtaken call that
\* fills the cache late nor an expired entry stretches that.
PassIsVetted ==
  [][\A r \in Handlers :
       pc[r] = "conclude" /\ pc'[r] = "done" /\ g.llm = "sync" /\ out'[r] = "pass" =>
         \/ answer[r].kind = "empty"
         \/ answer[r].kind = "error" /\ ~(g.closed /\ g.reject)
         \/ /\ answer[r].kind = "verdict" /\ ~answer[r].blocked
            /\ answer[r].age <= cache_ttl + timeout]_vars

\* Every request gets through the guardrail, with no permit to begin with and
\* with a service that never answers: timeouts free the permits.
EveryRequestAnswered == \A r \in Handlers : pc[r] = "start" ~> pc[r] = "done"

=============================================================================
