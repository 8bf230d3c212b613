-------------------------- MODULE GuardrailProofs --------------------------
(***************************************************************************)
(* The bounds of the verdict client and the age of the verdicts it answers *)
(* with, for any number of concurrent handlers, any texts and any bounds.  *)
(***************************************************************************)
EXTENDS Guardrail, FiniteSetTheorems, TLAPS

(* ------------------------------ bounds --------------------------------- *)

Cached == {k \in Keys : cache[k] # {}}
Inserting == {r \in Handlers : pc[r] = "insert"}

\* A handler that passed the test of the size holds a place for its entry: the
\* entries and the places together stay below the bound and one per handler.
BoundInv ==
  /\ pc \in [Handlers -> Stages]
  /\ DOMAIN cache = Keys
  /\ IsFiniteSet(Cached)
  /\ Cardinality(Cached) + Cardinality(Inserting) < MAX_CACHE_ENTRIES + Cardinality(Handlers)
  /\ Cardinality(InFlight) <= permits

LEMMA HandlersAreFinite ==
  /\ IsFiniteSet(Handlers) /\ Cardinality(Handlers) \in Nat \ {0}
  /\ IsFiniteSet(Inserting) /\ Cardinality(Inserting) \in Nat
  /\ Cardinality(Inserting) <= Cardinality(Handlers)
  /\ IsFiniteSet(InFlight) /\ Cardinality(InFlight) \in Nat
<1>1. IsFiniteSet(Handlers) /\ Handlers # {}
  BY GuardrailConstants
<1>2. Cardinality(Handlers) \in Nat \ {0}
  BY <1>1, FS_CardinalityType, FS_EmptySet
<1>3. Inserting \in SUBSET Handlers /\ InFlight \in SUBSET Handlers
  BY DEF Inserting, InFlight
<1> QED BY <1>1, <1>2, <1>3, FS_Subset, FS_CardinalityType

LEMMA PermitsType == permits \in Nat \ {0}
  BY GuardrailConstants DEF permits

\* Fewer entries are fewer; one more key is at most one more entry.
LEMMA FewerEntries ==
  ASSUME BoundInv, Cached' \subseteq Cached
  PROVE  IsFiniteSet(Cached') /\ Cardinality(Cached)' <= Cardinality(Cached)
         /\ Cardinality(Cached) \in Nat /\ Cardinality(Cached)' \in Nat
  BY FS_Subset, FS_CardinalityType DEF BoundInv

LEMMA OneMoreEntry ==
  ASSUME BoundInv, NEW k, Cached' \subseteq Cached \cup {k}
  PROVE  IsFiniteSet(Cached') /\ Cardinality(Cached)' <= Cardinality(Cached) + 1
         /\ Cardinality(Cached) \in Nat /\ Cardinality(Cached)' \in Nat
<1>1. IsFiniteSet(Cached) /\ Cardinality(Cached) \in Nat
  BY FS_CardinalityType DEF BoundInv
<1>2. IsFiniteSet(Cached \cup {k}) /\ Cardinality(Cached \cup {k}) <= Cardinality(Cached) + 1
  <2>1. /\ IsFiniteSet(Cached \cup {k})
        /\ \/ Cardinality(Cached \cup {k}) = Cardinality(Cached)
           \/ Cardinality(Cached \cup {k}) = Cardinality(Cached) + 1
    BY <1>1, FS_AddElement, Zenon
  <2> QED BY <1>1, <2>1
<1>3. Cached' \in SUBSET (Cached \cup {k})
  OBVIOUS
<1>4. IsFiniteSet(Cached') /\ Cardinality(Cached') <= Cardinality(Cached \cup {k})
      /\ Cardinality(Cached') \in Nat /\ Cardinality(Cached \cup {k}) \in Nat
  BY <1>2, <1>3, FS_Subset, FS_CardinalityType
<1> QED BY <1>1, <1>2, <1>4

\* A step of a handler that neither enters nor leaves the insert, and does not
\* enter the call, keeps the bounds when the cache does not grow.
LEMMA QuietStep ==
  ASSUME BoundInv, NEW r \in Handlers, NEW stage \in Stages, Goto(r, stage),
         stage \notin {"insert", "post"},
         stage = "answered" => pc[r] = "post",
         DOMAIN cache' = Keys, Cached' \subseteq Cached
  PROVE  BoundInv'
<1>1. pc' = [pc EXCEPT ![r] = stage] /\ pc' \in [Handlers -> Stages]
  BY DEF Goto, BoundInv
<1>2. Inserting' \subseteq Inserting
  BY <1>1 DEF Inserting, BoundInv
<1>3. InFlight' \subseteq InFlight
  BY <1>1 DEF InFlight, BoundInv
<1>4. /\ Cardinality(Inserting)' <= Cardinality(Inserting) /\ Cardinality(Inserting)' \in Nat
      /\ Cardinality(InFlight)' <= Cardinality(InFlight) /\ Cardinality(InFlight)' \in Nat
  BY <1>2, <1>3, HandlersAreFinite, FS_Subset, FS_CardinalityType
<1> QED BY <1>1, <1>4, FewerEntries, HandlersAreFinite, GuardrailConstants, PermitsType
    DEF BoundInv, permits

LEMMA AcquireBoundInv ==
  ASSUME BoundInv, NEW r \in Handlers, Acquire(r)
  PROVE  BoundInv'
<1>1. pc' = [pc EXCEPT ![r] = "post"] /\ cache' = cache /\ pc[r] = "acquire"
      /\ Cardinality(InFlight) < permits
  BY DEF Acquire, Goto
<1>2. pc' \in [Handlers -> Stages] /\ Inserting' = Inserting /\ Cached' = Cached
  BY <1>1 DEF BoundInv, Inserting, Cached, Stages
<1>3. InFlight' = InFlight \cup {r} /\ r \notin InFlight
  BY <1>1 DEF BoundInv, InFlight
<1>4. Cardinality(InFlight)' = Cardinality(InFlight) + 1
  BY <1>3, HandlersAreFinite, FS_AddElement
<1>5. Cardinality(InFlight)' <= permits'
  BY <1>1, <1>4, HandlersAreFinite, PermitsType DEF permits
<1> QED BY <1>1, <1>2, <1>5 DEF BoundInv

LEMMA MakeRoomBoundInv ==
  ASSUME BoundInv, NEW r \in Handlers, MakeRoom(r)
  PROVE  BoundInv'
<1>1. DOMAIN cache' = Keys /\ Cached' \subseteq Cached
  BY DEF MakeRoom, BoundInv, Cached
<1>2. CASE CacheLen' < MAX_CACHE_ENTRIES
  <2>1. pc' = [pc EXCEPT ![r] = "insert"] /\ pc[r] = "room"
    BY <1>2 DEF MakeRoom, Goto
  <2>2. pc' \in [Handlers -> Stages] /\ InFlight' = InFlight
    BY <2>1 DEF BoundInv, InFlight, Stages
  <2>3. Inserting' \in SUBSET Handlers
    BY DEF Inserting
  <2>4. Cardinality(Inserting)' <= Cardinality(Handlers) /\ Cardinality(Inserting)' \in Nat
    BY <2>3, HandlersAreFinite, FS_Subset, FS_CardinalityType
  <2>5. Cardinality(Cached)' < MAX_CACHE_ENTRIES
    BY <1>2 DEF CacheLen, Cached
  <2> QED BY <1>1, <2>2, <2>4, <2>5, FewerEntries, HandlersAreFinite, GuardrailConstants
      DEF BoundInv, permits
<1>3. CASE ~(CacheLen' < MAX_CACHE_ENTRIES)
  <2>1. Goto(r, "conclude")
    BY <1>3 DEF MakeRoom
  <2> QED BY <1>1, <2>1, QuietStep DEF Stages
<1> QED BY <1>2, <1>3

LEMMA InsertBoundInv ==
  ASSUME BoundInv, NEW r \in Handlers, Insert(r)
  PROVE  BoundInv'
<1>1. pc' = [pc EXCEPT ![r] = "conclude"] /\ pc[r] = "insert"
      /\ DOMAIN cache' = Keys /\ \A k \in Keys : k # Key(r) => cache'[k] = cache[k]
  BY DEF Insert, Goto, BoundInv
<1>2. Cached' \subseteq Cached \cup {Key(r)}
  BY <1>1 DEF Cached
<1>3. pc' \in [Handlers -> Stages] /\ InFlight' = InFlight
  BY <1>1 DEF BoundInv, InFlight, Stages
<1>4. Inserting' = Inserting \ {r} /\ r \in Inserting
  BY <1>1 DEF BoundInv, Inserting
<1>5. Cardinality(Inserting)' = Cardinality(Inserting) - 1
  BY <1>4, HandlersAreFinite, FS_RemoveElement
<1>6. /\ IsFiniteSet(Cached') /\ Cardinality(Cached)' <= Cardinality(Cached) + 1
      /\ Cardinality(Cached) \in Nat /\ Cardinality(Cached)' \in Nat
  BY <1>2, OneMoreEntry
<1>7. Cardinality(Cached)' + Cardinality(Inserting)' < MAX_CACHE_ENTRIES + Cardinality(Handlers)
  BY <1>5, <1>6, HandlersAreFinite, GuardrailConstants DEF BoundInv
<1> QED BY <1>1, <1>3, <1>6, <1>7 DEF BoundInv, permits

LEMMA InitBoundInv == Init => BoundInv
<1> SUFFICES ASSUME Init PROVE BoundInv
  OBVIOUS
<1>1. Cached = {} /\ Inserting = {} /\ InFlight = {}
  BY DEF Init, Cached, Inserting, InFlight
<1>2. IsFiniteSet({}) /\ Cardinality({}) = 0
  BY FS_EmptySet
<1> QED BY <1>1, <1>2, HandlersAreFinite, PermitsType, GuardrailConstants DEF BoundInv, Init, Stages

LEMMA NextBoundInv == BoundInv /\ [Next]_vars => BoundInv'
<1> SUFFICES ASSUME BoundInv, [Next]_vars PROVE BoundInv'
  OBVIOUS
<1>1. ASSUME NEW r \in Handlers, Arrive(r) \/ GuardrailIn(r) \/ Lookup(r) PROVE BoundInv'
  <2>1. cache' = cache /\ DOMAIN cache' = Keys /\ Cached' \subseteq Cached
    BY <1>1 DEF Arrive, GuardrailIn, Lookup, BoundInv, Cached
  <2>2. \E stage \in {"start", "done", "lookup", "conclude", "remove", "acquire"} : Goto(r, stage)
    BY <1>1 DEF Arrive, GuardrailIn, Lookup
  <2> QED BY <2>1, <2>2, QuietStep DEF Stages
<1>2. ASSUME NEW r \in Handlers, RemoveExpired(r) PROVE BoundInv'
  <2>1. DOMAIN cache' = Keys /\ Cached' \subseteq Cached /\ Goto(r, "acquire")
    BY <1>2 DEF RemoveExpired, BoundInv, Cached
  <2> QED BY <2>1, QuietStep DEF Stages
<1>3. ASSUME NEW r \in Handlers, Serve(r) \/ Receive(r) \/ TimesOut(r) \/ Conclude(r) PROVE BoundInv'
  <2>1. DOMAIN cache' = Keys /\ Cached' \subseteq Cached
    BY <1>3 DEF Serve, Receive, TimesOut, Conclude, BoundInv, Cached
  <2>2. \/ pc[r] = "post" /\ Goto(r, "answered")
        \/ \E stage \in {"room", "conclude", "done"} : Goto(r, stage)
    BY <1>3 DEF Serve, Receive, TimesOut, Conclude
  <2> QED BY <2>1, <2>2, QuietStep DEF Stages
<1>4. CASE Tick
  <2>1. pc' = pc /\ DOMAIN cache' = Keys
    BY <1>4 DEF Tick
  <2>2. Cached' \subseteq Cached
    BY <1>4 DEF Tick, Cached
  <2>3. Inserting' = Inserting /\ InFlight' = InFlight
    BY <2>1 DEF Inserting, InFlight
  <2> QED BY <2>1, <2>2, <2>3, FewerEntries, HandlersAreFinite, GuardrailConstants DEF BoundInv, permits
<1>5. CASE UNCHANGED vars
  BY <1>5 DEF vars, BoundInv, Cached, Inserting, InFlight, permits
<1> QED BY <1>1, <1>2, <1>3, <1>4, <1>5, AcquireBoundInv, MakeRoomBoundInv, InsertBoundInv
    DEF Next, Step, Finished

\* At most max_rps calls are open at the service, and the verdict cache exceeds
\* its bound at most by the handlers that tested its size together.
THEOREM VerdictClientIsBounded == Spec => []CacheAndCallsBounded
<1>1. BoundInv => CacheAndCallsBounded
  <2> SUFFICES ASSUME BoundInv PROVE CacheAndCallsBounded
    OBVIOUS
  <2>1. CacheLen = Cardinality(Cached) /\ Cardinality(Cached) \in Nat
    BY FS_CardinalityType DEF CacheLen, Cached, BoundInv
  <2> QED BY <2>1, HandlersAreFinite, GuardrailConstants DEF BoundInv, CacheAndCallsBounded
<1> QED BY <1>1, InitBoundInv, NextBoundInv, PTL DEF Spec

(* ------------------------- age of the verdicts ------------------------- *)

CacheEntry == [blocked : BOOLEAN, left : 0..cache_ttl, age : 0..MaxAge]

\* Types, and for each stage how old the verdict in hand may be: an answer is no
\* older than its call, a call no longer than the timeout, and what a live entry
\* has aged it has lost of its time to live. No time passes between the end of
\* a call and the insert, nor between a look-up and the conclusion.
EntriesAge(c) ==
  /\ DOMAIN c = Keys
  /\ \A k \in Keys : \A e \in c[k] :
       e \in CacheEntry /\ (Live(e) => e.age + e.left <= cache_ttl + timeout)

AgeTypes ==
  /\ pc \in [Handlers -> Stages] /\ text \in [Handlers -> Texts]
  /\ answer \in [Handlers -> Answers]
  /\ elapsed \in [Handlers -> Nat]
  /\ EntriesAge(cache)

AtStage(stage, a, t) ==
  /\ stage \in {"post", "answered"} => t <= timeout
  /\ stage \in {"answered", "conclude"} => a.kind # "none"
  /\ stage = "answered" => a.age <= t
  /\ stage \in {"room", "insert"} => a.kind = "verdict" /\ a.age <= timeout
  /\ stage = "conclude" => a.age <= cache_ttl + timeout

AgeAt(r) == AtStage(pc[r], answer[r], elapsed[r])

AgeInv == AgeTypes /\ \A r \in Handlers : AgeAt(r)

LEMMA AgesType ==
  /\ MaxAge \in Nat /\ cache_ttl \in Nat /\ timeout \in Nat \ {0}
  /\ MaxAge = cache_ttl + timeout + 1
  /\ NoAnswer \in Answers
  /\ NoAnswer.age = 0 /\ NoAnswer.kind = "none"
  BY GuardrailConstants DEF MaxAge, NoAnswer, Answers

LEMMA InitAgeInv == Init => AgeInv
<1>1. Idle \in Texts
  BY GuardrailConstants DEF Idle
<1> QED BY <1>1, AgesType DEF Init, AgeInv, AgeTypes, EntriesAge, AgeAt, AtStage, Stages

\* A step of one handler leaves what the others hold.
LEMMA OthersKeepAge ==
  ASSUME AgeInv, NEW r \in Handlers, NEW stage, Goto(r, stage), NEW a, NEW t,
         answer' = [answer EXCEPT ![r] = a], elapsed' = [elapsed EXCEPT ![r] = t],
         NEW q \in Handlers, q # r
  PROVE  AgeAt(q)'
  BY DEF AgeInv, AgeTypes, AgeAt, AtStage, Goto

\* The three ways a step of one handler can leave the cache and its clock.
LEMMA OneHandlerAgeInv ==
  ASSUME AgeInv, NEW r \in Handlers, NEW stage \in Stages, Goto(r, stage),
         NEW a \in Answers, answer' = [answer EXCEPT ![r] = a],
         NEW t \in Nat, elapsed' = [elapsed EXCEPT ![r] = t],
         text' \in [Handlers -> Texts], EntriesAge(cache'), AtStage(stage, a, t)
  PROVE  AgeInv'
<1>1. /\ pc' = [pc EXCEPT ![r] = stage]
      /\ pc'[r] = stage /\ answer'[r] = a /\ elapsed'[r] = t
      /\ pc' \in [Handlers -> Stages] /\ answer' \in [Handlers -> Answers]
      /\ elapsed' \in [Handlers -> Nat]
  BY DEF Goto, AgeInv, AgeTypes
<1>2. AgeTypes'
  BY <1>1 DEF AgeTypes, EntriesAge, MaxAge, CacheEntry, Live
<1>3. AgeAt(r)'
  BY <1>1 DEF AgeAt, AtStage
<1>4. \A q \in Handlers : q # r => AgeAt(q)'
  BY OthersKeepAge
<1> QED BY <1>2, <1>3, <1>4 DEF AgeInv

\* A step that leaves the cache, the answer and the clock alone.
LEMMA IdleAgeInv ==
  ASSUME AgeInv, NEW r \in Handlers, NEW stage \in Stages, Goto(r, stage),
         UNCHANGED <<cache, answer, elapsed>>, text' \in [Handlers -> Texts],
         \/ stage \in {"start", "lookup", "remove", "acquire", "done"}
         \/ stage = "conclude" /\ pc[r] \in {"room", "insert", "answered"}
         \/ stage = "room" /\ pc[r] = "answered" /\ answer[r].kind = "verdict"
         \/ stage = "insert" /\ pc[r] = "room"
  PROVE  AgeInv'
<1>1. /\ answer[r] \in Answers /\ elapsed[r] \in Nat /\ answer[r].age \in Nat
      /\ answer' = [answer EXCEPT ![r] = answer[r]] /\ elapsed' = [elapsed EXCEPT ![r] = elapsed[r]]
  BY AgesType DEF AgeInv, AgeTypes, Answers
<1>2. EntriesAge(cache')
  BY DEF AgeInv, AgeTypes
<1>3. AtStage(pc[r], answer[r], elapsed[r])
  BY DEF AgeInv, AgeAt
<1>4. AtStage(stage, answer[r], elapsed[r])
  BY <1>1, <1>3, AgesType DEF AtStage
<1> QED BY <1>1, <1>2, <1>4, OneHandlerAgeInv

\* The end of a call or of a look-up puts an answer into the handler's hands.
LEMMA AnswerAgeInv ==
  ASSUME AgeInv, NEW r \in Handlers, NEW stage \in Stages, Goto(r, stage),
         NEW a \in Answers, Yields(r, a), UNCHANGED <<cache, elapsed, text>>,
         AtStage(stage, a, elapsed[r])
  PROVE  AgeInv'
<1>1. /\ elapsed[r] \in Nat /\ elapsed' = [elapsed EXCEPT ![r] = elapsed[r]]
      /\ EntriesAge(cache') /\ text' \in [Handlers -> Texts]
  BY DEF AgeInv, AgeTypes
<1> QED BY <1>1, OneHandlerAgeInv DEF Yields

LEMMA LookupAgeInv ==
  ASSUME AgeInv, NEW r \in Handlers, Lookup(r)
  PROVE  AgeInv'
<1>1. CASE \E stage \in {"remove", "acquire"} : Goto(r, stage) /\ UNCHANGED answer
  <2>1. UNCHANGED <<cache, elapsed>> /\ text' \in [Handlers -> Texts]
    BY DEF Lookup, AgeInv, AgeTypes
  <2> QED BY <1>1, <2>1, IdleAgeInv DEF Stages
<1>2. CASE \E e \in cache[Key(r)] :
             /\ Live(e) /\ Goto(r, "conclude")
             /\ Yields(r, [kind |-> "verdict", blocked |-> e.blocked, age |-> e.age])
  <2>1. PICK e \in cache[Key(r)] :
             /\ Live(e) /\ Goto(r, "conclude")
             /\ Yields(r, [kind |-> "verdict", blocked |-> e.blocked, age |-> e.age])
    BY <1>2
  <2> DEFINE a == [kind |-> "verdict", blocked |-> e.blocked, age |-> e.age]
  <2>2. e \in CacheEntry /\ e.age + e.left <= cache_ttl + timeout
    <3>1. Key(r) \in Keys
      BY DEF AgeInv, AgeTypes, Key, Keys
    <3> QED BY <2>1, <3>1 DEF AgeInv, AgeTypes, EntriesAge
  <2>3. e.age <= cache_ttl + timeout /\ a \in Answers
    BY <2>2, AgesType DEF CacheEntry, Answers
  <2>4. AtStage("conclude", a, elapsed[r])
    BY <2>3 DEF AtStage
  <2>5. UNCHANGED <<cache, elapsed, text>>
    BY DEF Lookup
  <2> QED BY <2>1, <2>3, <2>4, <2>5, AnswerAgeInv DEF Stages
<1> QED BY <1>1, <1>2 DEF Lookup, Yields

LEMMA ServeAgeInv ==
  ASSUME AgeInv, NEW r \in Handlers, Serve(r)
  PROVE  AgeInv'
<1>1. PICK a \in Answers : Yields(r, a) /\ a.kind # "none" /\ a.age = 0
  <2>1. CASE \E b \in BOOLEAN : Yields(r, [kind |-> "verdict", blocked |-> b, age |-> 0])
    BY <2>1, AgesType DEF Answers
  <2>2. CASE \E d \in {"empty", "error"} : Yields(r, [NoAnswer EXCEPT !.kind = d])
    <3>1. \A d \in {"empty", "error"} :
            /\ [NoAnswer EXCEPT !.kind = d] \in Answers
            /\ [NoAnswer EXCEPT !.kind = d].kind = d /\ [NoAnswer EXCEPT !.kind = d].age = 0
      BY AgesType DEF Answers, NoAnswer
    <3> QED BY <2>2, <3>1
  <2> QED BY <2>1, <2>2 DEF Serve
<1>2. elapsed[r] \in Nat /\ elapsed[r] <= timeout
  BY DEF Serve, AgeInv, AgeTypes, AgeAt, AtStage
<1>3. AtStage("answered", a, elapsed[r])
  BY <1>1, <1>2 DEF AtStage
<1>4. Goto(r, "answered") /\ UNCHANGED <<cache, elapsed, text>>
  BY DEF Serve
<1> QED BY <1>1, <1>3, <1>4, AnswerAgeInv DEF Stages

LEMMA TimesOutAgeInv ==
  ASSUME AgeInv, NEW r \in Handlers, TimesOut(r)
  PROVE  AgeInv'
<1> DEFINE a == [NoAnswer EXCEPT !.kind = "error"]
<1>1. a \in Answers /\ a.kind # "none" /\ a.age = 0
  BY AgesType DEF Answers, NoAnswer
<1> HIDE DEF a
<1>2. AtStage("conclude", a, elapsed[r])
  BY <1>1, AgesType DEF AtStage
<1>3. Yields(r, a) /\ Goto(r, "conclude") /\ UNCHANGED <<cache, elapsed, text>>
  BY DEF TimesOut, a
<1> QED BY <1>1, <1>2, <1>3, AnswerAgeInv DEF Stages

LEMMA MakeRoomAgeInv ==
  ASSUME AgeInv, NEW r \in Handlers, MakeRoom(r)
  PROVE  AgeInv'
<1>1. EntriesAge(cache')
  BY DEF MakeRoom, AgeInv, AgeTypes, EntriesAge
<1>2. /\ answer[r] \in Answers /\ elapsed[r] \in Nat /\ answer[r].age \in Nat
      /\ answer' = [answer EXCEPT ![r] = answer[r]] /\ elapsed' = [elapsed EXCEPT ![r] = elapsed[r]]
      /\ text' \in [Handlers -> Texts]
  BY AgesType DEF MakeRoom, AgeInv, AgeTypes, Answers
<1>3. AtStage("room", answer[r], elapsed[r])
  BY DEF AgeInv, AgeAt, MakeRoom
<1>4. AtStage("insert", answer[r], elapsed[r]) /\ AtStage("conclude", answer[r], elapsed[r])
  BY <1>2, <1>3, AgesType DEF AtStage
<1>5. Goto(r, "insert") \/ Goto(r, "conclude")
  BY DEF MakeRoom
<1> QED BY <1>1, <1>2, <1>4, <1>5, OneHandlerAgeInv DEF Stages

\* The entry inserted is as old as the answer, and lives for cache_ttl from now.
LEMMA InsertAgeInv ==
  ASSUME AgeInv, NEW r \in Handlers, Insert(r)
  PROVE  AgeInv'
<1> DEFINE e == [blocked |-> answer[r].blocked, left |-> cache_ttl, age |-> answer[r].age]
<1>1. /\ answer[r] \in Answers /\ elapsed[r] \in Nat /\ answer[r].age \in Nat
      /\ answer' = [answer EXCEPT ![r] = answer[r]] /\ elapsed' = [elapsed EXCEPT ![r] = elapsed[r]]
      /\ text' \in [Handlers -> Texts]
  BY AgesType DEF Insert, AgeInv, AgeTypes, Answers
<1>2. AtStage("insert", answer[r], elapsed[r])
  BY DEF AgeInv, AgeAt, Insert
<1>3. AtStage("conclude", answer[r], elapsed[r])
  BY <1>1, <1>2, AgesType DEF AtStage
<1>4. e \in CacheEntry /\ e.age + e.left <= cache_ttl + timeout
  BY <1>1, <1>2, AgesType DEF AtStage, CacheEntry, Answers
<1> HIDE DEF e
<1>5. cache' = [cache EXCEPT ![Key(r)] = {e}] /\ Goto(r, "conclude")
  BY DEF Insert, e
<1>6. EntriesAge(cache')
  BY <1>4, <1>5 DEF AgeInv, AgeTypes, EntriesAge
<1> QED BY <1>1, <1>3, <1>5, <1>6, OneHandlerAgeInv DEF Stages

\* A tick ages the answers in flight with their calls, and the entries against
\* their time to live.
LEMMA TickAgeInv ==
  ASSUME AgeInv, Tick
  PROVE  AgeInv'
<1>1. /\ pc' = pc /\ text' = text
      /\ elapsed' \in [Handlers -> Nat]
      /\ \A r \in Handlers : pc[r] \in {"post", "answered"} =>
           elapsed'[r] = elapsed[r] + 1 /\ elapsed'[r] <= timeout
  <2>1. elapsed \in [Handlers -> Nat] /\ InFlight \subseteq Handlers
    BY DEF AgeInv, AgeTypes, InFlight
  <2>2. elapsed' = [r \in Handlers |-> IF r \in InFlight THEN elapsed[r] + 1 ELSE 0]
        /\ \A r \in InFlight : elapsed[r] < timeout
    BY DEF Tick
  <2>3. \A r \in Handlers : pc[r] \in {"post", "answered"} => r \in InFlight
    BY DEF InFlight
  <2>4. elapsed' \in [Handlers -> Nat]
    BY <2>1, <2>2
  <2>5. \A r \in Handlers : r \in InFlight => elapsed'[r] = elapsed[r] + 1 /\ elapsed'[r] <= timeout
    BY <2>1, <2>2, AgesType
  <2> QED BY <2>3, <2>4, <2>5 DEF Tick
<1>2. \A n \in 0..MaxAge : Older(n) \in 0..MaxAge /\ Older(n) <= n + 1
  BY AgesType DEF Older
<1>3. ASSUME NEW r \in Handlers
      PROVE  /\ answer'[r] \in Answers /\ answer'[r].kind = answer[r].kind
             /\ pc[r] = "answered" => answer'[r].age <= answer[r].age + 1
  <2>1. answer[r] \in Answers /\ answer[r].age \in 0..MaxAge
    BY DEF AgeInv, AgeTypes, Answers
  <2>2. CASE pc[r] = "answered" /\ answer[r].kind = "verdict"
    <3>1. answer'[r] = [answer[r] EXCEPT !.age = Older(answer[r].age)]
      BY <2>2 DEF Tick
    <3> QED BY <1>2, <2>1, <3>1 DEF Answers
  <2>3. CASE ~(pc[r] = "answered" /\ answer[r].kind = "verdict")
    <3>1. answer'[r] = answer[r]
      BY <2>3 DEF Tick
    <3> QED BY <2>1, <3>1, AgesType
  <2> QED BY <2>2, <2>3
<1>4. EntriesAge(cache')
  <2> SUFFICES ASSUME NEW k \in Keys, NEW e \in cache[k],
                      NEW f, f = [e EXCEPT !.left = IF @ = 0 THEN 0 ELSE @ - 1, !.age = Older(@)]
               PROVE  f \in CacheEntry /\ (Live(f) => f.age + f.left <= cache_ttl + timeout)
    BY DEF Tick, EntriesAge
  <2>1. e \in CacheEntry /\ (Live(e) => e.age + e.left <= cache_ttl + timeout)
    BY DEF AgeInv, AgeTypes, EntriesAge
  <2>2. /\ e.left \in 0..cache_ttl /\ e.age \in 0..MaxAge
        /\ f.left = (IF e.left = 0 THEN 0 ELSE e.left - 1) /\ f.age = Older(e.age)
    BY <2>1 DEF CacheEntry
  <2>3. f \in CacheEntry
    <3>1. f.left \in 0..cache_ttl /\ f.age \in 0..MaxAge
      BY <1>2, <2>2, AgesType
    <3> QED BY <2>1, <2>2, <3>1 DEF CacheEntry
  <2>4. Live(f) => f.age + f.left <= cache_ttl + timeout
    BY <1>2, <2>1, <2>2, AgesType DEF Live
  <2> QED BY <2>3, <2>4
<1>5. AgeTypes'
  <2>1. answer' \in [Handlers -> Answers]
    BY <1>3 DEF Tick
  <2> QED BY <1>1, <1>4, <2>1 DEF AgeInv, AgeTypes, EntriesAge, CacheEntry, Live, MaxAge, Answers
<1>6. ASSUME NEW r \in Handlers PROVE AtStage(pc[r], answer'[r], elapsed'[r])
  <2>1. pc[r] \in {"start", "lookup", "acquire", "post", "answered", "done"}
    BY DEF Tick
  <2>2. AtStage(pc[r], answer[r], elapsed[r]) /\ elapsed[r] \in Nat
        /\ answer[r].age \in Nat /\ answer'[r].age \in Nat
    BY <1>3, AgesType DEF AgeInv, AgeTypes, AgeAt, Answers
  <2> QED BY <1>1, <1>3, <2>1, <2>2 DEF AtStage
<1> QED BY <1>1, <1>5, <1>6 DEF AgeInv, AgeAt, AtStage

LEMMA NextAgeInv == AgeInv /\ [Next]_vars => AgeInv'
<1> SUFFICES ASSUME AgeInv, [Next]_vars PROVE AgeInv'
  OBVIOUS
<1>1. ASSUME NEW r \in Handlers, Arrive(r) \/ GuardrailIn(r) \/ RemoveExpired(r) \/ Receive(r)
      PROVE  AgeInv'
  <2>1. text' \in [Handlers -> Texts] /\ UNCHANGED <<answer, elapsed>>
    BY <1>1 DEF Arrive, GuardrailIn, RemoveExpired, Receive, AgeInv, AgeTypes
  <2>2. CASE RemoveExpired(r)
    <3>1. EntriesAge(cache') /\ Goto(r, "acquire")
      BY <2>2 DEF RemoveExpired, AgeInv, AgeTypes, EntriesAge
    <3>2. /\ answer[r] \in Answers /\ elapsed[r] \in Nat
          /\ answer' = [answer EXCEPT ![r] = answer[r]] /\ elapsed' = [elapsed EXCEPT ![r] = elapsed[r]]
      BY <2>1 DEF AgeInv, AgeTypes
    <3>3. AtStage("acquire", answer[r], elapsed[r])
      BY DEF AtStage
    <3> QED BY <2>1, <3>1, <3>2, <3>3, OneHandlerAgeInv DEF Stages
  <2>3. CASE ~RemoveExpired(r)
    <3>1. \E stage \in Stages :
             /\ Goto(r, stage)
             /\ \/ stage \in {"start", "lookup", "remove", "acquire", "done"}
                \/ stage = "conclude" /\ pc[r] \in {"room", "insert", "answered"}
                \/ stage = "room" /\ pc[r] = "answered" /\ answer[r].kind = "verdict"
      BY <1>1, <2>3 DEF Arrive, GuardrailIn, Receive, Stages
    <3>2. cache' = cache
      BY <1>1, <2>3 DEF Arrive, GuardrailIn, Receive
    <3> QED BY <2>1, <3>1, <3>2, IdleAgeInv
  <2> QED BY <2>2, <2>3
<1>2. ASSUME NEW r \in Handlers, Acquire(r) \/ Conclude(r) PROVE AgeInv'
  <2>1. EntriesAge(cache') /\ text' \in [Handlers -> Texts]
    <3>1. Idle \in Texts
      BY GuardrailConstants DEF Idle
    <3> QED BY <1>2, <3>1 DEF Acquire, Conclude, AgeInv, AgeTypes
  <2>2. \E stage \in {"post", "done"}, a \in Answers :
          Goto(r, stage) /\ answer' = [answer EXCEPT ![r] = a] /\ elapsed' = [elapsed EXCEPT ![r] = 0]
    <3>1. answer[r] \in Answers /\ answer = [answer EXCEPT ![r] = answer[r]]
      BY DEF AgeInv, AgeTypes
    <3> QED BY <1>2, <3>1, AgesType DEF Acquire, Conclude
  <2>3. \A stage \in {"post", "done"}, a \in Answers : AtStage(stage, a, 0)
    BY AgesType DEF AtStage
  <2> QED BY <2>1, <2>2, <2>3, OneHandlerAgeInv DEF Stages
<1>3. CASE UNCHANGED vars
  BY <1>3 DEF vars, AgeInv, AgeTypes, EntriesAge, CacheEntry, Live, MaxAge, AgeAt, AtStage, Answers
<1> QED BY <1>1, <1>2, <1>3, LookupAgeInv, ServeAgeInv, TimesOutAgeInv, MakeRoomAgeInv,
           InsertAgeInv, TickAgeInv
    DEF Next, Step, Finished

\* Only its own conclusion takes a handler from there to the end.
LEMMA OnlyConcludeConcludes ==
  ASSUME AgeInv, [Next]_vars, NEW r \in Handlers, pc[r] = "conclude", pc'[r] = "done"
  PROVE  Conclude(r)
<1>1. ASSUME NEW q \in Handlers, NEW stage, Goto(q, stage), pc[q] # "conclude" PROVE FALSE
  BY <1>1 DEF Goto, AgeInv, AgeTypes
<1>2. ASSUME NEW q \in Handlers, Conclude(q) PROVE q = r
  BY <1>2 DEF Conclude, Goto, AgeInv, AgeTypes
<1>3. ~UNCHANGED pc
  OBVIOUS
<1>4. ~Tick /\ ~UNCHANGED vars
  BY <1>3 DEF Tick, vars
<1>5. PICK q \in Handlers : Arrive(q) \/ Step(q) \/ Serve(q)
  BY <1>4 DEF Next, Finished
<1>6. ~(Arrive(q) \/ Serve(q) \/ GuardrailIn(q) \/ Lookup(q) \/ RemoveExpired(q) \/ Acquire(q))
  BY <1>1 DEF Arrive, Serve, GuardrailIn, Lookup, RemoveExpired, Acquire
<1>7. ~(Receive(q) \/ TimesOut(q) \/ MakeRoom(q) \/ Insert(q))
  BY <1>1 DEF Receive, TimesOut, MakeRoom, Insert
<1> QED BY <1>2, <1>5, <1>6, <1>7 DEF Step

\* A sync guardrail that fails closed passes a request only on an empty answer or
\* on a verdict no older than the time to live and one call.
THEOREM PassesAreVetted == Spec => PassIsVetted
<1> DEFINE Vetted ==
      \A r \in Handlers :
        pc[r] = "conclude" /\ pc'[r] = "done" /\ g.llm = "sync" /\ out'[r] = "pass" =>
          \/ answer[r].kind = "empty"
          \/ answer[r].kind = "error" /\ ~(g.closed /\ g.reject)
          \/ /\ answer[r].kind = "verdict" /\ ~answer[r].blocked
             /\ answer[r].age <= cache_ttl + timeout
<1>1. AgeInv /\ DOMAIN out = Handlers /\ [Next]_vars => Vetted
  <2> SUFFICES ASSUME AgeInv, DOMAIN out = Handlers, [Next]_vars, NEW r \in Handlers,
                      pc[r] = "conclude", pc'[r] = "done", g.llm = "sync", out'[r] = "pass"
               PROVE  \/ answer[r].kind = "empty"
                      \/ answer[r].kind = "error" /\ ~(g.closed /\ g.reject)
                      \/ /\ answer[r].kind = "verdict" /\ ~answer[r].blocked
                         /\ answer[r].age <= cache_ttl + timeout
    OBVIOUS
  <2>1. Resolution(answer[r]) = "pass"
    BY OnlyConcludeConcludes DEF Conclude
  <2>2. AtStage("conclude", answer[r], elapsed[r]) /\ answer[r] \in Answers
    BY DEF AgeInv, AgeTypes, AgeAt
  <2>3. answer[r].kind \in {"verdict", "empty", "error"} /\ answer[r].age <= cache_ttl + timeout
    BY <2>2 DEF AtStage, Answers
  <2>4. CASE answer[r].kind = "verdict"
    BY <2>1, <2>3, <2>4 DEF Resolution
  <2>5. CASE answer[r].kind = "error"
    BY <2>1, <2>5 DEF Resolution
  <2> QED BY <2>3, <2>4, <2>5
<1>2. Init => DOMAIN out = Handlers
  BY DEF Init
<1>3. DOMAIN out = Handlers /\ [Next]_vars => (DOMAIN out = Handlers)'
  <2> SUFFICES ASSUME DOMAIN out = Handlers, [Next]_vars PROVE DOMAIN out' = Handlers
    OBVIOUS
  <2>1. ASSUME NEW r \in Handlers, Arrive(r) \/ Step(r) \/ Serve(r)
        PROVE  DOMAIN out' = Handlers
    <3>1. CASE Arrive(r)
      BY <3>1 DEF Arrive
    <3>2. CASE GuardrailIn(r)
      BY <3>2 DEF GuardrailIn
    <3>3. CASE Lookup(r) \/ RemoveExpired(r) \/ Acquire(r)
      BY <3>3 DEF Lookup, RemoveExpired, Acquire
    <3>4. CASE Receive(r) \/ TimesOut(r)
      BY <3>4 DEF Receive, TimesOut
    <3>5. CASE MakeRoom(r) \/ Insert(r)
      BY <3>5 DEF MakeRoom, Insert
    <3>6. CASE Conclude(r)
      BY <3>6 DEF Conclude
    <3>7. CASE Serve(r)
      BY <3>7 DEF Serve
    <3> QED BY <2>1, <3>1, <3>2, <3>3, <3>4, <3>5, <3>6, <3>7 DEF Step
  <2>2. CASE Tick \/ Finished \/ UNCHANGED vars
    BY <2>2 DEF Tick, Finished, vars
  <2> QED BY <2>1, <2>2 DEF Next
<1> QED BY <1>1, <1>2, <1>3, InitAgeInv, NextAgeInv, PTL DEF Spec, PassIsVetted

(* ------------------------------- types --------------------------------- *)

Outcomes == {"none", "pass", "block", "unavailable"}

\* A key has one entry at most: an insert replaces, everything else only removes or ages.
OneEntry(c) == DOMAIN c = Keys /\ \A k \in Keys : \E e : c[k] \subseteq {e}

RestTypes ==
  /\ g \in Configs /\ arrivals \in 0..MaxArrivals
  /\ OneEntry(cache)
  /\ out \in [Handlers -> Outcomes]

LEMMA RestTypesStep == AgeInv /\ RestTypes /\ [Next]_vars => RestTypes'
<1> SUFFICES ASSUME AgeInv, RestTypes, [Next]_vars PROVE RestTypes'
  OBVIOUS
<1>1. CASE UNCHANGED <<g, arrivals, cache, out>>
  BY <1>1 DEF RestTypes, OneEntry
<1>2. ASSUME NEW r \in Handlers, Arrive(r) PROVE RestTypes'
  BY <1>2, GuardrailConstants DEF Arrive, RestTypes, OneEntry, Outcomes
<1>3. ASSUME NEW r \in Handlers, GuardrailIn(r) \/ Conclude(r) PROVE RestTypes'
  <2>1. UNCHANGED <<g, arrivals, cache>>
    BY <1>3 DEF GuardrailIn, Conclude, world
  <2>2. \A a : Resolution(a) \in Outcomes
    BY DEF Resolution, Outcomes
  <2>3. PICK o \in Outcomes : out' = [out EXCEPT ![r] = o]
    BY <1>3, <2>2 DEF GuardrailIn, Conclude, RestTypes, Outcomes
  <2> QED BY <2>1, <2>3 DEF RestTypes, OneEntry
<1>4. ASSUME NEW r \in Handlers, RemoveExpired(r) \/ MakeRoom(r) \/ Insert(r) PROVE RestTypes'
  <2>1. UNCHANGED <<g, arrivals, out>>
    BY <1>4 DEF RemoveExpired, MakeRoom, Insert, world
  <2>2. OneEntry(cache')
    <3>1. CASE RemoveExpired(r)
      BY <3>1 DEF RemoveExpired, RestTypes, OneEntry
    <3>2. CASE MakeRoom(r)
      BY <3>2 DEF MakeRoom, RestTypes, OneEntry
    <3>3. CASE Insert(r)
      BY <3>3 DEF Insert, RestTypes, OneEntry
    <3> QED BY <1>4, <3>1, <3>2, <3>3
  <2> QED BY <2>1, <2>2 DEF RestTypes, OneEntry
<1>5. CASE Tick
  <2> DEFINE aged(e) == [e EXCEPT !.left = IF @ = 0 THEN 0 ELSE @ - 1, !.age = Older(@)]
  <2>1. UNCHANGED <<g, arrivals, out>> /\ cache' = [k \in Keys |-> {aged(e) : e \in cache[k]}]
    BY <1>5 DEF Tick, world
  <2> HIDE DEF aged
  <2>2. ASSUME NEW k \in Keys PROVE \E e : cache'[k] \subseteq {e}
    <3>1. PICK e : cache[k] \subseteq {e}
      BY DEF RestTypes, OneEntry
    <3>2. cache'[k] \subseteq {aged(e)}
      BY <2>1, <3>1
    <3> QED BY <3>2
  <2> QED BY <2>1, <2>2 DEF RestTypes, OneEntry
<1>6. ASSUME NEW r \in Handlers, Lookup(r) \/ Acquire(r) \/ Serve(r) \/ Receive(r) \/ TimesOut(r)
      PROVE  RestTypes'
  BY <1>1, <1>6 DEF Lookup, Acquire, Serve, Receive, TimesOut, world
<1>7. CASE UNCHANGED vars
  BY <1>1, <1>7 DEF vars
<1> QED BY <1>2, <1>3, <1>4, <1>5, <1>6, <1>7 DEF Next, Step, Finished

\* Types of the shared cache and of each handler; a key of the verdict cache has
\* one entry at most, whichever handlers look up, drop and insert at the same time.
THEOREM TypeCorrect == Spec => []TypeOK
<1>1. Init => RestTypes
  BY GuardrailConstants DEF Init, RestTypes, OneEntry, Outcomes
<1>2. AgeInv /\ RestTypes => TypeOK
  <2> SUFFICES ASSUME AgeInv, RestTypes PROVE TypeOK
    OBVIOUS
  <2>1. ASSUME NEW k \in Keys PROVE Cardinality(cache[k]) <= 1
    <3>1. PICK e : cache[k] \subseteq {e}
      BY DEF RestTypes, OneEntry
    <3>2. cache[k] = {} \/ cache[k] = {e}
      BY <3>1
    <3>3. Cardinality({}) = 0 /\ Cardinality({e}) = 1
      BY FS_EmptySet, FS_Singleton
    <3> QED BY <3>2, <3>3
  <2> QED BY <2>1 DEF TypeOK, AgeInv, AgeTypes, RestTypes, Outcomes
<1> QED BY <1>1, <1>2, InitAgeInv, NextAgeInv, RestTypesStep, PTL DEF Spec

=============================================================================
