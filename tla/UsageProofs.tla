---------------------------- MODULE UsageProofs -----------------------------
(***************************************************************************)
(* The way out. Part one: the usage sink for any rows, capacity and number *)
(* of attempts, and its steps as steps of the abstract queue. Part two:    *)
(* the response relay for any bodies, rules and chunks: the end of what it *)
(* sent, as long as the scanner's tail, never holds a match.               *)
(***************************************************************************)
EXTENDS UsageSink, Relay, FiniteSetTheorems, SequenceTheorems, TLAPS

\* Where the flusher is and what it holds: it works on a row exactly while posting
\* or backing off, and backs off only with an attempt left. Nothing is lost
\* before the runtime goes down.
Control ==
  /\ cur # NoRow <=> flusher \in {"post", "backoff"}
  /\ flusher = "backoff" => attempt < MAX_ATTEMPTS
  /\ Alive => lost = {}

IInv == TypeOK /\ Control /\ ExactlyOnePlace /\ DropsCounted

LEMMA ElementsOfSeq ==
  ASSUME NEW q \in Seq(Rows), NEW i \in 1..Len(q)
  PROVE  q[i] \in Rows
  OBVIOUS

LEMMA InitIInv == Init => IInv
<1> SUFFICES ASSUME Init PROVE IInv
  OBVIOUS
<1>1. TypeOK
  <2>1. queue \in Seq(Rows) /\ Len(queue) <= BUFFER_SIZE /\ attempt \in 0..MAX_ATTEMPTS
    BY SinkConstants DEF Init
  <2>2. recorded \in [Rows -> Nat] /\ drops \in Nat /\ flusher \in FlusherStates
    BY DEF Init, FlusherStates
  <2>3. open \in BOOLEAN /\ pushed \subseteq Rows
    BY DEF Init
  <2>4. cur \in Rows \cup {NoRow} /\ acked \subseteq Rows /\ dropped \subseteq Rows /\ lost \subseteq Rows
    BY DEF Init
  <2> QED BY <2>1, <2>2, <2>3, <2>4 DEF TypeOK
<1>2. Control
  BY DEF Init, Control, Alive
<1>3. ExactlyOnePlace
  <2>1. \A r \in Rows : ~Queued(r) /\ r # cur /\ r \notin Resolved /\ r \notin pushed
    BY SinkConstants DEF Init, Queued, Resolved
  <2>2. \A i, j \in 1..Len(queue) : FALSE
    BY DEF Init
  <2> QED BY <2>1, <2>2 DEF Init, ExactlyOnePlace
<1>4. DropsCounted
  BY FS_EmptySet DEF Init, DropsCounted
<1> QED BY <1>1, <1>2, <1>3, <1>4 DEF IInv

\* One call of on_drop for one more dropped row.
LEMMA GiveUpCounts ==
  ASSUME IInv, NEW r \in Rows, r \notin dropped, GiveUp(r)
  PROVE  /\ DropsCounted'
         /\ dropped' \subseteq Rows
         /\ drops' \in Nat
<1>1. IsFiniteSet(dropped)
  BY FS_Subset, SinkConstants DEF IInv, TypeOK
<1>2. Cardinality(dropped \cup {r}) = Cardinality(dropped) + 1
  BY <1>1, FS_AddElement
<1> QED BY <1>2 DEF IInv, TypeOK, DropsCounted, GiveUp

LEMMA PushIInv ==
  ASSUME IInv, NEW r \in Rows, Push(r)
  PROVE  IInv'
<1>1. r \notin Resolved /\ r # cur /\ ~Queued(r)
  BY DEF IInv, ExactlyOnePlace, Push
<1>2. CASE Alive /\ Len(queue) < BUFFER_SIZE
  <2>1. queue' = Append(queue, r) /\ UNCHANGED <<dropped, drops>>
    BY <1>2, SinkConstants DEF Push, TrySend, IInv, TypeOK
  <2>2. TypeOK'
    BY <1>2, <2>1, SinkConstants DEF Push, IInv, TypeOK
  <2>3. Len(queue') = Len(queue) + 1 /\ queue'[Len(queue) + 1] = r
        /\ \A i \in 1..Len(queue) : queue'[i] = queue[i]
    BY <2>1 DEF IInv, TypeOK
  <2>4. ExactlyOnePlace'
    <3>1. Len(queue) \in Nat
      BY DEF IInv, TypeOK
    <3>2. \A x \in Rows : Queued(x)' <=> Queued(x) \/ x = r
      BY <2>3, <3>1 DEF Queued
    <3>3. \A i, j \in 1..Len(queue') : queue'[i] = queue'[j] => i = j
      BY <1>1, <2>3, <3>1 DEF IInv, ExactlyOnePlace, Queued
    <3>4. UNCHANGED <<cur, acked, dropped, lost>> /\ pushed' = pushed \cup {r}
      BY <2>1 DEF Push
    <3> QED BY <1>1, <3>2, <3>3, <3>4 DEF IInv, ExactlyOnePlace, Resolved
  <2>5. Control' /\ DropsCounted'
    BY <2>1 DEF Push, IInv, Control, Alive, DropsCounted
  <2> QED BY <2>2, <2>4, <2>5 DEF IInv
<1>3. CASE ~(Alive /\ Len(queue) < BUFFER_SIZE)
  <2>1. GiveUp(r) /\ UNCHANGED queue
    BY <1>3 DEF Push, TrySend
  <2>2. DropsCounted' /\ dropped' \subseteq Rows /\ drops' \in Nat
    BY <1>1, <2>1, GiveUpCounts DEF Resolved
  <2>3. TypeOK'
    BY <2>1, <2>2 DEF Push, IInv, TypeOK
  <2>4. ExactlyOnePlace'
    BY <1>1, <2>1 DEF Push, GiveUp, IInv, ExactlyOnePlace, Queued, Resolved
  <2>5. Control'
    BY DEF Push, IInv, Control, Alive
  <2> QED BY <2>2, <2>3, <2>4, <2>5 DEF IInv
<1> QED BY <1>2, <1>3

LEMMA RecvIInv ==
  ASSUME IInv, Recv
  PROVE  IInv'
<1>1. /\ queue \in Seq(Rows) /\ queue # << >> /\ queue' = Tail(queue)
      /\ cur = NoRow /\ cur' = queue[1] /\ cur' \in Rows
  BY DEF Recv, IInv, TypeOK, Control
<1>2. /\ Len(queue) \in Nat \ {0} /\ Len(queue') = Len(queue) - 1
      /\ \A i \in 1..Len(queue') : queue'[i] = queue[i + 1]
  BY <1>1
<1>3. UNCHANGED <<pushed, open, acked, dropped, drops, lost, recorded>>
  BY DEF Recv, results
<1>4. TypeOK'
  BY <1>1, <1>2, <1>3, SinkConstants DEF Recv, IInv, TypeOK, FlusherStates
<1>5. Control' /\ DropsCounted'
  BY <1>1, <1>3, SinkConstants DEF Recv, IInv, Control, DropsCounted, Alive
<1>6. ExactlyOnePlace'
  <2>1. \A i, j \in 1..Len(queue') : queue'[i] = queue'[j] => i = j
    BY <1>2 DEF IInv, ExactlyOnePlace
  <2>2. \A x \in Rows : Queued(x) <=> Queued(x)' \/ x = cur'
    <3>1. \A x \in Rows : Queued(x)' => Queued(x)
      BY <1>2 DEF Queued
    <3>2. ASSUME NEW x \in Rows, Queued(x), x # queue[1] PROVE Queued(x)'
      <4>1. PICK i \in 1..Len(queue) : queue[i] = x
        BY <3>2 DEF Queued
      <4>2. i # 1 /\ i - 1 \in 1..Len(queue') /\ (i - 1) + 1 = i
        BY <1>2, <3>2, <4>1
      <4>3. queue'[i - 1] = queue[i]
        BY <1>2, <4>2
      <4> QED BY <4>1, <4>2, <4>3 DEF Queued
    <3>3. Queued(cur')
      BY <1>1, <1>2 DEF Queued
    <3> QED BY <1>1, <3>1, <3>2, <3>3
  <2>3. \A x \in Rows : Queued(x)' => x # cur'
    <3>1. ASSUME NEW i \in 1..Len(queue') PROVE queue'[i] # queue[1]
      <4>1. i + 1 \in 1..Len(queue) /\ 1 \in 1..Len(queue) /\ i + 1 # 1
        BY <1>2
      <4>2. queue[i + 1] # queue[1]
        BY <4>1 DEF IInv, ExactlyOnePlace
      <4> QED BY <1>2, <4>2
    <3> QED BY <1>1, <3>1 DEF Queued
  <2>4. cur \notin Rows
    BY <1>1, SinkConstants
  <2>5. ASSUME NEW x \in Rows
        PROVE  /\ Queued(x)' => x # cur' /\ x \notin Resolved'
               /\ x = cur' => x \notin Resolved'
               /\ x \in acked' => x \notin dropped' \cup lost'
               /\ x \in dropped' => x \notin lost'
               /\ x \in pushed' <=> Queued(x)' \/ x = cur' \/ x \in Resolved'
    BY <1>3, <2>2, <2>3, <2>4 DEF IInv, ExactlyOnePlace, Resolved
  <2> QED BY <2>1, <2>5 DEF ExactlyOnePlace
<1> QED BY <1>4, <1>5, <1>6 DEF IInv

LEMMA PostIInv ==
  ASSUME IInv, NEW answer, NEW record \in BOOLEAN, Post(answer, record)
  PROVE  IInv'
<1>1. flusher = "post" /\ cur \in Rows /\ cur \notin Resolved /\ ~Queued(cur)
  BY SinkConstants DEF Post, IInv, TypeOK, Control, ExactlyOnePlace
<1>2. recorded' \in [Rows -> Nat]
  BY <1>1 DEF Post, IInv, TypeOK
<1>3. CASE success(answer)
  <2>1. /\ acked' = acked \cup {cur} /\ cur' = NoRow /\ flusher' = "recv"
        /\ UNCHANGED <<dropped, drops, pushed, queue, open, attempt, lost>>
    BY <1>3 DEF Post
  <2>2. TypeOK' /\ Control' /\ DropsCounted'
    BY <1>1, <1>2, <2>1 DEF IInv, TypeOK, Control, DropsCounted, FlusherStates, Alive
  <2>3. ExactlyOnePlace'
    BY <1>1, <2>1, SinkConstants DEF IInv, ExactlyOnePlace, Queued, Resolved
  <2> QED BY <2>2, <2>3 DEF IInv
<1>4. CASE ~success(answer) /\ retryable(answer) /\ NextAttempt
  <2>1. /\ flusher' = "backoff"
        /\ UNCHANGED <<cur, acked, dropped, drops, pushed, queue, open, attempt, lost>>
    BY <1>4 DEF Post
  <2>2. TypeOK' /\ Control' /\ DropsCounted'
    BY <1>1, <1>2, <1>4, <2>1, SinkConstants
    DEF IInv, TypeOK, Control, DropsCounted, FlusherStates, Alive, NextAttempt
  <2>3. ExactlyOnePlace'
    BY <2>1 DEF IInv, ExactlyOnePlace, Queued, Resolved
  <2> QED BY <2>2, <2>3 DEF IInv
<1>5. CASE ~success(answer) /\ ~(retryable(answer) /\ NextAttempt)
  <2>1. /\ GiveUp(cur) /\ cur' = NoRow /\ flusher' = "recv"
        /\ UNCHANGED <<acked, pushed, queue, open, attempt, lost>>
    BY <1>5 DEF Post
  <2>2. DropsCounted' /\ dropped' \subseteq Rows /\ drops' \in Nat
    BY <1>1, <2>1, GiveUpCounts DEF Resolved
  <2>3. TypeOK' /\ Control'
    BY <1>1, <1>2, <2>1, <2>2 DEF IInv, TypeOK, Control, FlusherStates, Alive
  <2>4. ExactlyOnePlace'
    BY <1>1, <2>1, SinkConstants DEF GiveUp, IInv, ExactlyOnePlace, Queued, Resolved
  <2> QED BY <2>2, <2>3, <2>4 DEF IInv
<1> QED BY <1>3, <1>4, <1>5

LEMMA RuntimeDownIInv ==
  ASSUME IInv, RuntimeDown
  PROVE  IInv'
<1>1. /\ queue' = << >> /\ cur' = NoRow /\ flusher' = "gone"
      /\ UNCHANGED <<pushed, open, attempt, acked, dropped, drops, recorded>>
  BY DEF RuntimeDown, IInv, TypeOK
<1>2. \A x \in Rows : x \in lost' <=> Queued(x) \/ x = cur
  <2>1. DOMAIN queue = 1..Len(queue)
    BY DEF IInv, TypeOK
  <2> QED BY <2>1, SinkConstants DEF RuntimeDown, Range, Queued
<1>3. lost' \subseteq Rows
  <2>1. Range(queue) \subseteq Rows
    BY DEF IInv, TypeOK, Range
  <2> QED BY <2>1 DEF RuntimeDown, IInv, TypeOK
<1>4. TypeOK' /\ Control' /\ DropsCounted'
  BY <1>1, <1>3, SinkConstants DEF IInv, TypeOK, Control, DropsCounted, FlusherStates, Alive
<1>5. ExactlyOnePlace'
  <2>1. lost = {}
    BY DEF RuntimeDown, IInv, Control
  <2> QED BY <1>1, <1>2, <2>1, SinkConstants
      DEF IInv, ExactlyOnePlace, Queued, Resolved
<1> QED BY <1>4, <1>5 DEF IInv

LEMMA NextIInv == IInv /\ [Next]_vars => IInv'
<1> SUFFICES ASSUME IInv, [Next]_vars PROVE IInv'
  OBVIOUS
<1>1. CASE \E r \in Rows : Push(r)
  BY <1>1, PushIInv
<1>2. CASE Recv
  BY <1>2, RecvIInv
<1>3. CASE \E answer \in Answers, record \in BOOLEAN : Post(answer, record)
  BY <1>3, PostIInv
<1>4. CASE Close \/ RecvNone \/ UNCHANGED vars
  <2>1. UNCHANGED <<pushed, queue, cur, attempt, acked, dropped, drops, lost, recorded>>
    BY <1>4 DEF Close, RecvNone, results, vars
  <2>2. open' \in BOOLEAN /\ flusher' \in FlusherStates
    BY <1>4 DEF Close, RecvNone, results, vars, IInv, TypeOK, FlusherStates
  <2>3. TypeOK'
    BY <2>1, <2>2 DEF IInv, TypeOK
  <2>4. Control'
    BY <1>4, <2>1 DEF Close, RecvNone, vars, IInv, Control, Alive
  <2>5. ExactlyOnePlace' /\ DropsCounted'
    BY <2>1 DEF IInv, ExactlyOnePlace, DropsCounted, Queued, Resolved
  <2> QED BY <2>3, <2>4, <2>5 DEF IInv
<1>5. CASE Backoff
  <2>1. UNCHANGED <<pushed, queue, open, cur, acked, dropped, drops, lost, recorded>>
    BY <1>5 DEF Backoff, results
  <2>2. attempt' \in 0..MAX_ATTEMPTS /\ flusher' = "post"
    BY <1>5, SinkConstants DEF Backoff, IInv, TypeOK, Control
  <2>3. TypeOK'
    BY <2>1, <2>2 DEF IInv, TypeOK, FlusherStates
  <2>4. Control'
    BY <1>5, <2>1, <2>2 DEF Backoff, IInv, Control, Alive
  <2>5. ExactlyOnePlace' /\ DropsCounted'
    BY <2>1 DEF IInv, ExactlyOnePlace, DropsCounted, Queued, Resolved
  <2> QED BY <2>3, <2>4, <2>5 DEF IInv
<1>6. CASE RuntimeDown
  BY <1>6, RuntimeDownIInv
<1> QED BY <1>1, <1>2, <1>3, <1>4, <1>5, <1>6 DEF Next, Flush

LEMMA Inductive == Spec => []IInv
  BY InitIInv, NextIInv, PTL DEF Spec

\* The sink's state keeps its types; in particular the channel never holds more
\* than its capacity and no row is tried more than MAX_ATTEMPTS times.
THEOREM TypeCorrect == Spec => []TypeOK
<1>1. IInv => TypeOK
  BY DEF IInv
<1> QED BY <1>1, Inductive, PTL

\* Conservation of rows: whatever the endpoint answers and whenever the handles or
\* the runtime go away, a pushed row is in exactly one place.
THEOREM RowsConserved == Spec => []ExactlyOnePlace
<1>1. IInv => ExactlyOnePlace
  BY DEF IInv
<1> QED BY <1>1, Inductive, PTL

\* The drop counter the operators watch is exactly the number of dropped rows.
THEOREM DropsAreCounted == Spec => []DropsCounted
<1>1. IInv => DropsCounted
  BY DEF IInv
<1> QED BY <1>1, Inductive, PTL

-----------------------------------------------------------------------------
(* ------------------------- rows at the endpoint ------------------------ *)

\* What the endpoint may have recorded of a row: nothing before the flusher takes
\* it, then at most one record for each POST already answered.
Answered == IF flusher = "backoff" THEN attempt ELSE attempt - 1

RecordInv ==
  /\ cur # NoRow => attempt > 0
  /\ \A r \in Rows :
       /\ r \notin pushed \/ Queued(r) => recorded[r] = 0
       /\ r = cur => recorded[r] <= Answered
       /\ r \in acked => recorded[r] > 0
       /\ recorded[r] <= MAX_ATTEMPTS

LEMMA InitRecordInv == Init => RecordInv
  BY SinkConstants DEF Init, RecordInv

LEMMA PostRecordInv ==
  ASSUME IInv, RecordInv, NEW answer, NEW record \in BOOLEAN, Post(answer, record)
  PROVE  RecordInv'
<1>1. /\ flusher = "post" /\ cur \in Rows /\ cur \in pushed /\ ~Queued(cur)
      /\ attempt \in 1..MAX_ATTEMPTS /\ recorded \in [Rows -> Nat]
  BY SinkConstants DEF Post, IInv, TypeOK, Control, ExactlyOnePlace, RecordInv
<1>2. recorded[cur] <= attempt - 1
  BY <1>1 DEF RecordInv, Answered
<1>3. /\ recorded' \in [Rows -> Nat]
      /\ \A r \in Rows : r # cur => recorded'[r] = recorded[r]
      /\ recorded'[cur] <= attempt
      /\ record => recorded'[cur] > 0
      /\ recorded[cur] <= recorded'[cur]
  BY <1>1, <1>2 DEF Post
<1>4. UNCHANGED <<pushed, queue, attempt>>
  BY DEF Post
<1>5. \A r \in Rows : r \notin pushed' \/ Queued(r)' => recorded'[r] = 0
  BY <1>1, <1>3, <1>4 DEF RecordInv, Queued
<1>6. \A r \in Rows : recorded'[r] <= MAX_ATTEMPTS
  BY <1>1, <1>3, SinkConstants DEF RecordInv
<1>7. \A r \in Rows : r \in acked' => recorded'[r] > 0
  <2>1. acked' = acked \/ (acked' = acked \cup {cur} /\ record)
    BY DEF Post, success, Possible
  <2> QED BY <1>1, <1>3, <2>1 DEF RecordInv
<1>8. /\ cur' # NoRow => attempt' > 0
      /\ \A r \in Rows : r = cur' => recorded'[r] <= Answered'
  <2>1. cur' = NoRow \/ (cur' = cur /\ flusher' = "backoff")
    BY DEF Post
  <2> QED BY <1>1, <1>3, <1>4, <2>1, SinkConstants DEF Answered
<1> QED BY <1>5, <1>6, <1>7, <1>8 DEF RecordInv

LEMMA NextRecordInv == IInv /\ RecordInv /\ [Next]_vars => RecordInv'
<1> SUFFICES ASSUME IInv, RecordInv, [Next]_vars PROVE RecordInv'
  OBVIOUS
<1>1. CASE \E r \in Rows : Push(r)
  <2>1. PICK r \in Rows : Push(r)
    BY <1>1
  <2>2. UNCHANGED <<cur, attempt, flusher, acked, recorded>> /\ pushed' = pushed \cup {r}
    BY <2>1 DEF Push
  <2>3. \A x \in Rows : Queued(x)' => Queued(x) \/ x = r
    <3>1. queue \in Seq(Rows) /\ (queue' = queue \/ queue' = Append(queue, r))
      BY <2>1 DEF Push, TrySend, IInv, TypeOK
    <3>2. CASE queue' = Append(queue, r)
      <4>1. Len(queue') = Len(queue) + 1 /\ queue'[Len(queue) + 1] = r /\ Len(queue) \in Nat
            /\ \A i \in 1..Len(queue) : queue'[i] = queue[i]
        BY <3>1, <3>2
      <4> QED BY <4>1 DEF Queued
    <3> QED BY <3>1, <3>2 DEF Queued
  <2>4. recorded[r] = 0
    BY <2>1 DEF Push, RecordInv
  <2> QED BY <2>2, <2>3, <2>4 DEF RecordInv, Answered
<1>2. CASE Recv
  <2>1. /\ queue \in Seq(Rows) /\ queue # << >> /\ queue' = Tail(queue)
        /\ cur' = queue[1] /\ attempt' = 1 /\ flusher' = "post"
        /\ UNCHANGED <<pushed, acked, recorded>>
    BY <1>2 DEF Recv, IInv, TypeOK, results
  <2>2. \A x \in Rows : Queued(x)' => Queued(x)
    BY <2>1 DEF Queued
  <2>3. cur' \in Rows /\ Queued(cur')
    BY <2>1 DEF Queued
  <2>4. recorded[cur'] = 0
    BY <2>3 DEF RecordInv
  <2> QED BY <2>1, <2>2, <2>4 DEF RecordInv, Answered
<1>3. CASE \E answer \in Answers, record \in BOOLEAN : Post(answer, record)
  BY <1>3, PostRecordInv
<1>4. CASE Close \/ RecvNone \/ UNCHANGED vars
  <2>1. UNCHANGED <<pushed, queue, cur, attempt, acked, recorded>>
    BY <1>4 DEF Close, RecvNone, results, vars
  <2>2. Answered' = Answered
    BY <1>4, <2>1 DEF Close, RecvNone, vars, Answered
  <2> QED BY <2>1, <2>2 DEF RecordInv, Queued
<1>5. CASE Backoff
  <2>1. UNCHANGED <<pushed, queue, cur, acked, recorded>> /\ attempt' = attempt + 1
    BY <1>5 DEF Backoff, results
  <2>2. Answered' = Answered /\ attempt \in Nat
    BY <1>5 DEF Backoff, Answered, IInv, TypeOK
  <2> QED BY <2>1, <2>2 DEF RecordInv, Queued
<1>6. CASE RuntimeDown
  <2>1. UNCHANGED <<pushed, attempt, acked, recorded>> /\ queue' = << >> /\ cur' = NoRow
    BY <1>6 DEF RuntimeDown
  <2>2. \A r \in Rows : r # cur' /\ ~Queued(r)'
    BY <2>1, SinkConstants DEF Queued
  <2> QED BY <2>1, <2>2 DEF RecordInv
<1> QED BY <1>1, <1>2, <1>3, <1>4, <1>5, <1>6 DEF Next, Flush

\* A row counted as delivered was recorded by the endpoint, and the retries record
\* no row more often than the retry budget, for every budget and every answer.
THEOREM DeliveredRowsAreRecorded == Spec => []DeliveredIsRecorded
<1>1. IInv /\ RecordInv => DeliveredIsRecorded
  BY DEF IInv, TypeOK, RecordInv, DeliveredIsRecorded
<1> QED BY <1>1, Inductive, InitRecordInv, NextRecordInv, PTL DEF Spec

-----------------------------------------------------------------------------
(* ----------------- the sink implements UsageDelivery ------------------- *)

\* The pending rows of the abstract queue, as ImplementsDelivery maps them.
Held == IF cur = NoRow THEN << >> ELSE <<cur>>
Pending == Held \o queue

LEMMA PendingElements ==
  ASSUME IInv
  PROVE  /\ Pending \in Seq(Rows)
         /\ Len(Pending) = (IF cur = NoRow THEN 0 ELSE 1) + Len(queue)
         /\ cur = NoRow => Pending = queue
         /\ cur # NoRow => Pending # << >> /\ Head(Pending) = cur /\ Tail(Pending) = queue
         /\ Range(Pending) = Range(queue) \cup ({cur} \ {NoRow})
<1>1. queue \in Seq(Rows) /\ cur \in Rows \cup {NoRow}
  BY DEF IInv, TypeOK
<1>2. CASE cur = NoRow
  <2>1. Pending = queue
    BY <1>1, <1>2 DEF Pending, Held
  <2> QED BY <1>1, <1>2, <2>1
<1>3. CASE cur # NoRow
  <2>1. <<cur>> \in Seq(Rows) /\ Pending = <<cur>> \o queue
    BY <1>1, <1>3 DEF Pending, Held
  <2>2. /\ Pending \in Seq(Rows) /\ Len(Pending) = 1 + Len(queue)
        /\ Pending[1] = cur
        /\ \A i \in 1..Len(queue) : Pending[i + 1] = queue[i]
    BY <1>1, <2>1
  <2>3. Pending # << >> /\ Head(Pending) = cur
    BY <1>1, <2>2
  <2>4. Tail(Pending) = queue
    <3>1. /\ Tail(Pending) \in Seq(Rows) /\ Len(Tail(Pending)) = Len(queue)
          /\ \A i \in 1..Len(queue) : Tail(Pending)[i] = queue[i]
      BY <1>1, <2>2
    <3> QED BY <1>1, <3>1
  <2>5. Range(Pending) = Range(queue) \cup {cur}
    <3>1. DOMAIN Pending = 1..(1 + Len(queue)) /\ DOMAIN queue = 1..Len(queue) /\ Len(queue) \in Nat
      BY <1>1, <2>2
    <3>2. \A x : x \in Range(Pending) => x \in Range(queue) \cup {cur}
      <4> SUFFICES ASSUME NEW i \in 1..(1 + Len(queue)) PROVE Pending[i] \in Range(queue) \cup {cur}
        BY <3>1 DEF Range
      <4>1. CASE i = 1
        BY <4>1, <2>2
      <4>2. CASE i # 1
        <5>1. i - 1 \in 1..Len(queue) /\ (i - 1) + 1 = i
          BY <4>2, <3>1
        <5>2. Pending[i] = queue[i - 1]
          BY <5>1, <2>2
        <5> QED BY <5>1, <5>2, <3>1 DEF Range
      <4> QED BY <4>1, <4>2
    <3>3. \A x : x \in Range(queue) => x \in Range(Pending)
      <4> SUFFICES ASSUME NEW i \in 1..Len(queue) PROVE queue[i] \in Range(Pending)
        BY <3>1 DEF Range
      <4>1. i + 1 \in DOMAIN Pending /\ Pending[i + 1] = queue[i]
        BY <3>1, <2>2
      <4> QED BY <4>1 DEF Range
    <3>4. cur \in Range(Pending)
      <4>1. 1 \in DOMAIN Pending
        BY <3>1
      <4> QED BY <4>1, <2>2 DEF Range
    <3> QED BY <3>2, <3>3, <3>4
  <2> QED BY <1>3, <2>2, <2>3, <2>4, <2>5
<1> QED BY <1>2, <1>3

LEMMA SeenIsPushed ==
  ASSUME IInv
  PROVE  \A r \in Rows : r \in Range(Pending) \cup acked \cup dropped \cup lost <=> r \in pushed
<1>1. DOMAIN queue = 1..Len(queue)
  BY DEF IInv, TypeOK
<1>2. \A r \in Rows : r \in Range(queue) <=> Queued(r)
  BY <1>1 DEF Range, Queued
<1> QED BY <1>2, PendingElements, SinkConstants DEF IInv, ExactlyOnePlace, Resolved

\* The sets that UsageDelivery speaks of, under its own names.
LEMMA DeliverySeen ==
  /\ Delivery!Range(Pending) = Range(Pending)
  /\ Delivery!Seen = Range(Pending) \cup acked \cup dropped \cup lost
<1>1. Delivery!Range(Pending) = Range(Pending)
  BY DEF Delivery!Range, Range
<1> QED BY <1>1 DEF Delivery!Seen, Pending, Held

LEMMA DeliveryInit == Init => Delivery!Init
  BY DEF Init, Delivery!Init, Alive

\* A push is accepted when the channel has room, and refused otherwise.
LEMMA PushDelivers ==
  ASSUME IInv, IInv', NEW r \in Rows, Push(r)
  PROVE  Delivery!Accept(r) \/ Delivery!Refuse(r)
<1>1. r \notin Range(Pending) \cup acked \cup dropped \cup lost
  BY SeenIsPushed DEF Push
<1>2. UNCHANGED <<acked, lost, flusher, cur>>
  BY DEF Push
<1>3. queue \in Seq(Rows) /\ Held \in Seq(Rows) /\ Held' = Held /\ Len(Held) \in {0, 1}
  BY <1>2 DEF IInv, TypeOK, Held
<1>4. CASE Alive /\ Len(queue) < BUFFER_SIZE
  <2>1. queue' = Append(queue, r) /\ UNCHANGED dropped
    BY <1>4, SinkConstants DEF Push, TrySend, IInv, TypeOK
  <2>2. Held \o Append(queue, r) = Append(Held \o queue, r)
    BY <1>3
  <2>3. Pending' = Append(Pending, r)
    BY <1>3, <2>1, <2>2 DEF Pending
  <2>4. Len(Pending) <= BUFFER_SIZE
    BY <1>4, PendingElements, SinkConstants DEF IInv, TypeOK
  <2> QED BY <1>1, <1>2, <1>4, <2>1, <2>3, <2>4, DeliverySeen
      DEF Delivery!Accept, Pending, Held, Alive
<1>5. CASE ~(Alive /\ Len(queue) < BUFFER_SIZE)
  <2>1. GiveUp(r) /\ UNCHANGED queue
    BY <1>5 DEF Push, TrySend
  <2>2. Pending' = Pending
    BY <1>3, <2>1 DEF Pending
  <2>3. ~Alive \/ Len(Pending) >= BUFFER_SIZE
    BY <1>5, PendingElements, SinkConstants DEF IInv, TypeOK
  <2> QED BY <1>1, <1>2, <2>1, <2>2, <2>3, DeliverySeen
      DEF Delivery!Refuse, GiveUp, Pending, Held, Alive
<1> QED BY <1>4, <1>5

\* An answer resolves the oldest pending row or leaves everything as it is.
LEMMA PostDelivers ==
  ASSUME IInv, IInv', NEW answer, NEW record, Post(answer, record)
  PROVE  Delivery!Resolve \/ UNCHANGED Delivery!vars
<1>1. cur # NoRow /\ flusher = "post" /\ UNCHANGED <<queue, lost>>
  BY DEF Post, IInv, Control
<1>2. Pending # << >> /\ Head(Pending) = cur /\ Tail(Pending) = queue
  BY <1>1, PendingElements
<1>3. cur' = NoRow => Pending' = queue
  BY <1>1 DEF IInv, TypeOK, Pending, Held
<1>4. CASE success(answer)
  <2>1. acked' = acked \cup {cur} /\ cur' = NoRow /\ flusher' = "recv" /\ UNCHANGED dropped
    BY <1>4 DEF Post
  <2> QED BY <1>1, <1>2, <1>3, <2>1
      DEF Delivery!Resolve, Delivery!Deliver, Pending, Held, Alive
<1>5. CASE ~success(answer) /\ retryable(answer) /\ NextAttempt
  <2>1. flusher' = "backoff" /\ UNCHANGED <<cur, acked, dropped>>
    BY <1>5 DEF Post
  <2> QED BY <1>1, <2>1 DEF Delivery!vars, Alive
<1>6. CASE ~success(answer) /\ ~(retryable(answer) /\ NextAttempt)
  <2>1. dropped' = dropped \cup {cur} /\ cur' = NoRow /\ flusher' = "recv" /\ UNCHANGED acked
    BY <1>6 DEF Post, GiveUp
  <2> QED BY <1>1, <1>2, <1>3, <2>1
      DEF Delivery!Resolve, Delivery!GiveUp, Pending, Held, Alive
<1> QED BY <1>4, <1>5, <1>6

LEMMA DeliveryStep == IInv /\ IInv' /\ [Next]_vars => [Delivery!Next]_(Delivery!vars)
<1> SUFFICES ASSUME IInv, IInv', [Next]_vars PROVE Delivery!Next \/ UNCHANGED Delivery!vars
  OBVIOUS
<1>1. CASE \E r \in Rows : Push(r)
  BY <1>1, PushDelivers DEF Delivery!Next
<1>2. CASE Recv
  <2>1. /\ queue \in Seq(Rows) /\ queue # << >> /\ queue' = Tail(queue) /\ cur' = Head(queue)
        /\ cur = NoRow /\ cur' # NoRow /\ flusher = "recv" /\ flusher' = "post"
        /\ UNCHANGED <<acked, dropped, lost>>
    BY <1>2, SinkConstants DEF Recv, IInv, TypeOK, Control, results
  <2>2. <<Head(queue)>> \o Tail(queue) = queue
    BY <2>1
  <2>3. Pending = queue /\ Pending' = queue
    BY <2>1, <2>2 DEF Pending, Held
  <2> QED BY <2>1, <2>3 DEF Delivery!vars, Alive, Pending, Held
<1>3. CASE \E answer \in Answers, record \in BOOLEAN : Post(answer, record)
  BY <1>3, PostDelivers DEF Delivery!Next
<1>4. CASE Close \/ RecvNone \/ Backoff \/ UNCHANGED vars
  BY <1>4 DEF Close, RecvNone, Backoff, vars, results, Delivery!vars, Alive
<1>5. CASE RuntimeDown
  <2>1. lost' = Range(Pending) /\ Pending' = << >>
    BY <1>5, PendingElements DEF RuntimeDown, Pending, Held
  <2> QED BY <1>5, <2>1, DeliverySeen DEF RuntimeDown, Delivery!Next, Delivery!Stop, Pending, Held, Alive
<1> QED BY <1>1, <1>2, <1>3, <1>4, <1>5 DEF Next, Flush

\* The sink's steps are those of the bounded first-in first-out queue its callers
\* are promised: whatever the retries do, rows leave in the order they came, each
\* as delivered or dropped, and a push is refused only for want of room or of a
\* flusher. (That every row is resolved in the end is left to ImplementsDelivery.)
THEOREM SinkImplementsQueue == Spec => Delivery!Init /\ [][Delivery!Next]_(Delivery!vars)
  BY DeliveryInit, DeliveryStep, Inductive, PTL DEF Spec

-----------------------------------------------------------------------------
(* ------------------------------- the relay ----------------------------- *)

\* A piece of the text, by position.
LEMMA Piece ==
  ASSUME NEW S, NEW t \in Seq(S), NEW a \in Nat, NEW b \in Nat, a <= b, b <= Len(t)
  PROVE  /\ SubSeq(t, a + 1, b) \in Seq(S)
         /\ Len(SubSeq(t, a + 1, b)) = b - a
         /\ \A j \in 1..(b - a) : SubSeq(t, a + 1, b)[j] = t[a + j]
  OBVIOUS

LEMMA SameText ==
  ASSUME NEW S, NEW x \in Seq(S), NEW y \in Seq(S), Len(x) = Len(y),
         \A j \in 1..Len(x) : x[j] = y[j]
  PROVE  x = y
  OBVIOUS

\* The rule's text stands right after position i.
StandsAt(t, r, i) == \A j \in 1..Len(r) : t[i + j] = r[j]

LEMMA ContainsByPosition ==
  ASSUME NEW S, NEW t \in Seq(S), NEW r \in Seq(S), NEW a \in Nat, NEW b \in Nat,
         a <= b, b <= Len(t)
  PROVE  ContainsText(SubSeq(t, a + 1, b), r) <=> \E i \in a..(b - Len(r)) : StandsAt(t, r, i)
<1>1. PICK u : u = SubSeq(t, a + 1, b)
  OBVIOUS
<1>2. /\ u \in Seq(S) /\ Len(u) = b - a
      /\ \A j \in 1..(b - a) : u[j] = t[a + j]
  BY <1>1, Piece
<1>3. Len(r) \in Nat
  OBVIOUS
<1>4. ASSUME NEW i \in 0..(Len(u) - Len(r))
      PROVE  SubSeq(u, i + 1, i + Len(r)) = r <=> StandsAt(t, r, a + i)
  <2>1. PICK v : v = SubSeq(u, i + 1, i + Len(r))
    OBVIOUS
  <2>2. /\ v \in Seq(S) /\ Len(v) = Len(r)
        /\ \A j \in 1..Len(r) : v[j] = u[i + j]
    <3>1. i \in Nat /\ i + Len(r) \in Nat /\ i <= i + Len(r) /\ i + Len(r) <= Len(u)
          /\ i + Len(r) - i = Len(r)
      BY <1>2, <1>3, <1>4
    <3> QED BY <1>2, <2>1, <3>1, Piece
  <2>3. \A j \in 1..Len(r) : v[j] = t[(a + i) + j]
    BY <1>2, <1>3, <1>4, <2>2
  <2>4. v = r <=> \A j \in 1..Len(r) : v[j] = r[j]
    BY <2>2, SameText
  <2> QED BY <2>1, <2>3, <2>4 DEF StandsAt
<1>5. ContainsText(u, r) <=> \E i \in 0..(Len(u) - Len(r)) : StandsAt(t, r, a + i)
  BY <1>4 DEF ContainsText
<1>6. ASSUME NEW i \in a..(b - Len(r)), StandsAt(t, r, i)
      PROVE  \E k \in 0..(Len(u) - Len(r)) : StandsAt(t, r, a + k)
  <2>1. i - a \in 0..(Len(u) - Len(r)) /\ a + (i - a) = i
    BY <1>2, <1>3, <1>6
  <2> QED BY <1>6, <2>1
<1>7. ASSUME NEW k \in 0..(Len(u) - Len(r)), StandsAt(t, r, a + k)
      PROVE  \E i \in a..(b - Len(r)) : StandsAt(t, r, i)
  <2>1. a + k \in a..(b - Len(r))
    BY <1>2, <1>3, <1>7
  <2> QED BY <1>7, <2>1
<1> QED BY <1>1, <1>5, <1>6, <1>7

\* Where the tail that ends at position n starts.
From(n) == IF n > MAX_TAIL THEN n - MAX_TAIL ELSE 0

\* The scanner's buffer is the end of the text fed so far, whatever was cut from
\* it on the way.
LEMMA TailOfText ==
  ASSUME NEW S, NEW t \in Seq(S), NEW a \in Nat, NEW b \in Nat, a <= b, b <= Len(t)
  PROVE  Reassembled(SubSeq(t, From(a) + 1, a), SubSeq(t, a + 1, b)) = SubSeq(t, From(b) + 1, b)
<1>1. MAX_TAIL \in Nat /\ MAX_TAIL > 0
  BY RelayConstants
<1>2. PICK m \in Nat : m = From(a)
  <2>1. From(a) \in Nat
    BY <1>1 DEF From
  <2> QED BY <2>1
<1>3. m <= a /\ m <= b /\ a <= Len(t)
  BY <1>1, <1>2 DEF From
<1>4. PICK x, y, z : x = SubSeq(t, m + 1, a) /\ y = SubSeq(t, a + 1, b) /\ z = x \o y
  OBVIOUS
<1>5. /\ x \in Seq(S) /\ Len(x) = a - m /\ \A j \in 1..(a - m) : x[j] = t[m + j]
  BY <1>3, <1>4, Piece
<1>6. /\ y \in Seq(S) /\ Len(y) = b - a /\ \A j \in 1..(b - a) : y[j] = t[a + j]
  BY <1>4, Piece
<1>7. z \in Seq(S) /\ Len(z) = b - m
  BY <1>3, <1>4, <1>5, <1>6
<1>8. ASSUME NEW j \in 1..(b - m) PROVE z[j] = t[m + j]
  <2>1. CASE j <= a - m
    <3>1. z[j] = x[j]
      BY <1>3, <1>4, <1>5, <1>6, <2>1
    <3> QED BY <1>3, <1>5, <2>1, <3>1
  <2>2. CASE ~(j <= a - m)
    <3>1. z[j] = y[j - (a - m)] /\ j - (a - m) \in 1..(b - a)
      <4>1. j \in 1..(Len(x) + Len(y)) /\ ~(j <= Len(x)) /\ j - (a - m) \in 1..(b - a)
        BY <1>3, <1>5, <1>6, <2>2
      <4>2. (x \o y)[j] = y[j - Len(x)]
        BY <1>5, <1>6, <4>1, ConcatProperties
      <4> QED BY <1>4, <1>5, <4>1, <4>2
    <3>2. a + (j - (a - m)) = m + j
      BY <1>3
    <3> QED BY <1>6, <3>1, <3>2
  <2> QED BY <2>1, <2>2
<1>9. PICK k \in Nat : k = From(b)
  <2>1. From(b) \in Nat
    BY <1>1 DEF From
  <2> QED BY <2>1
<1>10. m <= k /\ k <= b
  BY <1>1, <1>2, <1>9 DEF From
<1>11. LastN(z, MAX_TAIL) = SubSeq(z, (k - m) + 1, b - m)
  <2>1. CASE b - m > MAX_TAIL
    <3>1. k - m + 1 = Len(z) - MAX_TAIL + 1
      BY <1>1, <1>2, <1>7, <1>9, <2>1 DEF From
    <3> QED BY <1>7, <2>1, <3>1 DEF LastN
  <2>2. CASE ~(b - m > MAX_TAIL)
    <3>1. k = m
      BY <1>1, <1>2, <1>3, <1>9, <2>2 DEF From
    <3>2. LastN(z, MAX_TAIL) = z /\ (k - m) + 1 = 1
      BY <1>7, <2>2, <3>1 DEF LastN
    <3>3. SubSeq(z, 1, Len(z)) = z
      BY <1>7, SubSeqFull
    <3> QED BY <1>7, <3>2, <3>3
  <2> QED BY <2>1, <2>2
<1>12. PICK u, w : u = SubSeq(z, (k - m) + 1, b - m) /\ w = SubSeq(t, k + 1, b)
  OBVIOUS
<1>13. u \in Seq(S) /\ Len(u) = b - k /\ \A j \in 1..(b - k) : u[j] = t[k + j]
  <2>1. k - m \in Nat /\ b - m \in Nat /\ k - m <= b - m /\ (b - m) - (k - m) = b - k
    BY <1>3, <1>10
  <2>2. u \in Seq(S) /\ Len(u) = b - k /\ \A j \in 1..(b - k) : u[j] = z[(k - m) + j]
    BY <1>7, <1>12, <2>1, Piece
  <2>3. \A j \in 1..(b - k) : (k - m) + j \in 1..(b - m) /\ m + ((k - m) + j) = k + j
    BY <1>3, <1>10
  <2> QED BY <1>8, <2>2, <2>3
<1>14. w \in Seq(S) /\ Len(w) = b - k /\ \A j \in 1..(b - k) : w[j] = t[k + j]
  BY <1>10, <1>12, Piece
<1>15. u = w
  BY <1>13, <1>14, SameText
<1> QED BY <1>2, <1>4, <1>9, <1>11, <1>12, <1>15 DEF Reassembled

-----------------------------------------------------------------------------
\* No match within the tail that ends at position n of the body.
Clean(n) == \A r \in Rules : \A i \in From(n)..(n - Len(r)) : ~StandsAt(body, r, i)

\* The buffer is the end of what was read, whatever was cut from it on the way,
\* and it was clean when the relay went on.
ScanInv ==
  /\ body \in Seq(STRING)
  /\ read \in Nat /\ read <= Len(body)
  /\ sent \in Nat /\ sent <= read
  /\ buffer = SubSeq(body, From(read) + 1, read)
  /\ pc \in {"read", "write"} => Clean(read)
  /\ Clean(sent)

LEMMA InitScan ==
  ASSUME RelayInit
  PROVE  ScanInv
<1>1. body \in Seq(STRING) /\ Len(body) \in Nat
  BY RelayConstants DEF RelayInit
<1>2. From(0) = 0 /\ SubSeq(body, 0 + 1, 0) = << >>
  <2>1. From(0) = 0
    BY RelayConstants DEF From
  <2>2. SubSeq(body, 0 + 1, 0) = << >>
    BY SubSeqEmpty
  <2> QED BY <2>1, <2>2
<1>3. \A r \in Rules : 0..(0 - Len(r)) = {}
  BY RelayConstants
<1> QED BY <1>1, <1>2, <1>3 DEF RelayInit, ScanInv, Clean

LEMMA ChunkScan ==
  ASSUME ScanInv, NEW n \in 1..MaxChunk, Chunk(n)
  PROVE  ScanInv'
<1>1. /\ pc = "read" /\ body' = body /\ sent' = sent
      /\ body \in Seq(STRING) /\ read \in Nat /\ sent \in Nat /\ sent <= read
      /\ n \in Nat /\ n > 0 /\ MAX_TAIL \in Nat
  BY RelayConstants DEF Chunk, ScanInv
<1>2. PICK b \in Nat : b = read + n
  BY <1>1
<1>3. read' = b /\ read <= b /\ b <= Len(body) /\ sent <= b
  BY <1>1, <1>2 DEF Chunk
<1>4. PICK tail : tail = SubSeq(body, From(b) + 1, b)
  OBVIOUS
<1>5. Reassembled(buffer, SubSeq(body, read + 1, read + n)) = tail
  BY <1>1, <1>2, <1>3, <1>4, TailOfText DEF ScanInv
<1>6. buffer' = tail /\ (evaluate(tail) = {} \/ pc' = "cut")
  BY <1>5 DEF Chunk
<1>7. Clean(sent)'
  BY <1>1 DEF ScanInv, Clean, StandsAt, From
<1>8. ASSUME evaluate(tail) = {} PROVE Clean(read)'
  <2>1. PICK a \in Nat : a = From(b) /\ a <= b
    <3>1. From(b) \in Nat /\ From(b) <= b
      BY <1>1 DEF From
    <3> QED BY <3>1
  <2> SUFFICES ASSUME NEW r \in Rules, \E i \in a..(b - Len(r)) : StandsAt(body, r, i)
               PROVE  FALSE
    BY <1>1, <1>3, <2>1 DEF Clean, StandsAt, From
  <2>2. r \in Seq(STRING)
    BY RelayConstants
  <2>3. ContainsText(SubSeq(body, a + 1, b), r)
    BY <1>1, <1>3, <2>1, <2>2, ContainsByPosition
  <2> QED BY <1>4, <1>8, <2>1, <2>3 DEF evaluate
<1>9. pc' \in {"read", "write"} => Clean(read)'
  BY <1>6, <1>8
<1>10. buffer' = SubSeq(body', From(read') + 1, read')
  BY <1>1, <1>3, <1>4, <1>6
<1> QED BY <1>1, <1>3, <1>7, <1>9, <1>10 DEF ScanInv, From

LEMMA NextScan ==
  ASSUME ScanInv, [RelayNext]_relayVars
  PROVE  ScanInv'
<1>1. CASE Write
  BY <1>1 DEF Write, ScanInv, Clean, StandsAt, From
<1>2. CASE Break \/ End
  BY <1>2 DEF Break, End, ScanInv, Clean, StandsAt, From
<1>3. CASE Finished \/ UNCHANGED relayVars
  BY <1>3 DEF Finished, relayVars, ScanInv, Clean, StandsAt, From
<1> QED BY <1>1, <1>2, <1>3, ChunkScan DEF RelayNext

\* For any body, rules and chunks, of whatever length, the last MAX_TAIL symbols
\* the client has been sent hold no match (ChunkScanner::feed, stream_back).
THEOREM SentTailIsClean == RelaySpec => []TailIsClean
<1>1. RelayInit => ScanInv
  BY InitScan
<1>2. ScanInv /\ [RelayNext]_relayVars => ScanInv'
  BY NextScan
<1>3. ScanInv => TailIsClean
  <2> SUFFICES ASSUME ScanInv, NEW r \in Rules, ContainsText(LastN(SubSeq(body, 1, sent), MAX_TAIL), r)
               PROVE  FALSE
    BY DEF TailIsClean
  <2>1. /\ body \in Seq(STRING) /\ sent \in Nat /\ sent <= Len(body) /\ 0 \in Nat
        /\ r \in Seq(STRING) /\ MAX_TAIL \in Nat
    BY RelayConstants DEF ScanInv
  <2>2. PICK a \in Nat : a = From(sent) /\ a <= sent
    <3>1. From(sent) \in Nat /\ From(sent) <= sent
      BY <2>1 DEF From
    <3> QED BY <3>1
  <2>3. LastN(SubSeq(body, 1, sent), MAX_TAIL) = SubSeq(body, a + 1, sent)
    <3>1. Reassembled(SubSeq(body, From(0) + 1, 0), SubSeq(body, 0 + 1, sent)) = SubSeq(body, From(sent) + 1, sent)
      BY <2>1, TailOfText
    <3>2. From(0) = 0 /\ 0 + 1 = 1
      BY <2>1 DEF From
    <3>3. SubSeq(body, 0 + 1, 0) = << >>
      BY <2>1, SubSeqEmpty
    <3>4. SubSeq(body, 1, sent) \in Seq(STRING)
      BY <2>1, <3>2, Piece
    <3>5. << >> \o SubSeq(body, 1, sent) = SubSeq(body, 1, sent)
      BY <3>4
    <3> QED BY <2>2, <3>1, <3>2, <3>3, <3>5 DEF Reassembled
  <2>4. \E i \in a..(sent - Len(r)) : StandsAt(body, r, i)
    BY <2>1, <2>2, <2>3, ContainsByPosition
  <2> QED BY <2>2, <2>4 DEF ScanInv, Clean
<1> QED BY <1>1, <1>2, <1>3, PTL DEF RelaySpec
=============================================================================
