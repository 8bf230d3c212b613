----------------------------- MODULE UsageSink -----------------------------
(***************************************************************************)
(* GpustackSink (hygress-egress/src/usage_sink.rs): request handlers push  *)
(* usage rows into a bounded channel; one flusher task POSTs them to the   *)
(* usage endpoint with bounded retries and drops what it cannot deliver.   *)
(* The endpoint is external: a POST may be recorded although its answer is *)
(* lost or is an error.                                                    *)
(***************************************************************************)
EXTENDS Naturals, Sequences, FiniteSets, Functions

CONSTANTS
  Rows,          \* usage rows; a caller pushes each at most once
  BUFFER_SIZE,   \* channel capacity
  MAX_ATTEMPTS,  \* POST attempts per row
  NoRow          \* the flusher holds no row

ASSUME SinkConstants ==
  /\ IsFiniteSet(Rows)
  /\ BUFFER_SIZE \in Nat \ {0}
  /\ MAX_ATTEMPTS \in Nat \ {0}
  /\ NoRow \notin Rows

VARIABLES
  pushed,    \* rows handed to push
  queue,     \* the mpsc channel
  open,      \* some GpustackSink handle is alive
  flusher,   \* where the flusher task is
  cur,       \* the payload the flusher works on
  attempt,   \* its attempt number
  acked,     \* rows whose POST was answered 2xx
  dropped,   \* rows given up
  drops,     \* calls of on_drop
  lost,      \* accepted rows that went down with the runtime
  recorded   \* how often the endpoint recorded each row

vars == <<pushed, queue, open, flusher, cur, attempt,
          acked, dropped, drops, lost, recorded>>
results == <<acked, dropped, drops, lost>>

FlusherStates == {"recv", "post", "backoff", "exited", "gone"}

TypeOK ==
  /\ pushed \subseteq Rows
  /\ queue \in Seq(Rows) /\ Len(queue) <= BUFFER_SIZE
  /\ open \in BOOLEAN
  /\ flusher \in FlusherStates
  /\ cur \in Rows \cup {NoRow}
  /\ attempt \in 0..MAX_ATTEMPTS
  /\ acked \subseteq Rows /\ dropped \subseteq Rows /\ lost \subseteq Rows
  /\ drops \in Nat
  /\ recorded \in [Rows -> Nat]

Alive == flusher # "gone"

Init ==
  /\ pushed = {}
  /\ queue = << >>
  /\ open = TRUE
  /\ flusher = "recv"
  /\ cur = NoRow
  /\ attempt = 0
  /\ acked = {} /\ dropped = {} /\ lost = {}
  /\ drops = 0
  /\ recorded = [r \in Rows |-> 0]

-----------------------------------------------------------------------------
\* What a POST can come to, and whether the endpoint recorded the row.
Answers == {"2xx", "429", "5xx", "4xx", "transport"}

\* An accepted row was recorded and a rejected one was not; the other answers,
\* and a lost one, say nothing about it.
Possible(answer, record) ==
  /\ answer = "2xx" => record
  /\ answer = "4xx" => ~record

retryable(answer) == answer \in {"transport", "429", "5xx"}

success_AnyAnswer(answer) == answer \in {"2xx", "429"}
success(answer) == answer = "2xx"

GiveUp_Silent(r) ==
  /\ dropped' = dropped \cup {r}
  /\ UNCHANGED drops

\* The row leaves the sink as dropped and on_drop fires.
GiveUp(r) ==
  /\ dropped' = dropped \cup {r}
  /\ drops' = drops + 1

-----------------------------------------------------------------------------
\* try_send into the channel: a full channel or a gone receiver drops the row.
TrySend(r) ==
  \/ /\ Alive /\ Len(queue) < BUFFER_SIZE
     /\ queue' = Append(queue, r)
     /\ UNCHANGED <<dropped, drops>>
  \/ /\ Alive /\ Len(queue) >= BUFFER_SIZE
     /\ GiveUp(r)
     /\ UNCHANGED queue
  \/ /\ ~Alive
     /\ GiveUp(r)
     /\ UNCHANGED queue

Push(r) ==
  /\ open
  /\ r \notin pushed
  /\ pushed' = pushed \cup {r}
  /\ TrySend(r)
  /\ UNCHANGED <<open, flusher, cur, attempt, acked, lost, recorded>>

\* The last handle is dropped: no more pushes, the channel is closed.
Close ==
  /\ open
  /\ open' = FALSE
  /\ UNCHANGED <<pushed, queue, flusher, cur, attempt, results, recorded>>

\* A recv that leaves the payload in the channel.
Recv_Peek ==
  /\ flusher = "recv" /\ queue # << >>
  /\ cur' = Head(queue)
  /\ attempt' = 1
  /\ flusher' = "post"
  /\ UNCHANGED <<pushed, queue, open, results, recorded>>

\* A recv that serves the newest payload first.
Recv_Newest ==
  /\ flusher = "recv" /\ queue # << >>
  /\ cur' = queue[Len(queue)]
  /\ queue' = SubSeq(queue, 1, Len(queue) - 1)
  /\ attempt' = 1
  /\ flusher' = "post"
  /\ UNCHANGED <<pushed, open, results, recorded>>

\* recv() returns the next queued payload ...
Recv ==
  /\ flusher = "recv" /\ queue # << >>
  /\ cur' = Head(queue)
  /\ queue' = Tail(queue)
  /\ attempt' = 1
  /\ flusher' = "post"
  /\ UNCHANGED <<pushed, open, results, recorded>>

\* ... and None once the channel is closed and empty.
RecvNone ==
  /\ flusher = "recv" /\ queue = << >> /\ ~open
  /\ flusher' = "exited"
  /\ UNCHANGED <<pushed, queue, open, cur, attempt, results, recorded>>

NextAttempt == attempt < MAX_ATTEMPTS

\* post_once and the loop around it.
Post(answer, record) ==
  /\ flusher = "post"
  /\ Possible(answer, record)
  /\ recorded' = IF record THEN [recorded EXCEPT ![cur] = @ + 1] ELSE recorded
  /\ \/ /\ success(answer)
        /\ acked' = acked \cup {cur}
        /\ cur' = NoRow /\ flusher' = "recv"
        /\ UNCHANGED <<dropped, drops>>
     \/ /\ ~success(answer) /\ retryable(answer) /\ NextAttempt
        /\ flusher' = "backoff"
        /\ UNCHANGED <<cur, acked, dropped, drops>>
     \/ /\ ~success(answer) /\ ~(retryable(answer) /\ NextAttempt)
        /\ GiveUp(cur)
        /\ cur' = NoRow /\ flusher' = "recv"
        /\ UNCHANGED acked
  /\ UNCHANGED <<pushed, queue, open, attempt, lost>>

Backoff ==
  /\ flusher = "backoff"
  /\ attempt' = attempt + 1
  /\ flusher' = "post"
  /\ UNCHANGED <<pushed, queue, open, cur, results, recorded>>

\* The runtime of the flusher is torn down (process exit or crash): nothing joins
\* the task, and what it had not resolved is gone without on_drop.
RuntimeDown ==
  /\ Alive
  /\ flusher' = "gone"
  /\ lost' = Range(queue) \cup ({cur} \ {NoRow})
  /\ queue' = << >>
  /\ cur' = NoRow
  /\ UNCHANGED <<pushed, open, attempt, acked, dropped, drops, recorded>>

Flush ==
  \/ Recv
  \/ RecvNone
  \/ \E answer \in Answers, record \in BOOLEAN : Post(answer, record)
  \/ Backoff

Next ==
  \/ \E r \in Rows : Push(r)
  \/ Close
  \/ Flush
  \/ RuntimeDown

\* Every await of the flusher ends: a POST has a timeout and a backoff is short.
Fairness == WF_vars(Flush)

Spec == Init /\ [][Next]_vars /\ Fairness

-----------------------------------------------------------------------------
Queued(r) == \E i \in 1..Len(queue) : queue[i] = r

Resolved == acked \cup dropped \cup lost

\* Conservation: a pushed row is queued once, or held by the flusher, or resolved
\* in exactly one way; no row is duplicated inside the gateway or forgotten.
ExactlyOnePlace ==
  /\ \A i, j \in 1..Len(queue) : queue[i] = queue[j] => i = j
  /\ \A r \in Rows :
       /\ Queued(r) => r # cur /\ r \notin Resolved
       /\ r = cur => r \notin Resolved
       /\ r \in acked => r \notin dropped \cup lost
       /\ r \in dropped => r \notin lost
       /\ r \in pushed <=> Queued(r) \/ r = cur \/ r \in Resolved

\* on_drop fires exactly once for every dropped row: the
\* hygress_usage_push_dropped_total counter is the number of rows given up.
DropsCounted == drops = Cardinality(dropped)

\* A row counted as delivered reached the endpoint, and a retry after a lost
\* answer records a row at most once per attempt.
DeliveredIsRecorded ==
  /\ \A r \in acked : recorded[r] > 0
  /\ \A r \in Rows : recorded[r] <= MAX_ATTEMPTS

\* The sink implements the abstract bounded queue: the pending rows are the one
\* in delivery followed by the channel.
Delivery == INSTANCE UsageDelivery
  WITH Capacity <- BUFFER_SIZE,
       pending <- (IF cur = NoRow THEN << >> ELSE <<cur>>) \o queue,
       delivered <- acked,
       stopped <- ~Alive

ImplementsDelivery == Delivery!Spec

=============================================================================
