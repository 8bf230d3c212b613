--------------------------- MODULE UsageDelivery ---------------------------
(***************************************************************************)
(* What the usage sink promises its callers (the module documentation of   *)
(* hygress-egress/src/usage_sink.rs): a bounded first-in first-out queue   *)
(* whose rows are each resolved once, in order, as delivered or dropped.   *)
(* Retries, backoff and the channel are not visible at this level.         *)
(***************************************************************************)
EXTENDS Naturals, Sequences, Functions

CONSTANTS
  Rows,      \* usage rows, one per push
  Capacity   \* rows the channel holds; one more may be in delivery

VARIABLES
  pending,    \* accepted rows, oldest first
  delivered,  \* rows the endpoint acknowledged
  dropped,    \* rows given up, each reported to on_drop
  lost,       \* rows that were pending when the runtime went down
  stopped     \* the runtime is down

vars == <<pending, delivered, dropped, lost, stopped>>

Seen == Range(pending) \cup delivered \cup dropped \cup lost

Init ==
  /\ pending = << >>
  /\ delivered = {}
  /\ dropped = {}
  /\ lost = {}
  /\ stopped = FALSE

Accept(r) ==
  /\ ~stopped /\ r \notin Seen
  /\ Len(pending) <= Capacity
  /\ pending' = Append(pending, r)
  /\ UNCHANGED <<delivered, dropped, lost, stopped>>

\* A row is refused only for want of room or of a flusher.
Refuse(r) ==
  /\ r \notin Seen
  /\ stopped \/ Len(pending) >= Capacity
  /\ dropped' = dropped \cup {r}
  /\ UNCHANGED <<pending, delivered, lost, stopped>>

Deliver ==
  /\ pending # << >>
  /\ delivered' = delivered \cup {Head(pending)}
  /\ pending' = Tail(pending)
  /\ UNCHANGED <<dropped, lost, stopped>>

GiveUp ==
  /\ pending # << >>
  /\ dropped' = dropped \cup {Head(pending)}
  /\ pending' = Tail(pending)
  /\ UNCHANGED <<delivered, lost, stopped>>

Stop ==
  /\ ~stopped
  /\ stopped' = TRUE
  /\ lost' = Range(pending)
  /\ pending' = << >>
  /\ UNCHANGED <<delivered, dropped>>

Resolve == Deliver \/ GiveUp

Next ==
  \/ \E r \in Rows : Accept(r) \/ Refuse(r)
  \/ Resolve
  \/ Stop

\* The flusher never waits for ever: every accepted row is resolved in the end.
Spec == Init /\ [][Next]_vars /\ WF_vars(Resolve)

=============================================================================
