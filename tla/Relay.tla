------------------------------- MODULE Relay -------------------------------
(***************************************************************************)
(* The relay of a 2xx answer, HygressProxy::stream_back (hygress-gateway/  *)
(* src/pipe.rs): every upstream chunk is fed to the usage accumulator and  *)
(* to the output guardrail's ChunkScanner before it is written to the      *)
(* client; the end of the stream, a guardrail hit and a break of either    *)
(* socket each leave a usage row and settle the quota reservation.         *)
(***************************************************************************)
EXTENDS UsageSnapshot

CONSTANTS
  MAX_TAIL,   \* bytes the scanner retains
  MaxChunk,   \* bound on a chunk; the code sets none, and it may exceed MAX_TAIL
  Rules,      \* the compiled static rules: literal texts, not empty
  Bodies      \* response bodies

ASSUME RelayConstants ==
  /\ MAX_TAIL \in Nat \ {0} /\ MaxChunk \in Nat \ {0}
  /\ \A b \in Bodies : b \in Seq(STRING)
  /\ \A r \in Rules : r \in Seq(STRING) /\ Len(r) > 0

VARIABLES
  body,      \* what the upstream sends
  metered,   \* prepared.usage is present and the content type can carry usage
  read,      \* symbols taken from the upstream
  sent,      \* symbols written to the client
  usage,     \* the live accumulator
  buffer,    \* ChunkScanner's tail
  pc,        \* "read", "write", or how the relay ended
  row,       \* the usage row pushed, at most one
  settled    \* how the reservation was settled

relayVars == <<body, metered, read, sent, usage, buffer, pc, row, settled>>

RelayInit ==
  /\ body \in Bodies
  /\ metered \in BOOLEAN
  /\ read = 0 /\ sent = 0
  /\ usage = new("Generic")
  /\ buffer = <<>>
  /\ pc = "read"
  /\ row = {}
  /\ settled = "held"

-----------------------------------------------------------------------------
ContainsText(t, p) == \E i \in 0..(Len(t) - Len(p)) : SubSeq(t, i + 1, i + Len(p)) = p

\* StaticRuleSet::evaluate over the retained tail.
evaluate(t) == {r \in Rules : ContainsText(t, r)}

LastN(t, n) == IF Len(t) > n THEN SubSeq(t, Len(t) - n + 1, Len(t)) ELSE t

\* A scanner that looks at each chunk alone.
Reassembled_Forgets(old, chunk) == LastN(chunk, MAX_TAIL)

\* ChunkScanner::feed: the tail is cut first and evaluated afterwards.
Reassembled(old, chunk) == LastN(old \o chunk, MAX_TAIL)

\* usage_fields and flush: the row of this response, for metered traffic only.
PushRow(s) == row' = IF metered THEN row \cup {flush(s)} ELSE row

\* One upstream chunk: usage first, then the guardrail, then the client. A hit
\* pushes the live accumulator, releases the reservation and cuts the client.
Chunk(n) ==
  /\ pc = "read" /\ read + n <= Len(body)
  /\ LET chunk == SubSeq(body, read + 1, read + n)
         fed == IF metered THEN feed(usage, chunk) ELSE usage
         tail == Reassembled(buffer, chunk)
     IN  /\ read' = read + n
         /\ usage' = fed
         /\ buffer' = tail
         /\ \/ /\ evaluate(tail) = {}
               /\ pc' = "write"
               /\ UNCHANGED <<row, settled>>
            \/ /\ evaluate(tail) # {}
               /\ pc' = "cut"
               /\ PushRow(fed)
               /\ settled' = "released"
  /\ UNCHANGED <<body, metered, sent>>

Write ==
  /\ pc = "write"
  /\ sent' = read
  /\ pc' = "read"
  /\ UNCHANGED <<body, metered, read, usage, buffer, row, settled>>

\* The read or the write fails, the last write included: the accumulator is
\* retained and the caller reports it; the reservation is released.
Break ==
  /\ pc \in {"read", "write"}
  /\ pc' = "broken"
  /\ PushRow(usage)
  /\ settled' = "released"
  /\ UNCHANGED <<body, metered, read, sent, usage, buffer>>

\* The end of the stream commits the reservation with the total of the row.
End ==
  /\ pc = "read" /\ read = Len(body)
  /\ pc' = "ended"
  /\ PushRow(usage)
  /\ settled' = "committed"
  /\ UNCHANGED <<body, metered, read, sent, usage, buffer>>

Finished == pc \in {"ended", "cut", "broken"} /\ UNCHANGED relayVars

RelayNext == (\E n \in 1..MaxChunk : Chunk(n)) \/ Write \/ Break \/ End \/ Finished

RelaySpec == RelayInit /\ [][RelayNext]_relayVars

-----------------------------------------------------------------------------
Fed == SubSeq(body, 1, read)

\* The text taken as a whole: its data lines, or itself when it is one object.
Anchored(t) ==
  \/ IsPrefix(Marker, t)
  \/ \E i \in 1..(Len(t) - Len(Marker)) :
       t[i] = NL /\ SubSeq(t, i + 1, i + Len(Marker)) = Marker
Payload(line) == trim_ascii(SubSeq(line, Len(Marker) + 1, Len(line)))
IsData(line) == IsPrefix(Marker, line) /\ Payload(line) \notin {<<>>, <<Done>>}
Events(t) ==
  IF ~Anchored(t) THEN IF IsObject(t) THEN <<trim_ascii(t)>> ELSE <<>>
  ELSE LET data == SelectSeq(Lines(t), IsData) IN [k \in DOMAIN data |-> Payload(data[k])]

\* The last report of a field, over all events that carry a usage object.
Reports(t) ==
  {k \in DOMAIN Events(t) :
     IsObject(Events(t)[k]) /\ UNION usage_from_payload(Events(t)[k]) # {}}
Report(t, k) ==
  fields_from(CHOOSE o \in UNION usage_from_payload(Events(t)[k]) : TRUE, "Generic")
LastReport(t, field) ==
  LET ks == {k \in Reports(t) : Report(t, k)[field] # None}
  IN  IF ks = {} THEN None ELSE Report(t, CHOOSE k \in ks : \A j \in ks : k >= j)[field]
Reference(t) ==
  [input |-> LastReport(t, "input"), output |-> LastReport(t, "output"),
   total |-> LastReport(t, "total"), cached |-> LastReport(t, "cached"),
   chunks |-> Len(Events(t)), seen |-> Reports(t) # {}]

\* The bodies the caps are not meant for: a line, or all the text up to the
\* first marker, over the cap, or more closing braces than parse attempts.
Preamble(t) ==
  LET from == {i \in DOMAIN t : Anchored(SubSeq(t, 1, i))}
  IN  IF from = {} THEN Len(t) ELSE CHOOSE i \in from : \A j \in from : i <= j
WithinCaps(t) ==
  /\ \A k \in DOMAIN Lines(t) : Len(Lines(t)[k]) <= MAX_TAIL_BYTES
  /\ Len(Trailing(t)) <= MAX_TAIL_BYTES
  /\ Preamble(t) <= MAX_TAIL_BYTES
  /\ Anchored(t) \/ Len(SelectSeq(t, LAMBDA c : c = "}")) <= MAX_JSON_PARSE_ATTEMPTS

\* Packet boundaries do not change the bill: wherever a metered response ends,
\* at its end, by a cut or by a break, it leaves exactly one row, and however the
\* stream was split the row holds what one pass over the text read so far yields,
\* every data line counted once; past the caps no line is counted twice.
RowIsChunkingIndependent ==
  /\ metered => usage.chunks <= Reference(Fed).chunks
  /\ pc \in {"ended", "cut", "broken"} =>
       IF ~metered THEN row = {}
       ELSE \E r \in row :
              /\ row = {r}
              /\ r.total >= r.input /\ r.total >= r.output
              /\ WithinCaps(body) => r = flush(Reference(Fed))

\* What the scanner does guarantee, for chunks of any length: when a chunk has been
\* written, the last MAX_TAIL symbols the client holds contain no match, wherever
\* the borders of the chunks before it fell. So a match reaches the client only if
\* more than MAX_TAIL symbols lie between its start and the end of the chunk it
\* ends in (ChunkScanner::feed).
TailIsClean ==
  \A r \in Rules : ~ContainsText(LastN(SubSeq(body, 1, sent), MAX_TAIL), r)

\* The promise of the scanner's documentation: a tail as long as the longest
\* pattern is enough for a rule to match (core guardrail.rs:9-11 and :95-96). It
\* fails: one chunk may be longer than the tail, and feed drops its beginning
\* before any rule has seen it.
NoMatchIsRelayed ==
  \A r \in Rules : Len(r) <= MAX_TAIL => ~ContainsText(SubSeq(body, 1, sent), r)

=============================================================================
