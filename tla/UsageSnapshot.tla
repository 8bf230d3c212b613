--------------------------- MODULE UsageSnapshot ---------------------------
(***************************************************************************)
(* The usage accumulator of hygress-core/src/usage.rs: response chunks,    *)
(* split anywhere, are fed in order; the accumulator tells an event stream *)
(* from a JSON body, reassembles lines across chunks within a byte cap,    *)
(* counts data lines and absorbs usage objects, the last one winning.      *)
(*                                                                         *)
(* Text is a sequence of symbols. The marker "data:" is two symbols, so    *)
(* that a chunk can split it; a usage object is one symbol, named by the   *)
(* constant that gives its fields.                                         *)
(***************************************************************************)
EXTENDS Integers, Sequences, SequencesExt

CONSTANTS
  MAX_TAIL_BYTES,           \* cap on the unclassified tail and on one line
  MAX_JSON_PARSE_ATTEMPTS,  \* full parses before classification
  MaxU64,                   \* where saturating_add stops
  UsageKeys,                \* symbols of a "usage" member
  MessageKeys,              \* symbols of a "message" member that holds one
  UsageObject               \* symbol -> its fields, or nothing when not an object

None == -1
NL == "nl"
Blank == "sp"
Marker == <<"da", "ta:">>
Done == "[DONE]"

\* usage: null and the like.
NotAnObject == {}

RawUsage ==
  [prompt_tokens : Int, input_tokens : Int, completion_tokens : Int, output_tokens : Int,
   total_tokens : Int, total_token : Int, cache_read : Int, cached_tokens : Int, details : Int]

ASSUME SnapshotConstants ==
  /\ MAX_TAIL_BYTES \in Nat \ {0}
  /\ MAX_JSON_PARSE_ATTEMPTS \in Nat \ {0}
  /\ MaxU64 \in Nat \ {0}
  /\ UsageKeys \cap MessageKeys = {}
  /\ DOMAIN UsageObject = UsageKeys \cup MessageKeys
  /\ \A k \in DOMAIN UsageObject :
       UsageObject[k] = NotAnObject \/ \E o \in UsageObject[k] : UsageObject[k] = {o} /\ o \in RawUsage

Or(a, b) == IF a # None THEN a ELSE b
unwrap_or_0(a) == IF a = None THEN 0 ELSE a

\* fields_from: the member names each provider family is read by.
fields_from(o, schema) ==
  LET either == schema \in {"OpenAi", "Generic"}
  IN  [input  |-> IF either THEN Or(o.prompt_tokens, o.input_tokens) ELSE o.input_tokens,
       output |-> IF either THEN Or(o.completion_tokens, o.output_tokens)
                            ELSE o.output_tokens,
       total  |-> Or(o.total_tokens, o.total_token),
       cached |-> CASE schema = "OpenAi"    -> Or(o.details, o.cached_tokens)
                    [] schema = "Anthropic" -> o.cache_read
                    [] OTHER -> Or(o.cache_read, Or(o.cached_tokens, o.details))]

-----------------------------------------------------------------------------
\* JSON, as far as the accumulator looks into it: braces nest, an object closes
\* with its last symbol, a key belongs to the depth it stands at.
Depth(t, i) ==
  LET brace(k) == CASE t[k] = "{" -> 1 [] t[k] = "}" -> -1 [] OTHER -> 0
  IN  FoldLeftDomain(LAMBDA acc, k : IF k <= i THEN acc + brace(k) ELSE acc, 0, t)

IsSpace(c) == c \in {NL, Blank}

trim_ascii(t) ==
  LET solid == {i \in DOMAIN t : ~IsSpace(t[i])}
  IN  IF solid = {} THEN <<>>
      ELSE SubSeq(t, CHOOSE i \in solid : \A j \in solid : i <= j,
                     CHOOSE i \in solid : \A j \in solid : i >= j)

\* serde_json::from_slice yields an object.
IsObject(text) ==
  LET t == trim_ascii(text)
  IN  /\ Len(t) > 1
      /\ \A i \in 1..(Len(t) - 1) : Depth(t, i) > 0
      /\ Depth(t, Len(t)) = 0
      /\ ToSet(t) \cap ({Done} \cup ToSet(Marker)) = {}

At(t, keys) == {i \in DOMAIN t : t[i] \in keys /\ Depth(t, i) = 1}

\* usage_from_payload: a top-level usage, else message.usage; nothing deeper.
usage_from_payload(t) ==
  LET found == IF At(t, UsageKeys) # {} THEN At(t, UsageKeys) ELSE At(t, MessageKeys)
  IN  {UsageObject[t[i]] : i \in found}

-----------------------------------------------------------------------------
\* UsageSnapshot::new
new(schema) ==
  [schema |-> schema, input |-> None, output |-> None, total |-> None, cached |-> None,
   chunks |-> 0, seen |-> FALSE, tail |-> <<>>, mode |-> "Unknown", probe |-> 0,
   attempts |-> 0, skip |-> FALSE]

\* absorb_value: field by field, the last report wins.
absorb_value(s, value) ==
  IF value = NotAnObject THEN s
  ELSE LET u == fields_from(CHOOSE o \in value : TRUE, s.schema)
       IN  [s EXCEPT !.input = Or(u.input, @), !.output = Or(u.output, @),
                     !.total = Or(u.total, @), !.cached = Or(u.cached, @), !.seen = TRUE]

AbsorbPayload(s, t) ==
  LET found == usage_from_payload(t)
  IN  IF found = {} THEN s ELSE absorb_value(s, CHOOSE v \in found : TRUE)

\* finish_json
finish_json(s, t) == AbsorbPayload([s EXCEPT !.chunks = @ + 1], t)

\* process_sse_line: an anchored data line counts once; the literal "usage" is
\* looked for before the payload is parsed.
process_sse_line(s, line) ==
  LET payload == trim_ascii(SubSeq(line, Len(Marker) + 1, Len(line)))
      counted == [s EXCEPT !.chunks = @ + 1]
  IN  IF ~IsPrefix(Marker, line) \/ payload = <<>> \/ payload = <<Done>> THEN s
      ELSE IF ToSet(payload) \cap (UsageKeys \cup MessageKeys) # {} /\ IsObject(payload)
           THEN AbsorbPayload(counted, payload)
           ELSE counted

-----------------------------------------------------------------------------
Newlines(t) == {i \in DOMAIN t : t[i] = NL}

\* The newline-terminated lines of a text, and what follows the last of them.
Lines(t) ==
  LET nl == SetToSortSeq(Newlines(t), <)
  IN  [k \in DOMAIN nl |->
         SubSeq(t, IF k = 1 THEN 1 ELSE nl[k - 1] + 1, nl[k] - 1)]
Trailing(t) ==
  IF Newlines(t) = {} THEN t
  ELSE SubSeq(t, 1 + (CHOOSE i \in Newlines(t) : \A j \in Newlines(t) : i >= j), Len(t))

FirstNewline(t) == CHOOSE i \in Newlines(t) : \A j \in Newlines(t) : i <= j
FirstLine(t) == SubSeq(t, 1, FirstNewline(t) - 1)
AfterFirst(t) == SubSeq(t, FirstNewline(t) + 1, Len(t))

\* consume_sse and discard_prefix: the buffered text once it is classified.
consume_sse(s) ==
  [FoldLeft(process_sse_line, s, Lines(s.tail)) EXCEPT !.tail = Trailing(s.tail)]

\* A probe that resumes where the last one stopped.
probe_anchored_data_NoOverlap(buf, probe) ==
  \/ probe = 0 /\ IsPrefix(Marker, buf)
  \/ \E i \in (probe + 1)..(Len(buf) - Len(Marker)) :
       buf[i] = NL /\ SubSeq(buf, i + 1, i + Len(Marker)) = Marker

\* probe_anchored_data: a marker at the start, or after a newline no further
\* back than its own length before the last probe.
probe_anchored_data(buf, probe) ==
  LET m == Len(Marker)
      from == IF probe > m + 1 THEN probe - (m + 1) ELSE 0
  IN  \/ probe < m /\ IsPrefix(Marker, buf)
      \/ \E i \in (from + 1)..(Len(buf) - m) :
           buf[i] = NL /\ SubSeq(buf, i + 1, i + m) = Marker

json_may_have_completed(t) ==
  LET solid == trim_ascii(t) IN solid # <<>> /\ Last(solid) = "}"

\* The three ways out of an unclassified feed, in the order they are tried.
FeedUnknown(s, chunk) ==
  LET held == [s EXCEPT !.tail = @ \o chunk, !.probe = Len(s.tail) + Len(chunk)]
      parsed == [held EXCEPT !.attempts = @ + 1]
  IN  CASE probe_anchored_data(held.tail, s.probe) -> consume_sse([held EXCEPT !.mode = "Sse"])
        [] Len(held.tail) > MAX_TAIL_BYTES -> [held EXCEPT !.tail = <<>>, !.mode = "Oversized"]
        [] /\ json_may_have_completed(held.tail)
           /\ s.attempts < MAX_JSON_PARSE_ATTEMPTS ->
             IF IsObject(held.tail)
             THEN [finish_json([parsed EXCEPT !.mode = "Json"], trim_ascii(held.tail))
                     EXCEPT !.tail = <<>>]
             ELSE parsed
        [] OTHER -> held

\* The incomplete rest of a chunk is kept, or dropped and skipped to its end.
Keep(s, sliver) ==
  IF Len(s.tail) + Len(sliver) > MAX_TAIL_BYTES
  THEN [s EXCEPT !.tail = <<>>, !.skip = TRUE]
  ELSE [s EXCEPT !.tail = @ \o sliver]

\* Lines that lie wholly in the chunk are judged whatever their length.
WholeLines(s, text) == Keep(FoldLeft(process_sse_line, s, Lines(text)), Trailing(text))

\* The pending line is joined with the chunk up to its newline.
Join(s, text) ==
  LET line == s.tail \o FirstLine(text)
      cleared == [s EXCEPT !.tail = <<>>]
  IN  IF Len(line) > MAX_TAIL_BYTES THEN cleared ELSE process_sse_line(cleared, line)

Resume(s, text) ==
  CASE s.tail = <<>> -> WholeLines(s, text)
    [] s.tail # <<>> /\ Newlines(text) = {} -> Keep(s, text)
    [] OTHER -> WholeLines(Join(s, text), AfterFirst(text))

consume_sse_slice(s, chunk) ==
  IF ~s.skip THEN Resume(s, chunk)
  ELSE IF Newlines(chunk) = {} THEN s
       ELSE Resume([s EXCEPT !.skip = FALSE], AfterFirst(chunk))

feed(s, chunk) ==
  CASE chunk = <<>> -> s
    [] chunk # <<>> /\ s.mode \in {"Json", "Oversized"} -> [s EXCEPT !.tail = <<>>]
    [] chunk # <<>> /\ s.mode = "Unknown" -> FeedUnknown(s, chunk)
    [] chunk # <<>> /\ s.mode = "Sse" -> consume_sse_slice(s, chunk)

-----------------------------------------------------------------------------
SaturatingAdd(a, b) == IF a + b > MaxU64 THEN MaxU64 ELSE a + b

\* flush: the record a response is metered by.
flush(s) ==
  LET sum == SaturatingAdd(unwrap_or_0(s.input), unwrap_or_0(s.output))
  IN  [input |-> unwrap_or_0(s.input), output |-> unwrap_or_0(s.output),
       total |-> IF s.total # None /\ s.total > sum THEN s.total ELSE sum,
       cached |-> unwrap_or_0(s.cached), completed |-> s.seen, chunks |-> s.chunks]

=============================================================================
