-------------------------------- MODULE Body --------------------------------
(***************************************************************************)
(* The request body helpers of hygress-gateway/src/body.rs and the         *)
(* multipart part locator of hygress-core/src/bytes.rs. A body is a        *)
(* sequence of tokens and positions are token positions: a JSON string is  *)
(* its quotes and its characters, so a splice moves what follows it; a     *)
(* number or a literal is one token, and "bad" is a byte sequence that no  *)
(* JSON token starts with and that no JSON string contains. A model name   *)
(* is the sequence of its characters. A parameter of a part header is its  *)
(* name and "=", the quotes and the characters of its value; filename= is  *)
(* the two tokens file and name=, since the locator searches bytes.        *)
(***************************************************************************)
EXTENDS Naturals, Sequences

CONSTANTS
  None,       \* Option::None
  Malformed,  \* Err(())
  MaxDepth    \* MAX_JSON_DEPTH

LOCAL INSTANCE SequencesExt

Quote == "\""
Escape == "\\"
Literals == {"true", "false", "null", "num"}
MarkToken == "--B"          \* --<boundary>
Crlf == "crlf"

At(b, i) == IF i \in DOMAIN b THEN b[i] ELSE None
From(b, i) == SubSeq(b, i, Len(b))
Before(b, i) == SubSeq(b, 1, i - 1)

(* --------------------------- the JSON scanner -------------------------- *)

RECURSIVE skip_ws(_, _)
skip_ws(b, i) == IF At(b, i) = "ws" THEN skip_ws(b, i + 1) ELSE i

\* The character at i and the position after it; None for the closing quote.
json_string_char(b, i) ==
  CASE At(b, i) \in {None, "bad"} -> Malformed
    [] At(b, i) = Quote -> [next |-> i + 1, char |-> None]
    [] At(b, i) = Escape ->
         IF At(b, i + 1) \in {Quote, Escape} THEN [next |-> i + 2, char |-> b[i + 1]] ELSE Malformed
    [] OTHER -> [next |-> i + 1, char |-> b[i]]

RECURSIVE Chars(_, _, _)
Chars(b, i, text) ==
  LET c == json_string_char(b, i) IN
  IF c = Malformed THEN Malformed
  ELSE IF c.char = None THEN [text |-> text, end |-> c.next]
  ELSE Chars(b, c.next, Append(text, c.char))
parse_json_string(b, i) == IF At(b, i) = Quote THEN Chars(b, i + 1, << >>) ELSE Malformed
EndOf(s) == IF s = Malformed THEN Malformed ELSE s.end
skip_json_string(b, i) == EndOf(parse_json_string(b, i))

\* The position of the value after the key that ends at i and its colon.
AfterColon(b, i) == IF At(b, i) = ":" THEN skip_ws(b, i + 1) ELSE Malformed
AfterKey(b, i) == IF i = Malformed THEN Malformed ELSE AfterColon(b, skip_ws(b, i))
ValueAfterKey(b, i) == AfterKey(b, skip_json_string(b, i))

RECURSIVE skip_json_value(_, _, _), SkipMembers(_, _, _), SkipElements(_, _, _)
\* A container from its first item at q on; items are skipped one level deeper.
Container(b, q, close, depth, Items(_, _, _)) == IF At(b, q) = close THEN q + 1 ELSE Items(b, q, depth)
ValueAt(b, p, depth) ==
  CASE depth > MaxDepth -> Malformed
    [] depth <= MaxDepth /\ At(b, p) = Quote -> skip_json_string(b, p)
    [] depth <= MaxDepth /\ At(b, p) = "{" -> Container(b, skip_ws(b, p + 1), "}", depth, SkipMembers)
    [] depth <= MaxDepth /\ At(b, p) = "[" -> Container(b, skip_ws(b, p + 1), "]", depth, SkipElements)
    [] depth <= MaxDepth /\ At(b, p) \in Literals -> p + 1
    [] OTHER -> Malformed
skip_json_value(b, i, depth) == IF i = Malformed THEN Malformed ELSE ValueAt(b, skip_ws(b, i), depth)
AfterItem(b, e, close, depth, Items(_, _, _)) ==
  CASE At(b, e) = "," -> Items(b, skip_ws(b, e + 1), depth)
    [] At(b, e) = close -> e + 1
    [] OTHER -> Malformed
Continue(b, v, close, depth, Items(_, _, _)) ==
  IF v = Malformed THEN Malformed ELSE AfterItem(b, skip_ws(b, v), close, depth, Items)
SkipMembers(b, q, depth) ==
  Continue(b, skip_json_value(b, ValueAfterKey(b, q), depth + 1), "}", depth, SkipMembers)
SkipElements(b, q, depth) ==
  Continue(b, skip_json_value(b, q, depth + 1), "]", depth, SkipElements)

\* The member loop: a comma is passed wherever it stands, a trailing one
\* excepted. seen holds the keys and where their values start.
RECURSIVE Members(_, _, _)
Member1(b, key, at, end, seen) ==
  IF end = Malformed THEN Malformed ELSE Members(b, end, Append(seen, [key |-> key.text, at |-> at]))
MemberFrom(b, pos, after, at, seen) ==
  CASE At(b, pos) = "}" ->
         IF after = Len(b) + 1 THEN [members |-> seen, closing_brace |-> pos] ELSE Malformed
    [] At(b, pos) = "," -> IF At(b, after) = "}" THEN Malformed ELSE Members(b, after, seen)
    [] At(b, pos) = Quote -> Member1(b, parse_json_string(b, pos), at, skip_json_value(b, at, 0), seen)
    [] OTHER -> Malformed
MembersAt(b, pos, seen) == MemberFrom(b, pos, skip_ws(b, pos + 1), ValueAfterKey(b, pos), seen)
Members(b, i, seen) == MembersAt(b, skip_ws(b, i), seen)
ObjectAt(b, pos) == IF At(b, pos) = "{" THEN Members(b, pos + 1, << >>) ELSE Malformed
top_level_members(b) == ObjectAt(b, skip_ws(b, 1))

(* ------------------------------ the scans ------------------------------ *)

Of(ms, key) == SelectSeq(ms, LAMBDA m : m.key = key)
Has(ms, key) == Of(ms, key) # << >>

\* The value of the last of the members as a string with its span; None if
\* there is no member or its value is no string.
Span(at, s) == [text |-> s.text, from |-> at, to |-> s.end]
LastString(b, own) ==
  IF own = << >> THEN None
  ELSE IF b[Last(own).at] # Quote THEN None
  ELSE Span(Last(own).at, parse_json_string(b, Last(own).at))

ValueIn(b, t, key) == IF t = Malformed THEN None ELSE LastString(b, Of(t.members, key))
scan_top_level_value(b, key) == ValueIn(b, top_level_members(b), key)

LastIsTrue(b, own) == IF own = << >> THEN FALSE ELSE b[Last(own).at] = "true"
StreamScan(b, ms, closing_brace) ==
  [stream_true |-> LastIsTrue(b, Of(ms, <<"stream">>)),
   has_stream_options |-> Has(ms, <<"stream_options">>),
   closing_brace |-> closing_brace]

StreamOf(b, t) == IF t = Malformed THEN Malformed ELSE StreamScan(b, t.members, t.closing_brace)
scan_top_level_stream(b) == StreamOf(b, top_level_members(b))

\* The fused scan: a member of the model key is read as nothing else.
ProfileOf(b, t, key) ==
  IF t = Malformed THEN Malformed
  ELSE [model |-> LastString(b, Of(t.members, key)),
        stream |-> StreamScan(b, SelectSeq(t.members, LAMBDA m : m.key # key), t.closing_brace)]
scan_top_level_profile(b, model_key) == ProfileOf(b, top_level_members(b), model_key)

(* ----------------------------- the splices ----------------------------- *)

encode_json_string(s) ==
  <<Quote>> \o FlattenSeq([n \in DOMAIN s |-> IF s[n] \in {Quote, Escape} THEN <<Escape, s[n]>> ELSE <<s[n]>>])
    \o <<Quote>>
splice_json_string_at(b, span, value) ==
  Before(b, span.from) \o encode_json_string(value) \o From(b, span.to)

\* ,"stream_options":{"include_usage":true} before the closing brace.
StreamOptionsInjection == <<",", Quote, "stream_options", Quote, ":", "{", Quote, "include_usage", Quote, ":", "true", "}">>
splice_stream_options(b, closing_brace) ==
  IF closing_brace > Len(b) + 1 THEN None
  ELSE Before(b, closing_brace) \o StreamOptionsInjection \o From(b, closing_brace)

(* ------------------------------ multipart ------------------------------ *)

Find(b, P(_), i) == LET at == {n \in i..Len(b) : P(n)}
                    IN IF at = {} THEN None ELSE CHOOSE n \in at : \A k \in at : n <= k
NextMark(b, i) == Find(b, LAMBDA n : b[n] = MarkToken, i)

\* The value of the first part whose header names the model field. The two
\* line ends that close the header may be all there is of the part.
RECURSIVE PartFrom(_, _)
SeparatorIn(b, start, next) == Find(b, LAMBDA x : b[x] = Crlf /\ x + 1 < next /\ b[x + 1] = Crlf, start + 1)
FieldName == <<"name=", Quote, "model", Quote>>
\* contains_form_field searches the header's bytes and parses no parameter: a
\* filename in which the needle stands names the field too.
NamesModel(b, start, sep) ==
  /\ sep # None
  /\ \E x \in (start + 1)..(sep - Len(FieldName)) : SubSeq(b, x, x + Len(FieldName) - 1) = FieldName
ValueOrNext(b, next, named, from, end) ==
  IF named /\ from <= end THEN [from |-> from, to |-> end] ELSE PartFrom(b, next)
PartWith(b, start, next, sep) ==
  ValueOrNext(b, next, NamesModel(b, start, sep), IF sep = None THEN next ELSE sep + 2,
              IF b[next - 1] = Crlf THEN next - 1 ELSE next)
PartUpTo(b, start, next) == PartWith(b, start, next, SeparatorIn(b, start, next))
EndOr(next, b) == IF next = None THEN Len(b) + 1 ELSE next
PartAt(b, start) ==
  IF start = None THEN None
  ELSE IF At(b, start + 1) = "--" THEN None
  ELSE PartUpTo(b, start, EndOr(NextMark(b, start + 1), b))
PartFrom(b, i) == PartAt(b, NextMark(b, i))
first_form_value_span(b) == PartFrom(b, 1)
TextAt(b, s) == IF s = None THEN None ELSE SubSeq(b, s.from, s.to - 1)
extract_multipart_model(b) == TextAt(b, first_form_value_span(b))
SpliceAt(b, s, value) == IF s = None THEN None ELSE Before(b, s.from) \o value \o From(b, s.to)
rewrite_multipart_model(b, value) == SpliceAt(b, first_form_value_span(b), value)

(* ----------------------- by content type: json, form ------------------- *)

TextOf(v) == IF v = None THEN None ELSE v.text

\* ct is "json", "form" (multipart with a boundary) or anything else.
extract_model(b, ct, key) ==
  CASE b # << >> /\ ct = "json" -> TextOf(scan_top_level_value(b, key))
    [] b # << >> /\ ct = "form" -> extract_multipart_model(b)
    [] OTHER -> None
rewrite_json_model(b, key, value) ==
  SpliceAt(b, scan_top_level_value(b, key), encode_json_string(value))
rewrite_model_field(b, ct, key, value) ==
  CASE ct = "json" -> rewrite_json_model(b, key, value)
    [] ct = "form" -> rewrite_multipart_model(b, value)
    [] OTHER -> None

(* --------------------------- usage injection --------------------------- *)

\* None when the body stays as it is.
Injected(b, scan) ==
  IF scan = Malformed THEN None
  ELSE IF scan.stream_true /\ ~scan.has_stream_options THEN splice_stream_options(b, scan.closing_brace)
  ELSE None
ensure_stream_include_usage(b, ct, completions, is_model_route) ==
  IF is_model_route /\ b # << >> /\ ct = "json" /\ completions
  THEN Injected(b, scan_top_level_stream(b)) ELSE None
ensure_stream_include_usage_from_memo(b, completions, is_model_route, memo) ==
  IF is_model_route /\ b # << >> /\ completions THEN Injected(b, memo) ELSE None
=============================================================================
