------------------------------ MODULE Prepare -------------------------------
(***************************************************************************)
(* What a request becomes on its way to an upstream: reading its body and  *)
(* headers, the pure stages of pipeline/mod.rs (prepare, build_outbound)   *)
(* with the model router and mapper, the routing policy's actions, the     *)
(* forward-auth exchange, and the dial of each candidate (pipe.rs,         *)
(* egress/provider.rs), over failover and fallback hops. Which failures    *)
(* move on to the next candidate or hop is RequestPath's subject: here any *)
(* of them may. The query string rides along unchanged and is left out.    *)
(***************************************************************************)
EXTENDS RouteTable, Headers, Integers

CONSTANTS
  Malformed, MaxDepth,  \* of Body
  Requests,    \* [method, path, headers, body, ct, doc]: doc is the document the
               \* body was rendered from, see Says and Render
  Snapshots,   \* live snapshots: [routes, registries, proxies, tokens]; a route
               \* also has rewrite, <<regex, path>> -> upstream path
  Router,      \* [alias, enabled, model_key, target_header, max_body_bytes]
  Segment,     \* path -> its segment after the router's prefix, None without it
  Completions, \* the paths that end with /completions
  Providers,   \* the service names that start with provider-
  Actions,     \* policy actions: [override, pin, add, del]: pin is the set of
               \* service names its pattern matches, add and del header lists
  Verdicts,    \* what /token-auth may answer: [status, headers]
  AuthToken,   \* the derived gateway token
  ChunkSize,   \* body bytes of one downstream read
  MaxHops      \* max_redirects

INSTANCE Body

VARIABLES
  pc,          \* the step of request_filter that comes next
  data,        \* the snapshot loaded when the request came in
  mode,        \* forward-auth of this process: "off", or its fail mode
  client,      \* the request as the client sends it
  buf,         \* the body read so far
  current,     \* the request that is dispatched, fallback markers included
  routed,      \* body and model after the router: [body, model, body_model, memo]
  hop,         \* redirect_count
  prepared,    \* PreparedRequest
  asked,       \* the headers sent to /token-auth in this hop, None if it was
               \* not asked
  write_back,  \* auth_writeback
  dialled,     \* the candidate whose turn it is
  wire         \* the request as it was sent last: [service, headers, body, path]

vars == <<pc, data, mode, client, buf, current, routed, hop, prepared, asked, write_back, dialled, wire>>

(* ------------------------------- reading ------------------------------- *)

has_body(method) == method \in {"POST", "PUT", "PATCH"}
materialize_headers(c) == insert(c.headers, ":path", c.path)

(* ----------------------------- model router ---------------------------- *)

\* The model the path and the body give; None passes through.
resolve_model(path, body_model) ==
  LET id == Segment[path] IN
  CASE id # None /\ id # "" /\ id \in DOMAIN Router.alias -> Router.alias[id]
    [] id # None /\ (id = "" \/ id \notin DOMAIN Router.alias) -> body_model
    [] id = None /\ path \in Router.enabled -> body_model
    [] OTHER -> None

\* The one scan of a JSON body; a body it rejects, and any other, is scanned as
\* it is needed.
prepare_scan(in) ==
  IF in.ct = "json" /\ in.body # << >> THEN scan_top_level_profile(in.body, Router.model_key)
  ELSE Malformed
OwnModel(in, profile) ==
  IF profile = Malformed THEN extract_model(in.body, in.ct, Router.model_key) ELSE TextOf(profile.model)

\* The body with the resolved model in place of its own; None keeps it.
SplicedBody(in, profile, own, model) ==
  IF model = None \/ own = None \/ own = model THEN None
  ELSE IF profile = Malformed THEN rewrite_model_field(in.body, in.ct, Router.model_key, model)
  ELSE splice_json_string_at(in.body, profile.model, model)

\* The splice moved the closing brace (mutant: the memo keeps the old place).
am2_memo_Stale(profile, delta) == IF profile = Malformed THEN None ELSE profile.stream
am2_memo(profile, delta) ==
  IF profile = Malformed THEN None ELSE [profile.stream EXCEPT !.closing_brace = @ + delta]

\* The body after the router, the model value it carries and the memo.
Routed(in, profile, own, model, spliced) ==
  [body |-> IF spliced = None THEN in.body ELSE spliced,
   model |-> model,
   body_model |-> IF spliced = None THEN own ELSE model,
   memo |-> am2_memo(profile, IF spliced = None THEN 0 ELSE Len(spliced) - Len(in.body))]
RoutedTo(in, profile, own, model) == Routed(in, profile, own, model, SplicedBody(in, profile, own, model))
RoutedFrom(in, profile, own) == RoutedTo(in, profile, own, resolve_model(in.path, own))
RoutedBy(in, profile) == RoutedFrom(in, profile, OwnModel(in, profile))
route_body(in) == RoutedBy(in, prepare_scan(in))

(* ------------------------------- prepare ------------------------------- *)

LlmModel == "x-higress-llm-model"

\* The headers after the strip, the model overwrite and the inbound rules.
route_headers(in, model) ==
  LET stripped == remove(remove(in.headers, "x-gpustack-auth-token"), "x-gpustack-model-instance")
      named == IF model = None THEN stripped
               ELSE insert(insert(stripped, Router.target_header, model), LlmModel, model)
  IN Transform(named, inbound_rules)

match_route(headers, path) ==
  IF hop = 0 THEN find_match(data.routes, get(headers, LlmModel, None), path)
  ELSE find_match_fallback(data.routes, get(headers, "x-higress-fallback-from", None), path)

\* rewrite-target with the groups of the matched predicate, a function of both.
upstream_path(r, predicate, path) ==
  IF r.rewrite = None THEN path
  ELSE r.rewrite[<<IF predicate = None THEN None ELSE r.preds[predicate].regex, path>>]

\* The candidates in the order of one round of weighted round robin, which may
\* be any order.
Orders(r) == {o \in [DOMAIN r.dests -> DOMAIN r.dests] : \A i, j \in DOMAIN o : o[i] = o[j] => i = j}
Candidate(d) == [service |-> d.service, target |-> resolve_index(precompute_registries(data), d)]

PreparedOf(in, b, h, m, r, order) ==
  [route |-> r, by |-> m.by, headers |-> h,
   path |-> upstream_path(r, m.predicate, in.path),
   body |-> b.body, body_model |-> b.body_model, memo |-> b.memo,
   candidates |-> [i \in DOMAIN order |-> Candidate(r.dests[order[i]])]]

is_model_route(p) == p.route.kind \in {"Main", "Fallback"}

(* ---------------------------- routing policy --------------------------- *)

pick_override(a, candidates) ==
  LET hits == SelectSeq(candidates, LAMBDA c : c.service = a.override)
  IN IF a.override = None \/ hits = << >> THEN candidates ELSE <<Head(hits)>>
pin_matches(a, candidates) ==
  LET pinned == SelectSeq(candidates, LAMBDA c : service_name(c.service) \in a.pin)
  IN IF a.pin = None THEN candidates ELSE IF pinned = << >> THEN candidates ELSE pinned

\* A target that is not among the candidates, and a pattern that leaves none of
\* them, change nothing.
apply(p, a) ==
  [p EXCEPT !.candidates = pin_matches(a, pick_override(a, @)),
            !.headers = FoldLeft(remove, FoldLeft(LAMBDA h, x : insert(h, x[1], x[2]), @, a.add), a.del)]

(* ----------------------------- forward-auth ---------------------------- *)

ALLOWLIST == {"authorization", "x-real-ip", "x-forwarded-for", LlmModel, "x-api-key", "cookie",
              "x-gpustack-auth-cache"}
\* Of each allowed header the first value; the gateway's token is injected.
AuthRequest(headers) ==
  [x \in (ALLOWLIST \cap DOMAIN headers) \cup {"x-gpustack-auth-token"} |->
     IF x = "x-gpustack-auth-token" THEN AuthToken ELSE Head(headers[x])]

\* The credentials the verdict sets; a literal cookie goes before set-cookie.
WriteBack(verdict) ==
  LET cookie == get(verdict.headers, "cookie", get(verdict.headers, "set-cookie", << >>))
      given(x) == IF x = "cookie" THEN cookie ELSE get(verdict.headers, x, << >>)
  IN [x \in {y \in {"x-mse-consumer", "authorization", "cookie", "x-gpustack-auth-cache"} : given(y) # << >>}
        |-> <<given(x)>>]

(* ---------------------------- build_outbound --------------------------- *)

\* The candidate's own model name goes into the body; None keeps prepare's.
MappedBody(p, mapped) ==
  IF p.body = << >> \/ mapped = None \/ p.body_model = None \/ p.body_model = mapped THEN None
  ELSE rewrite_model_field(p.body, current.ct, <<"model">>, mapped)
map_body(p, service) == MappedBody(p, lookup(p.route.mapping, service))

\* The memo of prepare holds for prepare's own bytes only.
InjectedBody(p, mapped) ==
  IF mapped # None
  THEN ensure_stream_include_usage(mapped, current.ct, p.path \in Completions, is_model_route(p))
  ELSE IF p.memo # None
  THEN ensure_stream_include_usage_from_memo(p.body, p.path \in Completions, is_model_route(p), p.memo)
  ELSE ensure_stream_include_usage(p.body, current.ct, p.path \in Completions, is_model_route(p))
FinalBody(p, mapped, injected) ==
  IF injected # None THEN injected ELSE IF mapped # None THEN mapped ELSE p.body
BodyFrom(p, mapped) == FinalBody(p, mapped, InjectedBody(p, mapped))
outbound_body(p, service) == BodyFrom(p, map_body(p, service))

HOP_BY_HOP == <<"connection", "keep-alive", "proxy-authenticate", "proxy-authorization", "te",
                "trailer", "transfer-encoding", "upgrade", "host", "content-length">>

\* The instance and the route name (mutant: the instance selected first).
set_pre_route_headers_First(o, p, service) ==
  IF ~is_model_route(p) THEN o
  ELSE OInsert(OInsert(o, "x-gpustack-model-instance", service_name(Head(p.candidates).service)),
               "x-gpustack-route-name", p.route.ingress)
set_pre_route_headers(o, p, service) ==
  IF ~is_model_route(p) THEN o
  ELSE OInsert(OInsert(o, "x-gpustack-model-instance", service), "x-gpustack-route-name", p.route.ingress)
Bearer(token) == <<"Bearer", token>>

\* The deltas of one candidate, recorded in the overlay in this order.
credited(p) ==
  FoldSet(LAMBDA x, o : OInsert(o, x, Head(write_back[x])), Overlay(p.headers), DOMAIN write_back)
stripped(o) == FoldLeft(LAMBDA h, x : IF OContains(h, x) THEN ORemove(h, x) ELSE h, o, HOP_BY_HOP)
swapped(o, service, token) ==
  IF service \in Providers /\ token # None THEN OInsert(o, "authorization", Bearer(token)) ELSE o
outbound_headers(p, service) ==
  swapped(stripped(OTransform(set_pre_route_headers(credited(p), p, service), outbound_rules)),
          service, provider_bearer(data.tokens, service, p.route.ingress))

(* -------------------------------- the dial ----------------------------- *)

With(h, n, v) == IF v = None THEN h ELSE append(h, n, v)

direct_headers(o, host, ct) ==
  With(append(remove(remove(into_pairs(o), ":path"), "content-type"), "host", host), "content-type", ct)

\* build_upstream_request re-asserts a bearer credential and leaves others.
Reasserted(h, own) == IF own # << >> /\ Head(own) = "Bearer" THEN insert(h, "authorization", own) ELSE h
build_upstream_request(h, host) ==
  insert(Reasserted(remove(remove(h, ":path"), "host"), get(h, "authorization", << >>)), "host", host)
provider_headers(o, host, ct) ==
  With(remove(build_upstream_request(materialize(o), host), "content-type"), "content-type", ct)

\* What goes on the wire for a candidate.
DialHeaders(o, service, host, ct) ==
  IF service \in Providers THEN provider_headers(o, host, ct) ELSE direct_headers(o, host, ct)
Sent(p, c, service) ==
  [service |-> service, path |-> p.path, body |-> outbound_body(p, service),
   headers |-> DialHeaders(outbound_headers(p, service), service, <<c.target.address[1]>>,
                           get(current.headers, "content-type", None))]
send_outbound(p, c) == Sent(p, c, service_name(c.service))

(* ------------------------------- behaviour ----------------------------- *)

Init ==
  /\ pc = "read" /\ client \in Requests /\ data \in Snapshots
  /\ mode \in {"off", "open", "closed"}
  /\ buf = << >> /\ hop = 0 /\ dialled = 1
  /\ current = None /\ routed = None /\ prepared = None /\ asked = None /\ write_back = NoHeaders /\ wire = None

Chunk == SubSeq(client.body, Len(buf) + 1, Min({Len(client.body), Len(buf) + ChunkSize}))
Answer(status) ==
  pc' = status /\ UNCHANGED <<data, mode, client, buf, current, routed, hop, prepared, asked, write_back, dialled, wire>>
Proceed(step) == pc' = step /\ UNCHANGED <<data, mode, client>>

ReadChunk ==
  /\ pc = "read" /\ has_body(client.method) /\ Chunk # << >>
  /\ Len(buf) + Len(Chunk) <= Router.max_body_bytes
  /\ buf' = buf \o Chunk
  /\ Proceed("read") /\ UNCHANGED <<current, routed, hop, prepared, asked, write_back, dialled, wire>>
ReadTooLarge ==
  /\ pc = "read" /\ has_body(client.method) /\ Len(buf) + Len(Chunk) > Router.max_body_bytes
  /\ Answer("413")
ReadAborted ==
  /\ pc = "read" /\ has_body(client.method)
  /\ Answer("400")
\* Without a body-bearing method the body is not read.
ReadEnd ==
  /\ pc = "read"
  /\ has_body(client.method) => Chunk = << >>
  /\ current' = [path |-> client.path, headers |-> materialize_headers(client), body |-> buf, ct |-> client.ct]
  /\ Proceed("prepare") /\ UNCHANGED <<buf, routed, hop, prepared, asked, write_back, dialled, wire>>

\* The body and the model, then the headers and the route, then the candidates:
\* one that does not resolve fails the request.
RouteModel ==
  /\ pc = "prepare"
  /\ routed' = route_body(current)
  /\ Proceed("match") /\ UNCHANGED <<buf, current, hop, prepared, asked, write_back, dialled, wire>>
Headers1 == route_headers(current, routed.model)
Unresolvable(r) == \E i \in DOMAIN r.dests : Candidate(r.dests[i]).target = None
Prepare ==
  /\ pc = "match"
  /\ \E h \in {Headers1} : \E m \in {match_route(h, current.path)} :
       /\ m # None
       /\ ~Unresolvable(data.routes[m.index])
       /\ \E order \in Orders(data.routes[m.index]) :
            prepared' = PreparedOf(current, routed, h, m, data.routes[m.index], order)
  /\ asked' = None /\ write_back' = NoHeaders /\ dialled' = 1
  /\ Proceed("policy") /\ UNCHANGED <<buf, current, routed, hop, wire>>
NoRoute == pc = "match" /\ match_route(Headers1, current.path) = None /\ Answer("404")
Unavailable ==
  /\ pc = "match"
  /\ \E m \in {match_route(Headers1, current.path)} : m # None /\ Unresolvable(data.routes[m.index])
  /\ Answer("503")

\* Only a Main route matched by its header is decorated, and only at first.
ApplyPolicy ==
  /\ pc = "policy"
  /\ IF hop = 0 /\ prepared.by = "Main"
     THEN \E a \in Actions : prepared' = apply(prepared, a) ELSE prepared' = prepared
  /\ Proceed("auth") /\ UNCHANGED <<buf, current, routed, hop, asked, write_back, dialled, wire>>

Scoped == pc = "auth" /\ mode # "off" /\ requires_auth(prepared.route)
Ask == asked' = AuthRequest(prepared.headers)

AuthSkipped ==
  /\ pc = "auth" /\ ~Scoped
  /\ Proceed("dial") /\ UNCHANGED <<buf, current, routed, hop, prepared, asked, write_back, dialled, wire>>
AuthAllowed ==
  /\ Scoped /\ Ask
  /\ \E v \in {x \in Verdicts : x.status = 200} : write_back' = WriteBack(v)
  /\ Proceed("dial") /\ UNCHANGED <<buf, current, routed, hop, prepared, dialled, wire>>
AuthDenied ==
  /\ Scoped /\ Ask /\ \E v \in Verdicts : v.status \in 300..499
  /\ Proceed("401") /\ UNCHANGED <<buf, current, routed, hop, prepared, write_back, dialled, wire>>
\* No answer, or a 5xx.
AuthUnavailable ==
  /\ Scoped /\ Ask
  /\ Proceed(IF mode = "closed" THEN "403" ELSE "dial")
  /\ UNCHANGED <<buf, current, routed, hop, prepared, write_back, dialled, wire>>

Dial ==
  /\ pc = "dial"
  /\ wire' = send_outbound(prepared, prepared.candidates[dialled])
  /\ Proceed("sent") /\ UNCHANGED <<buf, current, routed, hop, prepared, asked, write_back, dialled>>

NextCandidate ==
  /\ pc = "sent" /\ dialled < Len(prepared.candidates)
  /\ dialled' = dialled + 1
  /\ Proceed("dial") /\ UNCHANGED <<buf, current, routed, hop, prepared, asked, write_back, wire>>

\* fallback::plan and arm: the markers go into the client's own headers.
Redirect ==
  /\ pc = "sent" /\ prepared.route.target # None /\ hop < MaxHops
  /\ LET original == get(prepared.headers, "x-gpustack-original-path", current.path)
     IN current' = [current EXCEPT !.headers =
          insert(insert(@, "x-higress-fallback-from", prepared.route.target),
                 "x-gpustack-fallback-path", original)]
  /\ hop' = hop + 1
  /\ Proceed("prepare") /\ UNCHANGED <<buf, routed, prepared, asked, write_back, dialled, wire>>
Finish == pc = "sent" /\ Answer("done")
Done == pc \in {"done", "400", "401", "403", "404", "413", "503"} /\ UNCHANGED vars

Next ==
  \/ ReadChunk \/ ReadTooLarge \/ ReadAborted \/ ReadEnd
  \/ RouteModel \/ Prepare \/ NoRoute \/ Unavailable \/ ApplyPolicy
  \/ AuthSkipped \/ AuthAllowed \/ AuthDenied \/ AuthUnavailable
  \/ Dial \/ NextCandidate \/ Redirect \/ Finish \/ Done

Spec == Init /\ [][Next]_vars

(* ------------------------------ properties ----------------------------- *)

\* What the client's body says, independent of any scanner: the members of a JSON
\* object [key, text, raw] (text is the decoded value of a string, else None) or
\* the parts of a form [key, filename, text]; any other body says nothing. The
\* commas between the members do not matter, and a part counts as the model's
\* when one of its parameters carries name="model", its filename included: the
\* test bytes.rs:284-305 pins that.
IsModel(doc, m) ==
  \/ m.key = <<"model">>
  \/ /\ doc.kind = "form"
     /\ \/ m.filename = <<"model">>
        \/ \E x \in DOMAIN m.filename : IsPrefix(FieldName, SubSeq(m.filename, x, Len(m.filename)))
ModelMembers(doc) == {i \in DOMAIN doc.members : IsModel(doc, doc.members[i])}
ModelMember(doc) == IF doc.kind = "json" THEN Max(ModelMembers(doc)) ELSE Min(ModelMembers(doc))
Says(doc) == IF ModelMembers(doc) = {} THEN None ELSE doc.members[ModelMember(doc)].text

\* The body of a document in which the model reads value.
WithModel(doc, value) ==
  [doc EXCEPT !.members[ModelMember(doc)].text = value,
              !.members[ModelMember(doc)].raw = encode_json_string(value)]

\* lead stands before the first member of a JSON object and sep between two: nothing
\* and one comma when it is well-formed.
Render(doc) ==
  LET member(m) == doc.gap \o encode_json_string(m.key) \o <<":">> \o doc.gap \o m.raw
      header(m) == <<"name=", Quote>> \o m.key \o <<Quote>>
                   \o IF m.filename = << >> THEN << >>
                      ELSE <<"file", "name=", Quote>> \o m.filename \o <<Quote>>
      part(m) == <<MarkToken, Crlf>> \o header(m) \o <<Crlf, Crlf>> \o m.text \o <<Crlf>>
      all == [i \in DOMAIN doc.members |->
                IF doc.kind = "form" THEN part(doc.members[i])
                ELSE (IF i = 1 THEN doc.lead ELSE doc.sep) \o member(doc.members[i])]
  IN CASE doc.kind = "json" -> <<"{">> \o FlattenSeq(all) \o doc.gap \o <<"}">>
       [] doc.kind = "form" -> FlattenSeq(all) \o <<MarkToken, "--">>
       [] OTHER -> doc.raw

Member(key, text, raw) == [key |-> key, text |-> text, raw |-> raw]
StreamOptions == Member(<<"stream_options">>, None, <<"{", Quote, "include_usage", Quote, ":", "true", "}">>)

\* The model a request asks for by its path's alias or its body.
Asks ==
  LET id == Segment[client.path]
      own == IF has_body(client.method) THEN Says(client.doc) ELSE None
  IN IF id # None /\ id # "" /\ id \in DOMAIN Router.alias THEN Router.alias[id]
     ELSE IF id # None \/ client.path \in Router.enabled THEN own ELSE None

\* The upstream gets the client's document with the model it is to serve in place
\* of the one the client named, and with stream_options appended exactly when a
\* completions stream of a model route does not say what it wants; every other
\* byte is the client's. However the scan, the splice of prepare, the memo and
\* the mapper's own splice combine, on any candidate of any hop.
BodyRewrittenExactly ==
  pc = "sent" =>
    LET doc == client.doc
        own == Says(doc)
        mapped == lookup(prepared.route.mapping, wire.service)
        model == IF own = None THEN None
                 ELSE IF mapped # None THEN mapped ELSE IF Asks # None THEN Asks ELSE own
        stream == SelectSeq(doc.members, LAMBDA m : m.key = <<"stream">>)
        named == IF model = None \/ model = own THEN doc ELSE WithModel(doc, model)
        metered == /\ doc.kind = "json" /\ prepared.route.kind # "Mirror" /\ wire.path \in Completions
                   /\ stream # << >> /\ Last(stream).raw = <<"true">>
                   /\ \A i \in DOMAIN doc.members : doc.members[i].key # <<"stream_options">>
        \* the member goes right before the closing brace
        full == Render(named)
        tail == <<",">> \o encode_json_string(StreamOptions.key) \o <<":">> \o StreamOptions.raw \o <<"}">>
    IN wire.body = IF ~has_body(client.method) THEN << >>
                   ELSE IF metered THEN Front(full) \o tail ELSE full

\* The overlay is a HeaderMap (transform.rs: reads and the materialized result
\* are "byte-identical" to the eager clone): the same operations on a plain copy
\* of the base give the headers on the wire.
OverlayIsTransparent ==
  pc = "sent" =>
    LET p == prepared
        service == wire.service
        set == [x \in DOMAIN p.headers \cup DOMAIN write_back |->
                  IF x \in DOMAIN write_back THEN write_back[x] ELSE p.headers[x]]
        named == IF p.route.kind = "Mirror" THEN set
                 ELSE insert(insert(set, "x-gpustack-model-instance", service),
                             "x-gpustack-route-name", p.route.ingress)
        bare == FoldLeft(remove, Transform(named, outbound_rules), HOP_BY_HOP)
        token == provider_bearer(data.tokens, service, p.route.ingress)
        plain == IF service \in Providers /\ token # None
                 THEN insert(bare, "authorization", Bearer(token)) ELSE bare
        own == {"host", "content-type", ":path"}
    IN \A x \in (DOMAIN plain \cup DOMAIN wire.headers) \ own :
         get_all(wire.headers, x) = get_all(plain, x)

\* The client's own credential reaches an upstream only when neither the verdict
\* nor a provider key replaced it; the token of the gateway is never forwarded;
\* and the instance header names the upstream that was dialled, after a failover
\* too, on model routes only, whatever the client put into it.
CredentialsAreTheGateways ==
  pc = "sent" =>
    LET sent(x) == get_all(wire.headers, x)
        token == provider_bearer(data.tokens, wire.service, prepared.route.ingress)
    IN /\ ~contains(wire.headers, "x-gpustack-auth-token")
       /\ wire.service \in Providers /\ token # None => sent("authorization") = <<Bearer(token)>>
       /\ (wire.service \notin Providers \/ token = None) /\ contains(write_back, "authorization")
            => sent("authorization") = write_back["authorization"]
       /\ sent("x-gpustack-model-instance") =
            IF prepared.route.kind = "Mirror" THEN << >> ELSE <<wire.service>>
       /\ Len(sent("host")) = 1

\* The model a request asks for is the one it is routed by and the one /token-auth
\* is asked about, on the fallback too: no header of the client, neither the
\* routed one nor its legacy name, turns a request for one model into another's.
RoutedModelIsAuthorized ==
  pc \in {"dial", "sent"} =>
    LET main == IF prepared.by = "Main" THEN prepared.route.key
                ELSE IF prepared.by = "Fallback"
                THEN data.routes[Min(Where(data.routes, LAMBDA r : r.kind = "Main" /\ r.target = prepared.route.key))].key
                ELSE None
    IN main # None =>
         /\ Asks # None => main = Asks
         /\ asked # None => asked[LlmModel] = main
=============================================================================
