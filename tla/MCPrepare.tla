----------------------------- MODULE MCPrepare ------------------------------
(* Two models, one of them with a fallback, instances and providers, and a    *)
(* mirror; bodies of every shape the scanners tell apart.                     *)
EXTENDS Prepare, TLC

CONSTANTS ChatRe

A == <<"a">>
B == <<"b", Quote>>
Chat == <<"/v1/chat/completions">>
Alias == <<"/model/proxy/x/completions">>
Miss == <<"/model/proxy/y/embed">>
Plain == <<"/v1/models">>
MCPaths == {Chat, Alias, Miss, Plain}
MCSegment == Chat :> None @@ Alias :> "x" @@ Miss :> "y" @@ Plain :> None
MCCompletions == {Chat, Alias}
MCRegexes == ChatRe :> [valid |-> TRUE, anchor |-> 3, paths |-> MCPaths, folded |-> MCPaths]
MCRouter == [alias |-> ("x" :> B), enabled |-> {Chat}, model_key |-> <<"model">>,
             target_header |-> "x-higress-llm-model", max_body_bytes |-> 60]

(* ------------------------------- snapshots ----------------------------- *)

Svc(name, type) == [name |-> name, type |-> type, port |-> None]
D(name, type) == [percent |-> 50, service |-> Svc(name, type)]
Inst == <<"model-1-1", "static">>
Prov == <<"provider-1", "dns">>
Keyless == <<"provider-2", "dns">>
MCProviders == {Prov, Keyless}
Ing(id) == <<"ai-route-route-", id, ".internal">>
Same == [x \in {None, ChatRe} \X MCPaths |-> x[2]]
ToChat == [x \in {None, ChatRe} \X MCPaths |-> Chat]
R(kind, key, ing, target, dests, mapping, rewrite) ==
  [kind |-> kind, key |-> key, ingress |-> ing, target |-> target, link |-> None,
   auth |-> IF kind = "Mirror" THEN "off" ELSE "scoped", dests |-> dests,
   preds |-> <<[regex |-> ChatRe, ignore_case |-> FALSE]>>, mapping |-> mapping, rewrite |-> rewrite]
Reg(name, type) ==
  [id |-> <<name, type>>, domain |-> [scheme |-> "https", host |-> name, port |-> None, path |-> None],
   port |-> 443, proxy |-> None]
Routes ==
  << R("Main", A, Ing("1"), Ing("1"), <<D("model-1-1", "static"), D("provider-1", "dns")>>,
       << <<Prov, <<"gpt", "4">>>> >>, None),
     R("Main", B, Ing("2"), None, <<D("model-1-1", "static"), D("provider-2", "dns")>>,
       << <<Inst, A>>, <<Keyless, B>> >>, ToChat),
     R("Fallback", Ing("1"), <<"ai-route-route-", "1", ".fallback.internal">>, None,
       <<D("provider-1", "dns")>>, << <<Prov, A>> >>, Same),
     R("Mirror", <<"gpustack">>, <<"gpustack", "", "">>, None, <<D("gpustack", "dns")>>, << >>, None) >>
Tokens == <<[service |-> Prov, scope |-> None, tokens |-> <<"key">>]>>
Snapshot(rs, regs) ==
  [routes |-> rs, registries |-> regs, proxies |-> << >>, tokens |-> Tokens]
MCSnapshots ==
  { Snapshot(Routes, <<Reg("model-1-1", "static"), Reg("provider-1", "dns"), Reg("provider-2", "dns"),
                       Reg("gpustack", "dns")>>),
    Snapshot(SubSeq(Routes, 1, 3), <<Reg("model-1-1", "static"), Reg("provider-1", "dns")>>) }

(* -------------------------------- bodies ------------------------------- *)

Str(key, text) == Member(<<key>>, text, encode_json_string(text))
Raw(key, raw) == Member(<<key>>, None, raw)
Doc(kind, members, gap, lead, sep, raw) ==
  [kind |-> kind, members |-> members, gap |-> gap, lead |-> lead, sep |-> sep, raw |-> raw]
Json(members, gap) == Doc("json", members, gap, << >>, <<",">>, << >>)
Loose(members, gap, lead, sep) == Doc("json", members, gap, lead, sep, << >>)
Form(members) == Doc("form", members, << >>, << >>, << >>, << >>)
Part(key, filename, text) == [key |-> <<key>>, filename |-> filename, text |-> text, raw |-> << >>]
Other(raw) == Doc("raw", << >>, << >>, << >>, << >>, raw)
True == Raw("stream", <<"true">>)
Nested == Raw("messages", <<"[", "{", Quote, "model", Quote, ":", Quote, "b", Quote, ",", Quote, "stream",
                            Quote, ":", "true", "}", ",", "[", "]", "]">>)
Opened == <<"{">> \o encode_json_string(<<"model">>) \o <<":">> \o encode_json_string(A)
JsonDocs ==
  { Json(<<Str("model", A), True>>, << >>),
    Json(<<Str("model", B), Raw("stream", <<"false">>), Str("model", A), True>>, <<"ws">>),
    Json(<<Str("model", A), True, Raw("stream_options", <<"null">>)>>, << >>),
    Json(<<Nested, Str("model", A), Str("stream", <<"true">>)>>, << >>),
    Json(<<True, Str("model", B), Nested>>, <<"ws">>),
    Json(<<Str("model", A), Raw("model", <<"num">>), True>>, << >>),
    Json(<<True, Raw("stream", <<"false">>), Str("model", B)>>, << >>),
    Json(<< >>, << >>),
    Loose(<<Str("model", B), True, Str("model", A)>>, << >>, <<",">>, <<",", ",">>),
    Loose(<<Str("model", A), Nested, True>>, <<"ws">>, << >>, << >>),
    Other(<<"{", ",">> \o encode_json_string(<<"x">>) \o <<":", "[", "num", ",", ",", "num", "]", "}">>),
    Other(Opened \o <<",", Quote, "stream", Quote, ":", "true">>),
    Other(Opened \o <<",", "}">>),
    Other(Opened \o <<"}", "}">>),
    Other(<<"{", Quote, "bad", Quote, ":", "true", "}">>),
    Other(Opened \o <<",", Quote, "x", Quote, ":", "[", "[", "[", "[", "]", "]", "]", "]", "}">>),
    Other(<<"[", "]">>),
    Other(<< >>) }
FormDocs ==
  { Form(<<Part("file", << >>, A), Part("model", << >>, B), Part("model", << >>, A)>>),
    Form(<<Part("model", << >>, A)>>),
    Form(<<Part("file", <<"a">>, A)>>),
    Form(<<Part("file", <<"model">>, B), Part("model", << >>, A)>>),
    Form(<<Part("file", FieldName \o <<".txt">>, A), Part("model", << >>, B)>>),
    Form(<<Part("file", <<"name=", Escape, Quote, "model", Escape, Quote>>, B), Part("model", <<"a">>, A)>>) }

(* ------------------------------- requests ------------------------------ *)

Plainly == "authorization" :> << <<"Bearer", "client">> >>
Spoofed == Plainly @@ "x-higress-llm-model" :> <<B>> @@ "x-gpustack-model" :> <<B, A>>
             @@ "x-gpustack-model-instance" :> << <<"forged">> >>
             @@ "x-gpustack-auth-token" :> << <<"forged">> >>
             @@ "x-higress-fallback-from" :> <<Ing("1")>>
             @@ "x-gpustack-fallback-path" :> <<Plain>>
Busy == "authorization" :> << <<"Basic", "u">>, <<"Bearer", "client">> >>
          @@ "connection" :> << <<"close">> >> @@ "te" :> << <<"t">> >> @@ "host" :> << <<"gw">> >>
          @@ "x-gpustack-model" :> <<A>> @@ "x-drop" :> << <<"1">>, <<"2">> >>
Request(method, path, headers, doc, ct) ==
  [method |-> method, path |-> path, body |-> Render(doc), ct |-> ct, doc |-> doc,
   headers |-> IF ct = None THEN headers ELSE headers @@ "content-type" :> << <<ct>> >>]
MCRequests ==
  {Request("POST", p, h, d, "json") : p \in MCPaths, h \in {Plainly, Spoofed, Busy}, d \in JsonDocs}
  \cup {Request("POST", p, h, d, "form") : p \in MCPaths, h \in {Plainly, Spoofed}, d \in FormDocs}
  \cup {Request("POST", p, Spoofed, Other(Opened \o <<"}">>), "text") : p \in MCPaths}
  \cup {Request("GET", p, h, Other(<< >>), None) : p \in MCPaths, h \in {Plainly, Spoofed, Busy}}
  \cup {Request("PUT", Chat, Plainly, Json(<<Nested, Nested, Nested, True>>, <<"ws">>), "json")}

MCActions ==
  { [override |-> None, pin |-> None, add |-> << >>, del |-> << >>],
    [override |-> Svc("provider-1", "dns"), pin |-> {Inst}, add |-> << <<"x-team", <<"t">>>> >>, del |-> <<"x-drop">>],
    [override |-> Svc("gone", "dns"), pin |-> {Inst, <<"x", "y">>}, add |-> << >>, del |-> << >>] }
MCVerdicts ==
  { [status |-> 200, headers |-> "x-mse-consumer" :> << <<"ak", "7">> >>
                                   @@ "authorization" :> << <<"Bearer", "registration">> >>
                                   @@ "set-cookie" :> << <<"s">> >> @@ "cookie" :> << <<"dummy">> >>],
    [status |-> 200, headers |-> "x-mse-consumer" :> << <<"none">> >> @@ "authorization" :> << << >> >>],
    [status |-> 401, headers |-> NoHeaders] }
=============================================================================
