----------------------------- MODULE MCSnapshot -----------------------------
(* A small cluster: two managed routes with a fallback each, the mirror,     *)
(* a bridge, the plugins, and objects that are broken in one way or another. *)
EXTENDS Snapshot, TLC

CONSTANTS ChatRe, AnyRe, BrokenRe

MCRegexes ==
  ChatRe :> [valid |-> TRUE, anchor |-> 8, paths |-> {"/v1/chat"}, folded |-> {"/v1/chat", "/V1/CHAT"}]
  @@ AnyRe :> [valid |-> TRUE, anchor |-> 1, paths |-> {"/v1/chat", "/V1/CHAT", "/v1/x"},
               folded |-> {"/v1/chat", "/V1/CHAT", "/v1/x"}]
  @@ BrokenRe :> [valid |-> FALSE, anchor |-> 0, paths |-> {}, folded |-> {}]
MCPaths == {"/v1/chat", "/V1/CHAT", "/v1/x"}
MCMirror == Whole("gpustack")

Svc(name, type) == [name |-> name, type |-> type, port |-> None]
D(percent, service) == [percent |-> percent, service |-> service]
Inst == Svc("model-1-1", "static")
Prov == Svc("provider-1", "proxy")
Good == <<D(40, Inst), D(60, Prov)>>
Short == <<D(40, Inst), D(50, Prov)>>      \* accepted by the translation only

Main(id) == <<"ai-route-route-", id, ".internal">>
Fall(id) == <<"ai-route-route-", id, ".fallback.internal">>
Model(m) == Whole(m)

Ingress(name, model, from, dests, paths, icase) ==
  [kind |-> "Ingress", name |-> name, model |-> model, from |-> from, dests |-> dests,
   paths |-> paths, ignore_case |-> icase]
Plugin0(name, providers, rules, config) ==
  [kind |-> "WasmPlugin", name |-> Whole(name), providers |-> providers, rules |-> rules, config |-> config]
Domain(scheme, host, port) == [scheme |-> scheme, host |-> host, port |-> port, path |-> None]
Reg(name, type, domain, port, proxy) ==
  [name |-> name, type |-> type, domain |-> domain, port |-> port, proxy |-> proxy]

MCObjects ==
  { Ingress(Main("1"), Model("a"), None, Good, <<ChatRe, AnyRe, ChatRe>>, FALSE),
    Ingress(Main("2"), Main("1"), None, Good, <<ChatRe, "">>, TRUE),
    Ingress(Main("3"), Model("a"), None, <<D(None, Inst)>>, <<AnyRe>>, FALSE),
    Ingress(Fall("1"), None, Main("1"), Good, <<ChatRe>>, FALSE),
    Ingress(<<"x", "1", ".fallback.internal">>, None, Main("1"), Short, <<ChatRe>>, FALSE),
    Ingress(Fall("2"), None, Main("2"), <<BadLine>>, <<ChatRe>>, FALSE),
    Ingress(<<"ai-route-model-", "1", "">>, Model("a"), None, Good, <<ChatRe>>, FALSE),
    Ingress(<<"ai-route-route-", "4", ".internal">>, Model("b"), None, Good, <<BrokenRe>>, FALSE),
    Ingress(MCMirror, None, None, <<D(None, Svc("gpustack", "dns"))>>, << >>, FALSE),
    [kind |-> "McpBridge", name |-> Whole("default"),
     registries |-> <<Reg("model-1-1", "static", Domain(None, "h1", 8080), 80, None),
                      Reg("provider-1", "proxy", Domain("https", "p", None), 443, "out"),
                      Reg("model-1-1", "static", Domain(None, "h2", None), None, None),
                      Reg("gpustack", "dns", Domain("https", "", None), 65616, None),
                      Reg("lost", "proxy", Domain(None, "p", None), None, "nowhere")>>,
     proxies |-> <<[name |-> "out", server |-> "px", port |-> None]>>],
    [kind |-> "McpBridge", name |-> Whole("other"),
     registries |-> <<Reg("model-1-1", "nacos", Domain(None, "h", None), None, None)>>,
     proxies |-> << >>],
    Plugin0("gpustack-ai-proxy",
            <<[id |-> "p", tokens |-> <<"k1", "k2">>], [id |-> "q", tokens |-> <<"k3">>],
              [id |-> "e", tokens |-> << >>]>>,
            <<[active |-> "e", services |-> <<service_name(Prov)>>, ingress |-> << >>],
              [active |-> "p", services |-> <<service_name(Prov), <<"", "">> >>, ingress |-> << >>],
              [active |-> "q", services |-> <<service_name(Prov)>>, ingress |-> <<Main("1")>>]>>, None),
    Plugin0("gpustack-model-mapper", << >>,
            <<[ingress |-> {Main("2")}, services |-> <<service_name(Inst)>>, model |-> "x"],
              [ingress |-> {Main("1")}, services |-> << >>, model |-> "y"],
              [ingress |-> {Main("1"), Main("2")}, services |-> <<service_name(Inst), service_name(Prov)>>,
               model |-> "z"]>>, None),
    Plugin0("gpustack-model-router", << >>, << >>, Malformed),
    [kind |-> "EnvoyFilter", name |-> Main("1"),
     patches |-> <<<<Malformed, [max |-> 3, body |-> TRUE, uri |-> FALSE]>>, << >>,
                   <<[max |-> 5, body |-> TRUE, uri |-> TRUE]>>>>],
    [kind |-> "Secret", name |-> <<"gpustack-tls-", "default", "">>, crt |-> "c", key |-> "k"],
    [kind |-> "ConfigMap", name |-> Whole("higress-config"),
     data |-> [higress |-> ("upstream_idle" :> 3), flat |-> ("upstream_idle" :> 9)]] }

\* Handed over: links of every shape (to itself, to each other, to nowhere),
\* sound and faulty targets, mirrors, an empty key.
R(kind, key, target, auth, dests) ==
  [kind |-> kind, key |-> key, ingress |-> Main("9"), target |-> target, link |-> None,
   auth |-> auth, dests |-> dests, preds |-> << >>, mapping |-> << >>]
k(x) == Model(x)
Over == <<D(150, Inst)>>
MCRules ==
  {R("Main", k("a"), t, "scoped", Good) : t \in {None, k("a"), k("b"), k("c")}}
  \cup {R("Fallback", k(x), t, "scoped", Good) : x \in {"a", "b"}, t \in {None, k("a"), k("b"), k("c")}}
  \cup {R("Fallback", k("a"), None, "rootless", Good), R("Fallback", k("b"), None, "scoped", Over),
        R("Fallback", k("c"), None, "scoped", Short)}
  \cup {R("Mirror", k(x), None, "off", Good) : x \in {"a", "b"}}
  \cup {R("Mirror", k("b"), k("c"), "off", Good)}   \* its link is dropped by the cascade
  \cup {R("Mirror", k("a"), None, "scoped", Good), R("Main", EmptyKey, None, "off", << >>)}
=============================================================================
