----------------------------- MODULE Translate ------------------------------
(***************************************************************************)
(* The translation of the managed Kubernetes objects into a ConfigData     *)
(* (hygress-adapter/src/translate.rs).  The clients list one namespace, so *)
(* the ingress name of a route is the name of the object: <<prefix, id,    *)
(* suffix>>.  Objects are records; an annotation or field that is missing  *)
(* is None.  References to an ingress by a rule are compared by the bare   *)
(* name and are given as that name.                                        *)
(*   Ingress     [kind, name, model, from, dests, paths, ignore_case]      *)
(*   McpBridge   [kind, name, registries, proxies]                         *)
(*   WasmPlugin  [kind, name, providers, rules, config]                    *)
(*   EnvoyFilter [kind, name, patches]                                     *)
(*   Secret      [kind, name, crt, key]                                    *)
(*   ConfigMap   [kind, name, data], data [higress, flat]                  *)
(***************************************************************************)
EXTENDS RouteTable

CONSTANT
  mirror_name,   \* the name of the mirror ingress
  BadLine,       \* a destination line that does not parse
  Malformed,     \* a value of the wrong shape
  U16            \* the size of the u16 range a port is cut to

\* A name that is only compared as a whole.
Whole(name) == <<"", name, "">>

Of(objs, kind) == Filter(objs, LAMBDA o : o.kind = kind)

(* -------------------------------- routes ------------------------------- *)

classify_ingress_name(name) ==
  CASE name[3] = ".fallback.internal" -> "Fallback"
    [] name[1] = "ai-route-route-" /\ name[3] = ".internal" -> "Main"
    [] name = mirror_name -> "Mirror"
    [] OTHER -> "ignored"

\* Every path once, in order; all with the flag of the ingress.
ingress_path_predicates(o) ==
  LET named == SelectSeq(o.paths, LAMBDA p : p # "")
      first == {n \in DOMAIN named : \A k \in 1..(n - 1) : named[k] # named[n]}
      paths == Kept(named, first)
  IN [n \in DOMAIN paths |-> [regex |-> paths[n], ignore_case |-> o.ignore_case]]

RouteKey(o, kind) ==
  CASE kind = "Main" -> o.model
    [] kind = "Fallback" -> o.from
    [] kind = "Mirror" -> o.name

\* What makes ingress_to_route fail: key or destinations missing, a line that
\* does not parse, a service that is no reference, an empty key.
Translatable(o) ==
  LET kind == classify_ingress_name(o.name) IN
  /\ kind # "ignored"
  /\ RouteKey(o, kind) \notin {None, EmptyKey}
  /\ o.dests \notin {None, << >>}
  /\ \A n \in DOMAIN o.dests :
       o.dests[n] # BadLine /\ service_ref_ok(o.dests[n].service)

ingress_to_route(o) ==
  LET kind == classify_ingress_name(o.name) IN
  [kind |-> kind, key |-> RouteKey(o, kind), ingress |-> o.name,
   target |-> None, link |-> None,
   auth |-> IF kind = "Mirror" THEN "off" ELSE "scoped",
   dests |-> o.dests, preds |-> ingress_path_predicates(o), mapping |-> << >>]

Map(s, Op(_)) == [n \in DOMAIN s |-> Op(s[n])]
Flatten(s, Op(_)) == FlattenSeq(Map(s, Op))

IngressRoutes(objs) == Map(Filter(Of(objs, "Ingress"), Translatable), ingress_to_route)

(* ----------------------- model mapping, fallbacks ---------------------- *)

\* Only rules with a model and a service count.
wasmplugin_model_mapping(o) ==
  IF o.name # Whole("gpustack-model-mapper") THEN << >>
  ELSE Filter(o.rules, LAMBDA r : r.model \notin {None, ""} /\ r.services # << >>)

\* The rules of the ingress, in order; the first for a service stays. A translated
\* route has no mapping yet.
MappingPairs(r) == Map(r.services, LAMBDA s : <<s, r.model>>)
merge_model_mapping(route, rules) ==
  LET mine == Filter(rules, LAMBDA r : route.ingress \in r.ingress)
      pairs == Flatten(mine, MappingPairs)
      first == {n \in DOMAIN pairs : \A k \in 1..(n - 1) : pairs[k][1] # pairs[n][1]}
  IN [route EXCEPT !.mapping = Kept(pairs, first)]

\* The policy of an EnvoyFilter: in each patch the first matcher whose value is
\* an object, and of several patches the last.
envoyfilter_fallback(o) ==
  LET objects(patch) == SelectSeq(patch, LAMBDA p : p # Malformed)
      found == SelectSeq(Map(o.patches, objects), LAMBDA p : p # << >>)
  IN IF found = << >> THEN None
     ELSE LET p == Head(Last(found))
          IN [max_redirects |-> p.max, use_original_request |-> p.body /\ p.uri]

\* Filters are keyed by their own name, the last of a name wins.
LinkParams(objs, main) ==
  LET mine == SelectSeq(Of(objs, "EnvoyFilter"),
                        LAMBDA o : o.name = main /\ envoyfilter_fallback(o) # None)
  IN IF mine = << >> THEN [max_redirects |-> 10, use_original_request |-> TRUE]
     ELSE envoyfilter_fallback(Last(mine))

\* A main route is linked when some Fallback route carries its name (mutant:
\* when its filter says so).
wire_fallbacks_ByFilter(objs, route, keys) ==
  IF route.kind = "Main" /\ \E n \in DOMAIN objs : objs[n].kind = "EnvoyFilter"
                                                  /\ objs[n].name = route.ingress
  THEN [route EXCEPT !.target = route.ingress, !.link = LinkParams(objs, route.ingress)]
  ELSE route
wire_fallbacks(objs, route, keys) ==
  IF route.kind = "Main" /\ route.ingress \in keys
  THEN [route EXCEPT !.target = route.ingress, !.link = LinkParams(objs, route.ingress)]
  ELSE route

(* ------------------------- registries, proxies ------------------------- *)

Named(r) == r.name # "" /\ r.type # ""

\* One registry of an unknown type fails the whole bridge, its proxies too.
BridgeOk(o) == \A n \in DOMAIN o.registries :
  Named(o.registries[n]) => o.registries[n].type \in ServiceType

\* `as u16` cuts a port.
AsU16(port) == IF port = None THEN None ELSE port % U16

Registry(r) == [id |-> <<r.name, r.type>>, domain |-> r.domain, port |-> AsU16(r.port), proxy |-> r.proxy]
Proxy(p) == [name |-> p.name, address |-> <<p.server, IF p.port = None THEN 80 ELSE AsU16(p.port)>>]

BridgeRegistries(o) == Map(Filter(o.registries, Named), Registry)
BridgeProxies(o) == Map(Filter(o.proxies, LAMBDA p : p.name # ""), Proxy)

mcpbridges(objs) == Filter(Of(objs, "McpBridge"), BridgeOk)

(* --------------------------- provider tokens --------------------------- *)

\* The tokens of the last provider with that id.
ProviderTokens(o, id) ==
  LET mine == Where(o.providers, LAMBDA p : p.id = id /\ p.id # "")
  IN IF mine = {} THEN << >> ELSE o.providers[Max(mine)].tokens

\* One entry for each service of a rule, and for each ingress it is scoped to.
Scopes(r) == IF r.ingress = << >> THEN <<None>> ELSE r.ingress
RuleTokens(o, r) ==
  LET entries(s) == Map(Scopes(r), LAMBDA ing :
                      [service |-> s, scope |-> ing, tokens |-> ProviderTokens(o, r.active)])
  IN Flatten(Filter(r.services, LAMBDA s : s # <<"", "">>), entries)
wasmplugin_ai_proxy(o) ==
  Flatten(Filter(o.rules, LAMBDA r : ProviderTokens(o, r.active) # << >>), LAMBDA r : RuleTokens(o, r))

(* ----------------- the sections the last object decides ---------------- *)

LastOr(s, default) == IF s = << >> THEN default ELSE Last(s)

\* A model-router configuration that is missing or malformed means the defaults.
DefaultRouter == "default settings"
translate_model_router_config(o) ==
  IF o.config \in {None, Malformed} THEN DefaultRouter ELSE o.config

\* The YAML document of the ConfigMap comes before its flat keys; both count as
\* maps from a setting to a value, a document that does not parse as empty.
Timing == {"downstream_idle", "upstream_idle", "max_headers_kb"}
DefaultTiming == [s \in Timing |-> CASE s = "downstream_idle" -> 1800
                                     [] s = "upstream_idle" -> 10
                                     [] s = "max_headers_kb" -> None]
Setting(doc, s) == IF doc \in {None, Malformed} THEN None
                   ELSE IF s \in DOMAIN doc THEN doc[s] ELSE None
configmap_to_timing(o) ==
  [s \in Timing |->
     IF Setting(o.data.higress, s) # None THEN Setting(o.data.higress, s)
     ELSE IF Setting(o.data.flat, s) # None THEN Setting(o.data.flat, s) ELSE DefaultTiming[s]]

\* A secret with its prefix and both halves, each decoded, is a TLS host.
TlsSecrets(objs) ==
  SelectSeq(Of(objs, "Secret"), LAMBDA o :
    o.name[1] = "gpustack-tls-" /\ o.crt \notin {None, Malformed}
    /\ o.key \notin {None, Malformed})
secret_to_tls_host(o) ==
  [host |-> o.name[2], is_default |-> o.name[2] = "default", pem |-> <<o.crt, o.key>>]

(* ------------------------------ assembly ------------------------------- *)

build_config_data(objs) ==
  LET plugins == Of(objs, "WasmPlugin")
      translated == IngressRoutes(objs)
      rules == Flatten(plugins, wasmplugin_model_mapping)
      keys == Fallbacks(translated, DOMAIN translated)
      finish(r) == wire_fallbacks(objs, merge_model_mapping(r, rules), keys)
      named(name) == Filter(plugins, LAMBDA o : o.name = Whole(name))
      maps == SelectSeq(Of(objs, "ConfigMap"), LAMBDA o : o.name = Whole("higress-config") /\ o.data # None)
  IN [routes |-> Map(translated, finish),
      registries |-> Flatten(mcpbridges(objs), BridgeRegistries),
      proxies |-> Flatten(mcpbridges(objs), BridgeProxies),
      tokens |-> LastOr(Map(named("gpustack-ai-proxy"), wasmplugin_ai_proxy), << >>),
      features |-> Map(plugins, LAMBDA o : o.name),
      tls |-> Map(TlsSecrets(objs), secret_to_tls_host),
      timing |-> LastOr(Map(maps, configmap_to_timing), DefaultTiming),
      model_router |-> LastOr(Map(named("gpustack-model-router"),
                                  translate_model_router_config), DefaultRouter)]
=============================================================================
