------------------------------ MODULE Snapshot ------------------------------
(***************************************************************************)
(* From the objects of the cluster to what a request reads: build_config_  *)
(* data (Translate), sanitize (Sanitize), RouteTable::rebuild and          *)
(* SharedConfig::store (RouteTable).  A ConfigData is either translated    *)
(* from listed objects or handed to the core as it is: the core accepts    *)
(* links the adapter never makes, between Fallback routes.                 *)
(***************************************************************************)
EXTENDS Translate

CONSTANTS
  Objects,      \* objects the cluster may hold
  Rules,        \* routes a ConfigData may hold
  Paths,        \* request paths
  MaxObjects,   \* bound on the objects listed
  MaxRoutes     \* bound on the routes of a ConfigData handed over

ASSUME SnapshotConstants == MaxObjects \in Nat /\ MaxRoutes \in Nat /\ U16 \in Nat \ {0}

\* Objects as serde makes them: what is listed are lists, a domain is made of texts
\* and a port, and None is neither of these nor a name.
IsSeq(s) == s \in Seq(Range(s))
IsDomain(d) == /\ d.host \in STRING
               /\ d.port \in Nat \cup {None} /\ d.path \in STRING \cup {None}
ASSUME ObjectShape ==
  /\ None \notin Seq(STRING \cup Nat) /\ \A o \in Objects : o.name # None
  /\ \A o \in Objects : o.kind = "McpBridge" =>
       /\ IsSeq(o.registries) /\ IsSeq(o.proxies)
       /\ \A n \in DOMAIN o.registries :
            /\ o.registries[n].port \in Nat \cup {None}
            /\ o.registries[n].domain # None => IsDomain(o.registries[n].domain)
  /\ \A o \in Objects : o.kind = "WasmPlugin" =>
       /\ IsSeq(o.rules) /\ \A n \in DOMAIN o.rules : IsSeq(o.rules[n].services)
       /\ o.name = Whole("gpustack-ai-proxy") =>
            \A n \in DOMAIN o.rules : /\ IsSeq(o.rules[n].ingress)
                                     /\ \A k \in DOMAIN o.rules[n].ingress : o.rules[n].ingress[k] # None

VARIABLES
  objects,   \* the objects of the last LIST, in order
  data,      \* the ConfigData offered
  live       \* the ConfigData of the snapshot in the ArcSwap

vars == <<objects, data, live>>

Empty == build_config_data(<< >>)

Init == objects = << >> /\ data = Empty /\ live = Empty

\* store: a snapshot whose table does not build leaves the last one.
Stored(d) == IF Builds(sanitize(d)) THEN sanitize(d) ELSE live

\* The cluster gets an object and is listed; a name is used once in a kind.
Apply(o) ==
  /\ Len(objects) < MaxObjects /\ data = build_config_data(objects)
  /\ \A n \in DOMAIN objects : objects[n].kind # o.kind \/ objects[n].name # o.name
  /\ objects' = Append(objects, o)
  /\ data' = build_config_data(objects')
  /\ live' = Stored(data')

\* A ConfigData is handed over, one route longer than the one before.
Offer(r) ==
  /\ objects = << >> /\ Len(data.routes) < MaxRoutes
  /\ data' = [data EXCEPT !.routes = Append(@, r)]
  /\ live' = Stored(data')
  /\ UNCHANGED objects

Next == (\E o \in Objects : Apply(o)) \/ (\E r \in Rules : Offer(r))

Spec == Init /\ [][Next]_vars

-----------------------------------------------------------------------------
rs == data.routes
Chosen == Accepted(rs)

\* Every link leads to a served Fallback route, keys are unique within a kind,
\* there is one mirror at most and every predicate compiles.
LiveIsConsistent ==
  LET all == DOMAIN live.routes IN
  /\ \A i \in all : live.routes[i].target # None =>
                      live.routes[i].target \in Fallbacks(live.routes, all)
  /\ \A i, j \in all :
       live.routes[i].kind = live.routes[j].kind
       /\ (live.routes[i].key = live.routes[j].key \/ live.routes[i].kind = "Mirror") => i = j
  /\ Builds(live)

Closed(I) == \A i \in I : rs[i].target # None => rs[i].target \in Fallbacks(rs, I)

\* What is served can be served as it is, however the drops depend on each other
\* and whatever snapshots were rejected in between, and the cascade drops no more
\* than it must: the accepted set is the greatest set of the remaining routes
\* whose links stay inside it, so good routes, those that fall back to each other
\* in a cycle included, survive a bad neighbour (sanitize, store).
LiveIsGreatestConsistent ==
  /\ LiveIsConsistent
  /\ Chosen = UNION {I \in SUBSET OneMirror(rs) : Closed(I)}

\* The routes without the one at i.
Without(i) == Kept(rs, DOMAIN rs \ {i})

\* With the routes in I: later routes of their kind that have their key, and
\* routes whose links lead to them.
WithDependants(I) ==
  I \cup {j \in DOMAIN rs :
            \/ \E m \in I : rs[m].kind = rs[j].kind /\ m < j /\ rs[m].key = rs[j].key
            \/ rs[j].target \in Fallbacks(rs, I)}

\* What route i, though dropped, may keep out.
KeptOutBy(i) ==
  LET within[n \in Nat] == IF n = 0 THEN {i} ELSE WithDependants(within[n - 1])
  IN within[Len(rs)]

\* The routes that would be served, by their positions here, if i were not offered.
ServedWithout(i) ==
  {j \in DOMAIN rs \ {i} : (IF j < i THEN j ELSE j - 1) \in Accepted(Without(i))}

MirrorsOffered == Mirrors(rs, DOMAIN rs)

\* A bad route is contained: in a snapshot with one mirror at most, taking it out
\* takes no other route with it and brings back only routes that it kept out by
\* key or by link (sanitize's contract: drop that single object and keep the
\* rest). What a second mirror changes is DroppedMirrorBlocksNoOther's subject.
FaultIsContained ==
  (\A i, j \in MirrorsOffered : i = j) =>
    \A i \in DOMAIN rs \ Chosen :
      /\ Chosen \subseteq ServedWithout(i)
      /\ ServedWithout(i) \ Chosen \subseteq KeptOutBy(i)

\* The comment on the mirror pass (config.rs:208-209): "a first mirror that was
\* itself dropped for another issue does not block a later one", stated for two
\* mirrors of different keys. It fails: the cascade runs after the mirror pass,
\* so a first mirror whose link it drops has already cost the later one its place.
DroppedMirrorBlocksNoOther ==
  \A i, j \in MirrorsOffered :
    (/\ i < j /\ rs[i].key # rs[j].key
     /\ i \notin Chosen /\ j \in ServedWithout(i)) => j \in Chosen

Keys == {rs[i].key : i \in DOMAIN rs} \cup {rs[i].ingress : i \in DOMAIN rs} \cup {None}

\* Whatever model header a client sends, it reaches a Main route of that key,
\* which asks for authentication, or the mirror; and when that route redirects,
\* the same path reaches a Fallback route wired to it or the mirror. No value of
\* the header opens a Fallback route or a route without authentication.
RequestsStayInTheirKeySpace ==
  objects # << >> => \A key \in Keys, path \in Paths :
    LET m == find_match(live.routes, key, path)
        r == live.routes[m.index]
        f == find_match_fallback(live.routes, r.target, path)
    IN m # None =>
         \/ r.kind = "Mirror" /\ ~requires_auth(r)
         \/ /\ r.kind = "Main" /\ r.key = key /\ requires_auth(r)
            /\ r.target # None /\ f # None =>
                 \/ live.routes[f.index].kind = "Mirror"
                 \/ live.routes[f.index].kind = "Fallback"
                    /\ live.routes[f.index].key = r.ingress

IsIngress(n, kind) == objects[n].kind = "Ingress" /\ Translatable(objects[n])
                      /\ classify_ingress_name(objects[n].name) = kind

\* A main route is served with the fallback its cluster defines or not at all:
\* it is linked exactly if some translatable Fallback ingress names it, and then
\* that route, or a twin of it that came first, was accepted too. With or
\* without an EnvoyFilter: the filter only sets the parameters.
FallbackIsWired ==
  objects # << >> => \A i \in Chosen :
    rs[i].kind = "Main" =>
      LET named == {n \in DOMAIN objects : IsIngress(n, "Fallback")
                                           /\ objects[n].from = rs[i].ingress}
      IN /\ rs[i].target # None <=> named # {}
         /\ named # {} => \E j \in Chosen, n \in named :
              rs[j].kind = "Fallback" /\ rs[j].ingress = objects[n].name

\* The precomputed index resolves every destination as the direct resolver does,
\* registries listed twice included (registry.rs: "resolves identically to the
\* direct resolver"), and every registry that validation let through resolves,
\* unless its domain has no host.
RegistriesResolve ==
  LET accepted == sanitize(data) IN
  /\ \A i \in DOMAIN accepted.routes : \A n \in DOMAIN accepted.routes[i].dests :
       LET d == accepted.routes[i].dests[n]
       IN resolve_index(precompute_registries(accepted), d) = resolve_destination(accepted, d)
  /\ \A n \in DOMAIN accepted.registries :
       accepted.registries[n].domain.host # "" =>
         resolve(accepted.registries[n], accepted.proxies) # Unresolved

Plugin(name) == Filter(Of(objects, "WasmPlugin"), LAMBDA o : o.name = Whole(name))
Ingresses == {objects[n].name : n \in {k \in DOMAIN objects : objects[k].kind = "Ingress"}}
Services == UNION {{service_name(rs[i].dests[n].service) : n \in DOMAIN rs[i].dests} : i \in DOMAIN rs}
InSeq(x, s) == \E n \in DOMAIN s : s[n] = x

\* The bearer of the first matchRule which names the service and the ingress,
\* else of the first one which names the service and no ingress; rules whose
\* provider has no token do not count.
BearerFollowsRules ==
  \A s \in Services, ing \in Ingresses :
    LET bearer == provider_bearer(sanitize(data).tokens, s, ing)
        rules == IF Plugin("gpustack-ai-proxy") = << >> THEN << >>
                 ELSE Last(Plugin("gpustack-ai-proxy")).rules
        key(n) == ProviderTokens(Last(Plugin("gpustack-ai-proxy")), rules[n].active)
        counts == {n \in DOMAIN rules : InSeq(s, rules[n].services) /\ key(n) # << >>}
        scoped == {n \in counts : InSeq(ing, rules[n].ingress)}
        global == {n \in counts : rules[n].ingress = << >>}
    IN bearer = IF scoped # {} THEN Head(key(Min(scoped)))
                ELSE IF global # {} THEN Head(key(Min(global))) ELSE None

\* The model of the first rule of all mapper plugins that names the ingress and
\* the service.
MappingFollowsRules ==
  objects # << >> => \A i \in DOMAIN rs : \A s \in Services :
    LET rules == Flatten(Of(objects, "WasmPlugin"), wasmplugin_model_mapping)
        mine == Where(rules, LAMBDA r : rs[i].ingress \in r.ingress /\ InSeq(s, r.services))
    IN lookup(rs[i].mapping, s) = IF mine = {} THEN None ELSE rules[Min(mine)].model

\* What the WasmPlugins say of a service and an ingress is what a request gets,
\* however many plugins and rules overlap: a route never sends a provider key
\* that is scoped to other routes, and no rule of another ingress ever maps its
\* model (provider_bearer, merge_model_mapping).
PluginRulesAreFollowed == BearerFollowsRules /\ MappingFollowsRules
=============================================================================
