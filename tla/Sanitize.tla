------------------------------ MODULE Sanitize ------------------------------
(***************************************************************************)
(* ConfigData::sanitize (hygress-core/src/config.rs): the objects of a     *)
(* control-plane snapshot are validated one by one, only the first mirror  *)
(* is kept, and routes whose fallback target was dropped are dropped in    *)
(* turn until a pass drops nothing.                                        *)
(*   route       [kind, key, ingress, target, link, auth, dests, preds,    *)
(*               mapping]                                                  *)
(*   destination [percent, service], service [name, type, port]            *)
(*   registry    [id, domain, port, proxy], id a <<name, type>>            *)
(*   token       [service, scope, tokens]                                  *)
(***************************************************************************)
EXTENDS Naturals, Sequences, FiniteSets, SequencesExt

CONSTANTS
  None,       \* Option::None
  EmptyKey    \* the empty string as a route key

(* ------------------------ destination, registry ------------------------ *)

ServiceType == {"static", "dns", "proxy", "tunnel"}

\* parse_service_with_port accepts the reference.
service_ref_ok(s) == s.name # "" /\ s.type \in ServiceType
service_name(s) == <<s.name, s.type>>
weight(d) == IF d.percent = None THEN 100 ELSE d.percent

\* The n-th position of I, and the entries of s at the positions of I, in order.
Position(I, n) == CHOOSE i \in I : Cardinality({j \in I : j <= i}) = n
Kept(s, I) == [n \in 1..Cardinality(I) |-> s[Position(I, n)]]

\* The entries that pass the test, in order.
Filter(s, Test(_)) == Kept(s, {n \in DOMAIN s : Test(s[n])})

(* ------------------------- the per-object pass ------------------------- *)

Fallbacks(rs, I) == {rs[i].key : i \in {j \in I : rs[j].kind = "Fallback"}}

\* seen_keys holds the keys of all earlier routes, dropped ones too (mutant:
\* the kind is left out).
Duplicate_AnyKind(rs, i) == \E j \in 1..(i - 1) : rs[j].key = rs[i].key
Duplicate(rs, i) ==
  \E j \in 1..(i - 1) : rs[j].kind = rs[i].kind /\ rs[j].key = rs[i].key

\* At this point the target is only looked for among all routes offered.
UnknownTarget(rs, i) ==
  rs[i].target # None /\ rs[i].target \notin Fallbacks(rs, DOMAIN rs)

GoodDestination(d) == service_ref_ok(d.service) /\ weight(d) <= 100
GoodWeights(ds) ==
  (\E n \in DOMAIN ds : ds[n].percent # None)
    => FoldLeft(+, 0, [n \in DOMAIN ds |-> weight(ds[n])]) = 100
\* auth is the scope of the route: "off", "rootless" or "scoped".
GoodAuth(r) == IF r.kind = "Mirror" THEN r.auth = "off" ELSE r.auth # "rootless"

\* The route raises no issue of its own.
GoodRoute(r) ==
  /\ r.key # EmptyKey
  /\ r.dests # << >> /\ \A n \in DOMAIN r.dests : GoodDestination(r.dests[n])
  /\ GoodWeights(r.dests)
  /\ GoodAuth(r)

Sound(rs) ==
  {i \in DOMAIN rs : GoodRoute(rs[i]) /\ ~Duplicate(rs, i) /\ ~UnknownTarget(rs, i)}

(* --------------------------- the mirror pass --------------------------- *)

Mirrors(rs, I) == {i \in I : rs[i].kind = "Mirror"}
OneMirror(rs) ==
  LET ok == Sound(rs) IN
  {i \in ok : i \in Mirrors(rs, ok) => \A j \in Mirrors(rs, ok) : i <= j}

(* ------------------------- the fallback cascade ------------------------ *)

\* One pass: the routes whose target is not an accepted Fallback route go.
Pass(rs, I) == {i \in I : rs[i].target = None \/ rs[i].target \in Fallbacks(rs, I)}

\* At most initial_len + 1 passes; further passes after the fixpoint change
\* nothing (mutant: one pass).
Passes_One(I) == 1
Passes(I) == Cardinality(I) + 1
Accepted(rs) ==
  LET start == OneMirror(rs)
      after[n \in Nat] == IF n = 0 THEN start ELSE Pass(rs, after[n - 1])
  IN after[Passes(start)]

(* --------------------- registries, provider tokens --------------------- *)

\* domain is [scheme, host, port, path]; a proxy registry names a known proxy.
GoodRegistry(reg, proxies) ==
  /\ reg.domain # None
  /\ reg.id[2] = "dns" => reg.port # None
  /\ reg.id[2] = "proxy" => \E n \in DOMAIN proxies : proxies[n].name = reg.proxy

\* A token's service is any text of the registry grammar.
GoodToken(t) == t.service # <<"", "">> /\ t.tokens # << >>

sanitize(data) ==
  [data EXCEPT
     !.routes = Kept(@, Accepted(@)),
     !.registries = Filter(@, LAMBDA reg : GoodRegistry(reg, data.proxies)),
     !.tokens = Filter(@, GoodToken)]
=============================================================================
