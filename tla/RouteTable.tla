----------------------------- MODULE RouteTable -----------------------------
(***************************************************************************)
(* What a request reads from a snapshot: RouteTable::rebuild and its       *)
(* lookups (hygress-core/src/config.rs, matcher.rs), the registry index    *)
(* (registry.rs) and its readers (pipeline/registry_resolve.rs,            *)
(* route_match.rs), provider_bearer and the auth scope of a route          *)
(* (route.rs).  A regular expression is a name; what it matches is given   *)
(* by Regexes.                                                             *)
(***************************************************************************)
EXTENDS Sanitize

CONSTANT
  Regexes   \* regex -> [valid, anchor, paths, folded]: the literal_anchor_len,
            \* the paths matched in full as they are and with case ignored

(* ------------------------------ matching ------------------------------- *)

\* rebuild fails on a predicate that does not compile.
Builds(data) ==
  \A i \in DOMAIN data.routes : \A p \in DOMAIN data.routes[i].preds :
    Regexes[data.routes[i].preds[p].regex].valid

FullMatch(pred, path) ==
  path \in IF pred.ignore_case THEN Regexes[pred.regex].folded ELSE Regexes[pred.regex].paths
Anchor(r, p) == Regexes[r.preds[p].regex].anchor

\* The longest anchor among the predicates that match, the first on ties.
best_predicate(r, path) ==
  LET hits == {p \in DOMAIN r.preds : FullMatch(r.preds[p], path)} IN
  IF hits = {} THEN None
  ELSE CHOOSE p \in hits :
         \A q \in hits : \/ Anchor(r, q) < Anchor(r, p)
                         \/ Anchor(r, q) = Anchor(r, p) /\ p <= q

\* The mirror takes every path; of equal anchors max_by_key keeps the last.
mirror_predicate(r) ==
  IF r.preds = << >> THEN None
  ELSE CHOOSE p \in DOMAIN r.preds :
         \A q \in DOMAIN r.preds : \/ Anchor(r, q) < Anchor(r, p)
                                   \/ Anchor(r, q) = Anchor(r, p) /\ q <= p

mirror_match(rs) ==
  LET ms == Mirrors(rs, DOMAIN rs) IN
  IF ms = {} THEN None
  ELSE LET m == CHOOSE i \in ms : \A j \in ms : i <= j
       IN [index |-> m, by |-> "Mirror", predicate |-> mirror_predicate(rs[m])]

\* by_main_key or by_fallback_key, then the mirror (mutant: one index for both).
Match_OneIndex(rs, kind, key, path) ==
  LET hits == {i \in DOMAIN rs : rs[i].kind # "Mirror" /\ rs[i].key = key
                                 /\ best_predicate(rs[i], path) # None}
  IN IF hits = {} THEN mirror_match(rs)
     ELSE LET i == CHOOSE x \in hits : \A y \in hits : x <= y
          IN [index |-> i, by |-> kind, predicate |-> best_predicate(rs[i], path)]
Match(rs, kind, key, path) ==
  LET hits == {i \in DOMAIN rs : rs[i].kind = kind /\ rs[i].key = key
                                 /\ best_predicate(rs[i], path) # None}
  IN IF hits = {} THEN mirror_match(rs)
     ELSE LET i == CHOOSE x \in hits : \A y \in hits : x <= y
          IN [index |-> i, by |-> kind, predicate |-> best_predicate(rs[i], path)]

\* key is None for a request without the header.
find_match(rs, key, path) == Match(rs, "Main", key, path)
find_match_fallback(rs, from, path) == Match(rs, "Fallback", from, path)

\* The scope root is that of the managed route names, <<prefix, id, suffix>>.
requires_auth(r) == r.auth = "scoped" /\ r.ingress[1] = "ai-route-route-"

(* --------------------------- registry index ---------------------------- *)

\* host[:port][/path] without the scheme, as the parts of a text.
Bare(d) == (IF d.host = "" THEN << >> ELSE <<d.host>>)
           \o (IF d.port = None THEN << >> ELSE <<d.port>>)
           \o (IF d.path = None THEN << >> ELSE <<d.path>>)

normalize_static_domain(d, port) ==
  CASE d.host = "" -> None
    [] d.port # None -> <<d.host, d.port>>
    [] OTHER -> <<d.host, IF port = None THEN 80 ELSE port>>

WithPort(bare, port) == IF port = None THEN bare ELSE Append(bare, port)

\* The positions of the entries that pass the test.
Where(s, Test(_)) == {n \in DOMAIN s : Test(s[n])}

Unresolved == [https |-> FALSE, address |-> None, proxy |-> None]

\* Registry::resolve over the domain without its scheme.
resolve(reg, proxies) ==
  LET https == reg.domain.scheme = "https"
      bare == Bare(reg.domain)
      to(address, proxy) == IF address = None THEN Unresolved
                            ELSE [https |-> https, address |-> address, proxy |-> proxy]
      via == Where(proxies, LAMBDA p : p.name = reg.proxy)
  IN CASE bare = << >> -> Unresolved
       [] bare # << >> /\ reg.id[2] = "static" ->
            to(normalize_static_domain(reg.domain, reg.port), None)
       [] bare # << >> /\ reg.id[2] = "dns" ->
            IF reg.port = None THEN Unresolved ELSE to(Append(bare, reg.port), None)
       [] bare # << >> /\ reg.id[2] = "proxy" ->
            IF via = {} THEN Unresolved
            ELSE to(WithPort(bare, reg.port), proxies[Min(via)].address)
       [] bare # << >> /\ reg.id[2] = "tunnel" -> to(WithPort(bare, reg.port), None)

RegistryIds(data) == {data.registries[n].id : n \in DOMAIN data.registries}
RegistriesOf(data, id) == Where(data.registries, LAMBDA reg : reg.id = id)

\* One entry for each id, the first registry of that id (mutant: the last).
precompute_registries_Last(data) ==
  [id \in RegistryIds(data) |->
     resolve(data.registries[Max(RegistriesOf(data, id))], data.proxies)]
precompute_registries(data) ==
  [id \in RegistryIds(data) |->
     resolve(data.registries[Min(RegistriesOf(data, id))], data.proxies)]

\* The candidate a destination becomes; None when the stage fails.
resolve_index(index, d) ==
  IF ~service_ref_ok(d.service) \/ service_name(d.service) \notin DOMAIN index
     \/ index[service_name(d.service)] = Unresolved
  THEN None ELSE index[service_name(d.service)]

\* The direct resolver.
resolve_destination(data, d) ==
  LET at == RegistriesOf(data, service_name(d.service))
      to == resolve(data.registries[Min(at)], data.proxies)
  IN IF ~service_ref_ok(d.service) \/ at = {} \/ to = Unresolved THEN None ELSE to

(* --------------------- model mapping, provider bearer ------------------ *)

\* The first rule of the service.
lookup(mapping, service) ==
  LET at == Where(mapping, LAMBDA p : p[1] = service)
  IN IF at = {} THEN None ELSE mapping[Min(at)][2]

\* The first token scoped to the ingress, else the first global one (mutant:
\* the first that fits).
provider_bearer_FirstFit(tokens, service, ingress) ==
  LET fit == Where(tokens, LAMBDA t : t.service = service /\ t.scope \in {None, ingress})
  IN IF fit = {} THEN None ELSE Head(tokens[Min(fit)].tokens)
provider_bearer(tokens, service, ingress) ==
  LET fit(scope) == Where(tokens, LAMBDA t : t.service = service /\ t.tokens # << >> /\ t.scope = scope)
  IN IF fit(ingress) # {} THEN Head(tokens[Min(fit(ingress))].tokens)
     ELSE IF fit(None) # {} THEN Head(tokens[Min(fit(None))].tokens) ELSE None
=============================================================================
