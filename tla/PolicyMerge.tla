---------------------------- MODULE PolicyMerge -----------------------------
(***************************************************************************)
(* What a policy document means for one ingress: the route policy is found *)
(* by a glob on the bare ingress name (hygress-core/src/policy.rs) and its *)
(* sections are merged over the global ones once per load, into an index   *)
(* the requests look up (hygress-gateway/src/policy_loader.rs).            *)
(*                                                                         *)
(* A document is [global, routes]; global is [limits, quota, guardrail], a *)
(* route policy has name_glob and policy, its routing actions, besides.    *)
(* Absent sections are None; limits is [ip, consumer], quota               *)
(* [by_model_tokens], guardrail [fail_mode, static_rules, llm]. Names and  *)
(* globs are sequences of characters.                                      *)
(***************************************************************************)
EXTENDS Naturals, Sequences

CONSTANTS
  None,        \* Option::None
  BadRules     \* static rules whose regex does not compile

default == [global |-> [limits |-> None, quota |-> None, guardrail |-> None], routes |-> << >>]

(* -------------------------------- globs -------------------------------- *)

\* The scan has taken pi characters of the pattern and si of the input; the last
\* star stands after star_pi characters and its match ends at star_si. Without a
\* star, star_pi is an index of no character, here the length of the pattern.
Start(p) == [pi |-> 0, si |-> 0, star_pi |-> Len(p), star_si |-> 0]

\* One round of the loop: a star is remembered, a character matches, or the star
\* takes one character more. Where the loop ends, nothing changes.
Step(p, s, x) ==
  IF x.si = Len(s) THEN x
  ELSE IF x.pi < Len(p) /\ p[x.pi + 1] = "*"
  THEN [pi |-> x.pi + 1, si |-> x.si, star_pi |-> x.pi, star_si |-> x.si]
  ELSE IF x.pi < Len(p) /\ p[x.pi + 1] = s[x.si + 1]
  THEN [x EXCEPT !.pi = @ + 1, !.si = @ + 1]
  ELSE IF x.star_pi # Len(p)
  THEN [x EXCEPT !.pi = x.star_pi + 1, !.si = x.star_si + 1, !.star_si = @ + 1]
  ELSE x

Rounds(p, s) == (Len(p) + 1) * (Len(s) + 1)
glob_match(pattern, input) ==
  LET scan[n \in Nat] == IF n = 0 THEN Start(pattern) ELSE Step(pattern, input, scan[n - 1])
      end == scan[Rounds(pattern, input)]
  IN end.si = Len(input) /\ \A i \in (end.pi + 1)..Len(pattern) : pattern[i] = "*"

\* The last of the routes that passes the test.
LastRoute(routes, Test(_)) ==
  LET hits == {i \in DOMAIN routes : Test(routes[i])}
  IN IF hits = {} THEN None ELSE routes[CHOOSE i \in hits : \A j \in hits : j <= i]

\* The last route policy whose glob matches.
for_ingress(cfg, bare) == LastRoute(cfg.routes, LAMBDA r : glob_match(r.name_glob, bare))

(* -------------------------------- merges ------------------------------- *)

or_else(a, b) == IF a # None THEN a ELSE b
Section(s, f) == IF s = None THEN None ELSE s[f]

merge_limits(g, r) ==
  IF g = None \/ r = None THEN or_else(r, g)
  ELSE [ip |-> or_else(r.ip, g.ip), consumer |-> or_else(r.consumer, g.consumer)]
\* Empty sections count as absent.
merge_quota(g, r) ==
  LET by == or_else(Section(r, "by_model_tokens"), Section(g, "by_model_tokens"))
  IN IF by = None THEN None ELSE [by_model_tokens |-> by]
merge_guardrail(g, r) ==
  IF g = None \/ r = None THEN or_else(r, g)
  ELSE [fail_mode |-> r.fail_mode, static_rules |-> g.static_rules \o r.static_rules,
        llm |-> or_else(r.llm, g.llm)]

merge_spec(global, route) ==
  IF route = None THEN [limits |-> global.limits, quota |-> global.quota,
                        guardrail |-> global.guardrail, actions |-> None]
  ELSE [limits |-> merge_limits(global.limits, route.limits),
        quota |-> merge_quota(global.quota, route.quota),
        guardrail |-> merge_guardrail(global.guardrail, route.guardrail),
        actions |-> route.policy]

\* One rule that does not compile disables the static scan of its ingress.
compile(policy) ==
  LET rules == IF policy.guardrail = None THEN << >> ELSE policy.guardrail.static_rules
      good == rules # << >> /\ \A i \in DOMAIN rules : rules[i] \notin BadRules
  IN [policy |-> policy, static_set |-> IF good THEN rules ELSE None]

(* ------------------------------ the index ------------------------------ *)

Globs(cfg) == {cfg.routes[i].name_glob : i \in DOMAIN cfg.routes}
\* An index that keeps the first entry of a glob.
Inserted_First(cfg, glob) ==
  cfg.routes[CHOOSE i \in DOMAIN cfg.routes :
               /\ cfg.routes[i].name_glob = glob
               /\ \A j \in DOMAIN cfg.routes : cfg.routes[j].name_glob = glob => i <= j]
\* The entry that stays when the routes are inserted in order.
Inserted(cfg, glob) == LastRoute(cfg.routes, LAMBDA r : r.name_glob = glob)
MergedTable(cfg) ==
  [global |-> compile(merge_spec(cfg.global, None)),
   by_glob |-> [g \in Globs(cfg) |-> compile(merge_spec(cfg.global, Inserted(cfg, g)))]]

\* PolicyRuntime: what one swap replaces.
PolicyRuntime(cfg) == [config |-> cfg, merged |-> MergedTable(cfg)]

LookUp(runtime, spec) ==
  IF spec = None THEN runtime.merged.global ELSE runtime.merged.by_glob[spec.name_glob]
merged_for(runtime, bare) == LookUp(runtime, for_ingress(runtime.config, bare))

(* ------------------------- what a document says ------------------------ *)

\* Where a glob may stand in the name so that its rest matches the rest of the
\* name: a star takes any characters, every other character itself.
Before(c, s, ends) ==
  IF c = "*" THEN {n \in 0..Len(s) : \E m \in ends : n <= m}
  ELSE {n \in 0..Len(s) : n < Len(s) /\ s[n + 1] = c /\ n + 1 \in ends}
Matches(p, s) ==
  LET last[k \in Nat] == IF k = 0 THEN {Len(s)} ELSE Before(p[Len(p) - k + 1], s, last[k - 1])
  IN 0 \in last[Len(p)]

\* The policy of a name as policy_loader.rs documents it ("global defaults ->
\* routes override"), field by field.
Documented(cfg, bare) ==
  LET route == LastRoute(cfg.routes, LAMBDA r : Matches(r.name_glob, bare))
      own(f) == Section(route, f)
      both(section, f) == or_else(Section(own(section), f), Section(cfg.global[section], f))
      rules(s) == IF s = None THEN << >> ELSE s.static_rules
  IN [ip |-> both("limits", "ip"), consumer |-> both("limits", "consumer"),
      tokens |-> both("quota", "by_model_tokens"),
      fail_mode |-> both("guardrail", "fail_mode"), llm |-> both("guardrail", "llm"),
      rules |-> rules(cfg.global.guardrail) \o rules(own("guardrail")),
      actions |-> own("policy")]

\* The same fields of an entry of the index.
Effective(entry) ==
  LET p == entry.policy IN
  [ip |-> Section(p.limits, "ip"), consumer |-> Section(p.limits, "consumer"),
   tokens |-> Section(p.quota, "by_model_tokens"),
   fail_mode |-> Section(p.guardrail, "fail_mode"), llm |-> Section(p.guardrail, "llm"),
   rules |-> IF p.guardrail = None THEN << >> ELSE p.guardrail.static_rules,
   actions |-> p.actions]
=============================================================================
