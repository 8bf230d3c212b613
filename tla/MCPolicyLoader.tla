--------------------------- MODULE MCPolicyLoader ---------------------------
(***************************************************************************)
(* Small instances of PolicyLoader: documents whose route policies overlap *)
(* in every way, a poller and an admin reload that overlap, and edits      *)
(* between the reloads.                                                    *)
(***************************************************************************)
EXTENDS PolicyLoader

Limits(ip, consumer) == [ip |-> ip, consumer |-> consumer]
Quota(spec) == [by_model_tokens |-> spec]
Guard(mode, rules, llm) == [fail_mode |-> mode, static_rules |-> rules, llm |-> llm]
Global(l, q, g) == [limits |-> l, quota |-> q, guardrail |-> g]
Route(glob, l, q, g, actions) ==
  [name_glob |-> glob, limits |-> l, quota |-> q, guardrail |-> g, policy |-> actions]

\* A glob that is listed twice, with another one between that also matches.
Overlapping ==
  [global |-> Global(Limits("g", "g"), Quota("g"), Guard("open", <<"r1">>, "g")),
   routes |-> << Route(<<"a", "*">>, Limits(None, "1"), Quota("1"), None, "1"),
                 Route(<<"*">>, None, Quota(None), Guard("closed", <<"bad">>, None), None),
                 Route(<<"a", "*">>, Limits("3", None), None, Guard("closed", <<"r2">>, None), "3") >>]
\* Globs that need the star to match more than it first does.
Backtracking ==
  [global |-> Global(None, None, None),
   routes |-> << Route(<<"*", "a", "b">>, Limits(None, "1"), Quota("1"), Guard("open", <<"r1">>, "1"), "1"),
                 Route(<<"a", "*", "a", "*", "b">>, None, Quota("2"), Guard("open", << >>, "2"), None),
                 Route(<<"*", "b", "*", "*", "a">>, Limits("3", None), None, None, "3") >>]
GlobalOnly ==
  [global |-> Global(Limits(None, "g"), Quota(None), Guard("closed", <<"r1", "bad">>, None)), routes |-> << >>]
MCPolicies == {Overlapping, Backtracking, GlobalOnly}

MCNames == {<<"a">>, <<"b">>, <<"a", "b">>, <<"b", "a">>, <<"a", "a", "b">>, <<"b", "b", "a">>,
            <<"a", "b", "a", "b">>, <<"a", "b", "a", "a", "b">>, <<"b", "a", "b", "b">>}
=============================================================================
