------------------------------ MODULE MCRelay ------------------------------
(* Response bodies for the relay: event streams with comments, usage that  *)
(* is split, null, nested or repeated, long lines, a JSON body, prose.     *)
EXTENDS Relay

Obj(p, c, t) ==
  [prompt_tokens |-> p, input_tokens |-> None, completion_tokens |-> c, output_tokens |-> None,
   total_tokens |-> t, total_token |-> None, cache_read |-> None, cached_tokens |-> None,
   details |-> None]
MCUsageKeys == {"u1", "u2", "u0"}
MCMessageKeys == {"m"}
MCUsageObject ==
  [k \in MCUsageKeys \cup MCMessageKeys |->
     CASE k = "u1" -> {Obj(2, 1, 6)}
       [] k = "u2" -> {Obj(None, 6, None)}
       [] k = "u0" -> NotAnObject
       [] k = "m"  -> {[Obj(None, None, None) EXCEPT !.input_tokens = 3, !.cache_read = 1]}]

D(payload) == Marker \o payload \o <<NL>>
J(member) == <<"{", member, "}">>
MCRules == {<<"b", "a", "d">>}

MCBodies ==
  { D(J("m")) \o D(J("u2")) \o D(<<Done>>),
    D(J("u1")) \o D(J("u0")),
    <<"c", NL>> \o D(<<"b">>) \o D(J("u1")) \o <<NL>>,
    D(<<"x", "b", "a", "d">>) \o D(J("u1")),
    <<"x", "da", "ta:", NL>> \o D(<<Blank, "{", "{", "u1", "}", "}">>) \o Marker \o J("u2"),
    D(<<"x", "x", "x", "x", "x", "x", "x", "u1">>) \o D(J("u2")),
    <<"{", "u2", NL, "{", "x", "}", "}", NL>>,
    <<"{", "{", "}", "{", "}", "{", "}", "u1", "}">>,
    <<"b", "a", "x", "b", "a", "b", "a", "d", "x", "x">> }
=============================================================================
