--------------------------- MODULE MCRequestPath ---------------------------
(***************************************************************************)
(* A route table with every kind of link: a main route with the default    *)
(* retry set, one without the non-idempotent gate, two fallback routes     *)
(* that link to each other, and the mirror.                                *)
(***************************************************************************)
EXTENDS RequestPath, TLC

CONSTANTS main, plain, fb1, fb2, mirror

MCRoutes == {main, plain, fb1, fb2, mirror}

NoLink == {}
Link(k, m) == {[key |-> k, max |-> m]}

Default == {"error", "timeout", "503", "non_idempotent"}

MCTable ==
  main :> [kind |-> "main", key |-> main, auth |-> TRUE, conds |-> Default,
           tries |-> 2, cands |-> 3, fallback |-> Link(main, 2)]
  @@ plain :> [kind |-> "main", key |-> plain, auth |-> TRUE, conds |-> {"5xx", "timeout"},
               tries |-> 1, cands |-> 3, fallback |-> NoLink]
  @@ fb1 :> [kind |-> "fallback", key |-> main, auth |-> TRUE, conds |-> Default,
             tries |-> 1, cands |-> 2, fallback |-> Link(fb2, 3)]
  @@ fb2 :> [kind |-> "fallback", key |-> fb2, auth |-> FALSE, conds |-> {},
             tries |-> 0, cands |-> 1, fallback |-> Link(main, 3)]
  @@ mirror :> [kind |-> "mirror", key |-> mirror, auth |-> FALSE, conds |-> Default,
                tries |-> 2, cands |-> 1, fallback |-> NoLink]

=============================================================================
