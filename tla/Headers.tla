------------------------------ MODULE Headers -------------------------------
(***************************************************************************)
(* The header maps and the rule engine of hygress-core/src/transform.rs.   *)
(* HeaderMap is a function from lower-case names to non-empty value        *)
(* sequences. OutboundHeaders is the lazy overlay a candidate's headers    *)
(* are built in: the shared base, the lists that override it and the base  *)
(* names that are suppressed.                                              *)
(***************************************************************************)
EXTENDS Naturals, Sequences

LOCAL INSTANCE SequencesExt
LOCAL INSTANCE Functions

(* ------------------------------ HeaderMap ------------------------------ *)

NoHeaders == << >>
contains(h, n) == n \in DOMAIN h
get_all(h, n) == IF contains(h, n) THEN h[n] ELSE << >>
get(h, n, default) == IF contains(h, n) THEN Head(h[n]) ELSE default
insert(h, n, v) == [x \in DOMAIN h \cup {n} |-> IF x = n THEN <<v>> ELSE h[x]]
append(h, n, v) == [x \in DOMAIN h \cup {n} |-> IF x = n THEN Append(get_all(h, n), v) ELSE h[x]]
remove(h, n) == Restrict(h, DOMAIN h \ {n})

(* ---------------------------- OutboundHeaders -------------------------- *)

Overlay(base) == [base |-> base, overrides |-> NoHeaders, removed |-> {}]

OInsert(o, n, v) == [o EXCEPT !.removed = @ \ {n}, !.overrides = insert(@, n, v)]
\* A name that was just removed starts afresh.
OAppend(o, n, v) ==
  LET values == CASE contains(o.overrides, n) -> o.overrides[n]
                  [] n \in o.removed /\ ~contains(o.overrides, n) -> << >>
                  [] OTHER -> get_all(o.base, n)
  IN [o EXCEPT !.removed = @ \ {n},
               !.overrides = [x \in DOMAIN @ \cup {n} |-> IF x = n THEN Append(values, v) ELSE @[x]]]
\* Only a name of the base needs a suppression record.
ORemove(o, n) ==
  [o EXCEPT !.overrides = remove(@, n),
            !.removed = IF contains(o.base, n) THEN @ \cup {n} ELSE @]
OGetAll(o, n) == CASE contains(o.overrides, n) -> o.overrides[n]
                   [] ~contains(o.overrides, n) /\ n \in o.removed -> << >>
                   [] OTHER -> get_all(o.base, n)
OContains(o, n) == contains(o.overrides, n) \/ (n \notin o.removed /\ contains(o.base, n))

\* The direct dial drains the overlay: base names that are not suppressed, with
\* the overriding list if there is one, then what is left of the overrides
\* (mutant: a suppressed name of the base comes back).
into_pairs_Resurrects(o) ==
  [x \in DOMAIN o.base \cup DOMAIN o.overrides |->
     IF contains(o.overrides, x) THEN o.overrides[x] ELSE o.base[x]]
into_pairs(o) ==
  LET kept == DOMAIN o.base \ o.removed
  IN [x \in kept \cup DOMAIN o.overrides |->
        IF contains(o.overrides, x) THEN o.overrides[x] ELSE o.base[x]]

\* The provider dial rebuilds a map.
materialize(o) ==
  LET rest == Restrict(o.base, DOMAIN o.base \ o.removed)
  IN [x \in DOMAIN rest \cup DOMAIN o.overrides |->
        IF contains(o.overrides, x) THEN o.overrides[x] ELSE rest[x]]

(* ---------------------------- the rule engine -------------------------- *)

RemoveRule(s) == [op |-> "remove", source |-> s]
RenameRule(s, d) == [op |-> "rename", source |-> s, dest |-> d]
DedupeRule(s, mode) == [op |-> "dedupe", source |-> s, mode |-> mode]
BackupRule(s, d) == [op |-> "backup", source |-> s, dest |-> d]
SkipRule(s) == [op |-> "skip", source |-> s]

\* In this order (mutant: the last of several models is kept).
inbound_rules_LastModel ==
  << RemoveRule("x-gpustack-auth-token"),
     RemoveRule("x-gpustack-model-instance"),
     RemoveRule("x-gpustack-original-path"),
     RenameRule("x-gpustack-model", "x-higress-llm-model"),
     RenameRule("x-gpustack-fallback-path", ":path"),
     DedupeRule("x-gpustack-model", "last"),
     DedupeRule("x-higress-llm-model", "last"),
     DedupeRule(":path", "last"),
     BackupRule(":path", "x-gpustack-original-path"),
     RemoveRule("x-gpustack-fallback-path") >>
inbound_rules ==
  << RemoveRule("x-gpustack-auth-token"),
     RemoveRule("x-gpustack-model-instance"),
     RemoveRule("x-gpustack-original-path"),
     RenameRule("x-gpustack-model", "x-higress-llm-model"),
     RenameRule("x-gpustack-fallback-path", ":path"),
     DedupeRule("x-gpustack-model", "first"),
     DedupeRule("x-higress-llm-model", "first"),
     DedupeRule(":path", "last"),
     BackupRule(":path", "x-gpustack-original-path"),
     RemoveRule("x-gpustack-fallback-path") >>
outbound_rules ==
  << DedupeRule("x-gpustack-model-instance", "first"),
     DedupeRule("x-gpustack-route-name", "first"),
     SkipRule("x-gpustack-model-instance"),
     SkipRule("x-gpustack-route-name") >>

\* One rule over any header map, given its four operations (HeaderOps).
Rule(h, r, Get(_, _), Ins(_, _, _), App(_, _, _), Rem(_, _)) ==
  LET values == Get(h, r.source)
      copied == FoldLeft(LAMBDA m, v : App(m, r.dest, v), h, values)
  IN CASE r.op = "remove" -> Rem(h, r.source)
       [] r.op = "rename" -> Rem(copied, r.source)
       [] r.op = "backup" -> copied
       [] r.op = "dedupe" -> IF Len(values) <= 1 THEN h
                             ELSE Ins(h, r.source, IF r.mode = "first" THEN Head(values) ELSE Last(values))
       [] r.op = "skip" -> h
Transform(h, rules) == FoldLeft(LAMBDA m, r : Rule(m, r, get_all, insert, append, remove), h, rules)
OTransform(o, rules) == FoldLeft(LAMBDA m, r : Rule(m, r, OGetAll, OInsert, OAppend, ORemove), o, rules)
=============================================================================
