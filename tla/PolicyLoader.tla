---------------------------- MODULE PolicyLoader ----------------------------
(***************************************************************************)
(* PolicyHandle (hygress-gateway/src/policy_loader.rs): the live policy is *)
(* swapped from a file by the periodic mtime poll (bootstrap.rs) and by    *)
(* POST /reload on the admin port, which share one handle and take no      *)
(* common lock. Whoever edits the file is the environment; every access to *)
(* the file by a reload is a step of its own. What a document means for a  *)
(* request is PolicyMerge's subject; the index it looks up there is built  *)
(* before the swap and swapped with the document.                          *)
(***************************************************************************)
EXTENDS PolicyMerge

CONSTANTS
  Poller,       \* the task that polls the mtime every 30 seconds
  Admins,       \* POST /reload handlers that may run at the same time
  Policies,     \* well-formed policy documents, of the shape of PolicyMerge
  Names,        \* bare ingress names
  Blank,        \* a file of whitespace only
  Malformed,    \* a file that does not parse
  NoFile,       \* no file, or no mtime of one
  RacyEdits,    \* the file may change while a reload runs
  MaxEdits,     \* bound on the edits of the file
  MaxIoErrors   \* bound on failed reads of a present file

Reloaders == {Poller} \cup Admins
Contents == Policies \cup {Blank, Malformed}

ASSUME LoaderConstants ==
  /\ Poller \notin Admins
  /\ default \notin Contents \cup {NoFile}
  /\ NoFile \notin Contents \cup Nat
  /\ RacyEdits \in BOOLEAN
  /\ MaxEdits \in Nat \ {0} /\ MaxIoErrors \in Nat

\* Documents as serde makes them: names and globs are texts, rules are lists, a
\* guardrail has a fail mode, and None is neither a route policy nor a section,
\* merged or not.
WellFormed(cfg) ==
  /\ cfg.routes \in Seq({cfg.routes[i] : i \in DOMAIN cfg.routes})
  /\ \A i \in DOMAIN cfg.routes :
       LET g == cfg.global
           r == cfg.routes[i]
       IN /\ r # None /\ r.name_glob \in Seq(STRING)
          /\ r.guardrail # None => r.guardrail.static_rules \in Seq(STRING) /\ r.guardrail.fail_mode # None
          /\ g.limits # None /\ r.limits # None => merge_limits(g.limits, r.limits) # None
          /\ g.guardrail # None /\ r.guardrail # None => merge_guardrail(g.guardrail, r.guardrail) # None
          /\ LET by == or_else(Section(r.quota, "by_model_tokens"), Section(g.quota, "by_model_tokens"))
             IN by # None => [by_model_tokens |-> by] # None
  /\ cfg.global.guardrail # None => cfg.global.guardrail.static_rules \in Seq(STRING)

ASSUME DocumentShape ==
  /\ \A cfg \in Policies : WellFormed(cfg)
  /\ \A bare \in Names : bare \in Seq(STRING)

VARIABLES
  content,      \* what the path holds
  edits,        \* the file's mtime, while it is present: edits so far
  ioErrors,     \* failed reads so far
  state,        \* the live policy (ArcSwap<PolicyRuntime>)
  last_mtime,   \* the watermark of the poll
  loaded_once,
  pc,           \* where each reload is
  got,          \* what its read found
  mt,           \* the mtime it stat'ed
  result        \* what its last reload_from returned

loaderVars == <<content, edits, ioErrors, state, last_mtime, loaded_once, pc, got, mt, result>>
file == <<content, edits, ioErrors>>
inForce == <<state, last_mtime, loaded_once>>

Steps == {"idle", "compare", "is_file", "read", "store", "stat", "watermark", "loaded"}
Mtimes == 0..MaxEdits \cup {NoFile}

LoaderTypeOK ==
  /\ content \in Contents \cup {NoFile}
  /\ edits \in 0..MaxEdits
  /\ ioErrors \in 0..MaxIoErrors
  /\ state.config \in Policies \cup {default}
  /\ last_mtime \in Mtimes
  /\ loaded_once \in BOOLEAN
  /\ pc \in [Reloaders -> Steps]
  /\ got \in [Reloaders -> Contents \cup {NoFile}]
  /\ mt \in [Reloaders -> Mtimes]
  /\ result \in [Reloaders -> BOOLEAN]

-----------------------------------------------------------------------------
mtime == IF content = NoFile THEN NoFile ELSE edits

\* load_policy's parse: a missing file and a blank one are the default policy.
parsed(c) == IF c \in Policies THEN c ELSE default
parses(c) == c # Malformed

\* PolicyHandle::new: a malformed file also starts as the default. An edit
\* between its read and its stat of the file is possible.
LoaderInit ==
  /\ ioErrors = 0
  /\ \E c \in Contents \cup {NoFile} :
       /\ state = PolicyRuntime(parsed(c))
       /\ loaded_once = (c # NoFile /\ parses(c))
       /\ \/ content = c /\ edits = 0
          \/ RacyEdits /\ content \in Contents \cup {NoFile} /\ edits = 1
  /\ last_mtime = mtime
  /\ pc = [p \in Reloaders |-> "idle"]
  /\ got = [p \in Reloaders |-> NoFile]
  /\ mt = [p \in Reloaders |-> NoFile]
  /\ result = [p \in Reloaders |-> FALSE]

Goto(p, from, to) == pc[p] = from /\ pc' = [pc EXCEPT ![p] = to]

\* The observer is told what reload_from returns.
Return(p, from, ok) ==
  /\ Goto(p, from, "idle")
  /\ result' = [result EXCEPT ![p] = ok]

-----------------------------------------------------------------------------
\* poll: no file, no change; else compare its mtime with the watermark.
PollStat ==
  /\ IF mtime = NoFile
     THEN pc[Poller] = "idle" /\ UNCHANGED <<pc, mt>>
     ELSE Goto(Poller, "idle", "compare") /\ mt' = [mt EXCEPT ![Poller] = mtime]
  /\ UNCHANGED <<file, inForce, got, result>>

PollCompare ==
  /\ Goto(Poller, "compare", IF last_mtime # mt[Poller] THEN "is_file" ELSE "idle")
  /\ UNCHANGED <<file, inForce, got, mt, result>>

\* POST /reload forces a reload.
AdminReload(p) ==
  /\ Goto(p, "idle", "is_file")
  /\ UNCHANGED <<file, inForce, got, mt, result>>

IsFile_Unchecked(p) ==
  /\ Goto(p, "is_file", "read")
  /\ UNCHANGED <<file, inForce, got, mt, result>>

\* reload_from: a missing file keeps the last-known-good policy.
IsFile(p) ==
  /\ \/ content = NoFile /\ Return(p, "is_file", FALSE)
     \/ content # NoFile /\ Goto(p, "is_file", "read") /\ UNCHANGED result
  /\ UNCHANGED <<file, inForce, got, mt>>

\* A failed reload that marks the file as seen.
ReadFails_MarksSeen(p) ==
  /\ Return(p, "read", FALSE)
  /\ last_mtime' = mtime
  /\ UNCHANGED <<state, loaded_once>>

\* A failed reload keeps policy and watermark.
ReadFails(p) == Return(p, "read", FALSE) /\ UNCHANGED inForce

\* load_policy: read and parse.
Read(p) ==
  /\ got' = [got EXCEPT ![p] = content]
  /\ \/ parses(content) /\ Goto(p, "read", "store") /\ UNCHANGED <<inForce, result>>
     \/ ~parses(content) /\ ReadFails(p)
  /\ UNCHANGED <<file, mt>>

ReadIoError(p) ==
  /\ content # NoFile
  /\ ioErrors < MaxIoErrors
  /\ ioErrors' = ioErrors + 1
  /\ ReadFails(p)
  /\ UNCHANGED <<content, edits, got, mt>>

StorePolicy(p) ==
  /\ Goto(p, "store", "stat")
  /\ state' = PolicyRuntime(parsed(got[p]))
  /\ UNCHANGED <<file, last_mtime, loaded_once, got, mt, result>>

\* The file is stat'ed before the lock of the watermark is taken.
Stat(p) ==
  /\ Goto(p, "stat", "watermark")
  /\ mt' = [mt EXCEPT ![p] = mtime]
  /\ UNCHANGED <<file, inForce, got, result>>

Watermark(p) ==
  /\ Goto(p, "watermark", "loaded")
  /\ last_mtime' = mt[p]
  /\ UNCHANGED <<file, state, loaded_once, got, mt, result>>

Loaded(p) ==
  /\ Return(p, "loaded", TRUE)
  /\ loaded_once' = TRUE
  /\ UNCHANGED <<file, state, last_mtime, got, mt>>

Reload(p) ==
  IsFile(p) \/ Read(p) \/ ReadIoError(p) \/ StorePolicy(p) \/ Stat(p) \/ Watermark(p) \/ Loaded(p)

\* The file is written, replaced or removed.
Edit(c) ==
  /\ edits < MaxEdits
  /\ RacyEdits \/ \A p \in Reloaders : pc[p] = "idle"
  /\ content' = c
  /\ edits' = edits + 1
  /\ UNCHANGED <<ioErrors, inForce, pc, got, mt, result>>

LoaderNext ==
  \/ PollStat
  \/ PollCompare
  \/ \E p \in Admins : AdminReload(p)
  \/ \E p \in Reloaders : Reload(p)
  \/ \E c \in Contents \cup {NoFile} : Edit(c)

\* The interval ticks for ever, and a started reload ends: it never waits.
Fairness ==
  /\ WF_loaderVars(PollStat)
  /\ WF_loaderVars(PollCompare)
  /\ \A p \in Reloaders : WF_loaderVars(Reload(p))

LoaderSpec == LoaderInit /\ [][LoaderNext]_loaderVars /\ Fairness

-----------------------------------------------------------------------------
\* Whatever reloads happen, a request is served by the policy the document in
\* force documents for its ingress, globs and overrides read as policy_loader.rs
\* words them: the index gives what the direct merge would give, and the rules
\* that are scanned are all of the effective ones or, when one of them does not
\* compile, none.
EffectivePolicyIsDocumented ==
  \A bare \in Names :
    LET entry == merged_for(state, bare)
        doc == Documented(state.config, bare)
        bad == \E i \in DOMAIN doc.rules : doc.rules[i] \in BadRules
    IN /\ Effective(entry) = doc
       /\ entry.static_set = IF bad \/ doc.rules = << >> THEN None ELSE doc.rules

\* No silent downgrade: only a blank file that is there replaces a policy in
\* force by the all-pass default; a missing, malformed or unreadable file keeps
\* the last-known-good policy.
NoSilentDowngrade == [][state.config # default /\ state'.config = default => content = Blank]_loaderVars

\* The live policy follows the file: a file that stays at one well-formed or
\* blank content is in force in the end, however often it was malformed, missing
\* or unreadable before, and whatever admin reloads interfere.
FollowsFile ==
  \A c \in Contents \ {Malformed} :
    <>[](content = c) => <>[](state.config = parsed(c))

=============================================================================
