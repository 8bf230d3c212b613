# Hygress: TLA+ models, checks and proofs

Hygress is an AI gateway in Rust on top of Pingora. A request comes in, is
matched to a route, passes rate limits, authentication, a token budget and
guardrails, is sent to the candidates of a weighted destination group with
failover and fallback routes, streamed back, metered and reported to a usage
endpoint. A control plane keeps the route table in step with a Kubernetes-style
apiserver; a policy file is reloaded while the gateway runs.

This directory models the parts of it in which state is shared or a sequence of
steps matters, and the algorithms a request depends on (matching, translation,
body and header rewriting, usage accounting) against reference definitions.
All paths below are relative to `src/crates/`.

    tlc -workers 2 -config MCQuotaEngine_reload.cfg MCQuotaEngine   # one run
    tlapm QuotaEngineProofs.tla                                     # one proof

`PROJECT.json` lists components, runs, mutants, the map from definitions to
source lines, hazards and theorems.

## 1. Inventory

| Component | State | Operations | Interacts with | Hard part | Correct when |
|---|---|---|---|---|---|
| Token quota (`hygress-core/src/quota.rs`, `hygress-gateway/src/quota.rs`) | per key: used, est, window index, last use; per request: a guard | reserve, commit, release (Drop), evict_idle | request path takes and settles guards; the dutycycle evicts; policy gives limits | clock read before the lock, two-step commit, windows, eviction while in flight, saturation | the in-flight part belongs to live requests, budgets hold |
| Usage sink (`hygress-egress/src/usage_sink.rs`) | bounded channel, row in flight, attempt, open/closed | push, flusher, retry with backoff, close | request path pushes; metrics count drops | full channel, ambiguous POSTs, shutdown | no row is lost uncounted, none blocks a request |
| Policy loader (`hygress-gateway/src/policy_loader.rs`) | live policy with its merged index (ArcSwap), mtime watermark | poll, reload_from, POST /reload; merge, index, glob lookup | file system; every request looks its ingress up | stat/read/stat races, two reloaders; overlapping globs, sections on one level only | never all-pass by accident, follows the file, the index means what the document says |
| Request path (`hygress-gateway/src/pipe.rs`, `hygress-core/src/retry.rs`) | hop, candidate, guard, flags of the response | request_filter, failover loop, stream_back, fallback re-dispatch | all others | many early returns, each with its own accounting | counted, settled and metered once; authorized; ends |
| Preparation of the upstream request (`pipeline/`, `body.rs`, `hygress-core/src/{transform,bytes,model_mapping}.rs`, `hygress-egress/src/{ext_auth,provider}.rs`) | the prepared request, the header overlay | read body, route the model, prepare, policy actions, forward-auth, build_outbound, dial | route table, policy, `/token-auth` | hand-written JSON and multipart scanners, splices, copy-on-write headers, client headers that look like the gateway's own | only the model and stream_options change; credentials and routing headers are the gateway's |
| Response relay (`pipe.rs` stream_back, `hygress-core/src/{usage,guardrail}.rs`) | usage tail and totals, guardrail tail | feed, scan, write, flush | upstream, client, sink, quota | chunk borders anywhere, caps | the row does not depend on the chunking; what was sent never ends in a match the tail holds |
| Input guardrail (`pipe.rs` guardrail_in, `hygress-egress/src/guardrail.rs`) | verdict cache, semaphore | static scan, look up, POST, insert | verdict service, request path | check-then-insert, expiry, timeouts, fail mode | bounded, a pass is vetted, nobody waits for ever |
| Weighted round robin (`hygress-core/src/swrr.rs`, `pipeline/swrr_select.rs`) | running weight per destination of a group | order, prune on store | config snapshots, request path | one state for requests on different snapshots | shares follow the weights |
| Rate limits (`hygress-core/src/ratelimit.rs`, `hygress-gateway/src/context.rs`) | token bucket per key | check, evict | policy, request path, dutycycle | clock values out of order, change of spec, reseeding | burst plus refill bounds every window |
| Control plane sync (`hygress-adapter/src/{lib,snapshot,reconcile}.rs`) | fingerprint, failure state, live snapshot, the wake-up permit | start, watch events, poll tick, LIST pass, build, store, hooks, shutdown | apiserver, config store, bootstrap | torn passes, equal fingerprints, failures, a controller that never starts | the start is decided, the snapshot converges, no change is masked |
| Bootstrap and TLS rotation (`hygress-gateway/src/bootstrap.rs`) | bound listeners, bound TLS material | wait for snapshot, bind, watch rotation | control plane | change between bind and watch | bound to accepted material, change is surfaced |
| CRD translation (`hygress-adapter/src/translate.rs`) | none (pure) | build_config_data over every kind | control plane | later objects override, partial objects, one bad field | a fault stays within its object |
| Snapshot validation and route table (`hygress-core/src/{config,route,registry}.rs`) | the indexes of the live snapshot | sanitize, rebuild, store, match, resolve | control plane, request path | cascades and cycles of fallbacks, longest anchor, precedence, header-keyed routes | the greatest consistent set is served; no key space leaks into another |
| Metrics, stats, admin endpoints; gateway configuration | counters; plain data | read-only endpoints; environment parsing | | little state | not modelled (section 8) |

The hazards, each at its line, with the properties aimed at it, are under
`hazards` in `PROJECT.json`.

## 2. Plan

Done, in this order: quota engine, usage sink with its abstract specification,
policy loader, request path, SWRR, rate limits, control plane; proofs for the
first two and the request path; then input guardrail, usage accumulator with the
output guardrail (relay), the way from the cluster's objects to a served snapshot
(translation, validation, route table, registries), the merge of policies, what a
request becomes on its way upstream (body, headers, preparation), and the start,
watch events and shutdown of the control plane. One run per question is kept; pure algorithms
share the run of the component that uses them.

Then the proofs: the exact accounts of the quota engine and the hard limit, the
sink's records and the steps of its refinement, the masks and the hook of the
control plane, the bounds and the ages of the guardrail, the rate limiter, and the
scan of the relay; after these the policy a request gets and what a reload may do
to it, the shares of the round robin, and the snapshot that validation lets
through.

Left:

1. Composition: several `RequestPath` requests over one `QuotaEngine` and one
   `UsageSink`.
2. `RowIsChunkingIndependent` of `Relay` and the properties of `Prepare`: their
   scanners recur over the bytes of a body (section 7).

## 3. Modules

| Module | Models | State in the code | Actions |
|---|---|---|---|
| `QuotaEngine` | quota engine and guard | `counters` = the DashMap; `spec`, `widx`, `est` of a request = its `QuotaReservation`; `clk` = the last clock value it read; `policy` = the loaded spec | `Estimate` (reads the clock), `Reserve`, `SettleActual`/`SettleNone`, `Commit`, `CommitInsert` (the second step of a commit that found no counter), `Release`, `EvictIdle`, `ReloadPolicy`, `Tick` |
| `UsageDelivery` | abstract: a bounded FIFO that delivers or gives up | | `Accept`, `Refuse`, `Deliver`, `GiveUp`, `Stop` |
| `UsageSink` | sink, flusher, endpoint | `queue` = mpsc channel, `cur` and `attempt` = the flusher's locals, `drops` = calls of `on_drop` | `Push`, `Close`, `Recv`, `RecvNone`, `Post`, `Backoff`, `RuntimeDown` |
| `PolicyMerge` | merge of global and route sections, `MergedTable`, glob matching | none: operators | |
| `PolicyLoader` | `PolicyHandle` | `state` = the ArcSwap (a request looks its ingress up in the merged table made of it), `last_mtime` = watermark; a program counter per reloader | `PollStat`, `PollCompare`, `AdminReload`, `IsFile`, `Read`, `ReadIoError`, `StorePolicy`, `Stat`, `Watermark`, `Loaded`, `Edit` |
| `RequestPath` | one request through `request_filter` | locals of the handler (hop, route, candidate index, retry cap), the guard, the header written, the counters | one per stage (`RateLimitPre` ... `GuardrailIn`), `Dial`, the relay (`WriteHeader`, `StreamEnd`, `GuardrailCut`, `StreamBreaks`, `Broken`), `Fallback`, `ForwardHttp`, `ForwardTransport`, `Return` |
| `Body` | the scanners of JSON and multipart bodies, the splices, the `stream_options` injection | none: operators over sequences of symbols | |
| `Headers` | `HeaderMap`, the `OutboundHeaders` overlay, the transformer's rules | none: operators | |
| `Prepare` | what one request becomes on its way upstream | `buf` = the body read, `current` = path and headers, `prepared` = `PreparedRequest`, `asked`/`write_back` = the forward-auth exchange, `wire` = the request dialled | `ReadChunk`, `ReadTooLarge`, `ReadAborted`, `ReadEnd`, `RouteModel`, `Prepare`, `NoRoute`, `Unavailable`, `ApplyPolicy`, `AuthSkipped`, `AuthAllowed`, `AuthDenied`, `AuthUnavailable`, `Dial`, `NextCandidate`, `Redirect`, `Finish` |
| `UsageSnapshot` | the usage accumulator and `flush` | none: operators on its record | |
| `Relay` | `stream_back` over one body | `usage` = the accumulator, `buffer` = `ChunkScanner`'s tail, `read`, `sent`, `row`, `settled` | `Chunk` (any length up to `MaxChunk`), `Write`, `Break`, `End` |
| `Guardrail` | `guardrail_in` and `GuardrailClient` | `cache` = the DashMap of verdicts, a program counter and the answer of each handler | `Arrive`, `GuardrailIn`, `Lookup`, `RemoveExpired`, `Acquire`, `Serve` (the service), `Receive`, `TimesOut`, `MakeRoom`, `Insert`, `Conclude`, `Tick` |
| `Swrr` | group states, stores, snapshots | `states` = `swrr_states`; `held` = the snapshot each request loaded | `Load`, `Finish`, `OrderRoute`, `StorePrune`, `StoreSwap` |
| `RateLimit` | buckets and their clock | `entries` = the DashMap of `RateLimitEntry` | `Allow`, `Deny`, `Evict`, `Tick` (and `Observe`, which starts an observation window) |
| `ControlPlane` | controller, sync loop, bootstrap, rotation watcher | `loop`, `permit` = the controller's task and its `Notify`; `fingerprint`, `warned`, `notified` of the controller, `live` = the stored snapshot, `bound_tls`, `last_tls` | `Apply`, `Delete` (apiserver), `ControllerReady`, `ControllerFails`, `Shutdown`, `WatchEvent`, `WakeEvent`, `WakeTick`, `List`, `ListFails`, `SkipUnchanged`, `Store`, `Reject`, `Bind`, `SnapshotTimeout`, `WatcherStart`, `WatcherTick` |
| `RouteTable` | indexes and matching of routes, registry and token resolution | none: operators on a `ConfigData` | |
| `Sanitize` | `ConfigData::sanitize` | none: operators | |
| `Translate` | `build_config_data` | none: operators on a list of objects | |
| `Snapshot` | from objects to what a request reads | `objects` = the last LIST, `data` = the `ConfigData`, `live` = the stored one | `Apply` adds an object and syncs; `Offer` hands a route to the core directly |
| `MC*` | constants, symmetry sets, route tables, bodies and objects for TLC; `MCTraffic` puts the rate limits, the round robin and the relay into one run | `stage` picks the component | |
| `SumTheorems` | sums over finite sets, iterations, least numbers | none: lemmas | |
| `QuotaEngineProofs`, `RequestPathProofs`, `GuardrailProofs`, `SnapshotProofs` | theorems about the module of that name | | |
| `UsageProofs` | theorems about `UsageSink` and `Relay` | | |
| `ReloadProofs` | theorems about `ControlPlane` and `PolicyLoader` with `PolicyMerge` | | |
| `TrafficProofs` | theorems about `RateLimit` and `Swrr` | | |

`Snapshot` extends `Translate`, `Translate` extends `RouteTable` and that `Sanitize`;
`Prepare` composes `RouteTable`, `Headers` and `Body`; `Relay` extends
`UsageSnapshot`; `PolicyLoader` uses `PolicyMerge`. `RequestPath` decides which
failure moves a request on; `Prepare` lets any failure do so and looks at what
is sent.

An operator named `X_Something` that stands before `X` is a plausible wrong
version of it; `PROJECT.json` pairs each with the property that notices it.

Data is abstracted: a row, a policy, a route or a listed object is a model value
or a record of the fields the code reads; bodies, in `Prepare` and `Relay` only,
are sequences of symbols (a quote, a brace, a key, a piece of text) rather than
of bytes. The control is kept: every early return of `request_filter` is an
action or a disjunct of one. Ext-auth outcomes, limits and upstream answers are
choices.

Abstractions a reader should know:

- The usage sink and the external authenticator are present, as `bootstrap.rs`
  always builds them. The active gauge is an RAII guard and is left out.
- `QuotaEngine::gc_stale`, `RatLimiter` and `Buckets` of `ratelimit.rs`, and the
  `Value`-based rewriters of `model_mapping.rs` have no caller in the gateway and
  are left out.
- Digests (SWRR group keys, snapshot fingerprints) are injective on what they
  are computed from.
- `Swrr` models which destination is selected and the running weights, not the
  order of the candidates behind it.
- Rate-limit specs have a positive rate and burst.
- A watch event may come at any time or not at all, and the loop polls anyway;
  errors of a watcher only count and delay. Readiness and the IngressClass seed
  are one step that succeeds or ends the controller. In `ControlPlane` a managed
  kind holds one object or none; `Snapshot` has the objects themselves.
- The regex engine and serde_json are external: a path predicate is the set of
  paths it matches with the length of its literal anchor, a rule is a literal
  text, a JSON payload is its usage object. The hand-written scanners of
  `body.rs`, `bytes.rs` and `usage.rs` are modelled as they are.
- `RouteModel` and `Prepare` are one call in the code; nothing else runs between
  them, and the split only names the two halves. Header names are in lower case,
  the query string is left out.

## 4. Runs

Ten runs pass; every property of theirs has a mutant, a wrong version of a
modelled definition under which TLC finds it violated. Two runs, `relay_tail` and
`snapshot_mirror`, state what a comment of the code promises and expect the
violation TLC finds (`findings` in `PROJECT.json`).

### Quota
- `quota_reload`: three requests on one key, two window lengths swapped by a
  reload, eviction after one tick, totals up to the top of the (scaled) u64.
  `EstWithinUsed`: the in-flight part never exceeds the total. `NoLeakedEstimate`:
  what a counter holds in flight is held by guards that are still going to settle
  it. Both are upper bounds: they notice an estimate that stays behind, and not
  the reservations of other requests that a commit after a window crossing or
  over a missing counter, or a release after an eviction, takes away; those
  losses are listed below.
- `quota_exact`: one infinite window without eviction, two keys. The total is
  exactly what completed requests reported plus what unfinished ones reserved
  (`UsedIsExact`), and exceeds the hard limit only by what completed requests
  reported above their own estimate (`HardBudget`).

### Usage sink
- `sink`: every pushed row is queued, in flight, delivered, dropped or lost in
  teardown, exactly one of them (`ExactlyOnePlace`); drops are counted
  (`DropsCounted`); what counts as delivered was recorded, at most once per
  attempt (`DeliveredIsRecorded`); the sink implements `UsageDelivery` with its
  fairness, so every accepted row is resolved (`ImplementsDelivery`; pending rows
  = the one in hand, then the channel).

### Policy
- `policy_quiet`: with no edit between two steps of a reload, poll and `/reload`
  interleave freely. Only a blank file that is there turns a policy in force into
  the all-pass default (`NoSilentDowngrade`), a file that stays is in force in
  the end (`FollowsFile`), and for every ingress the merged index gives what the
  document means by the last of its globs that match and its global section
  (`EffectivePolicyIsDocumented`). An edit between the read of a reload and its
  stat, which `FollowsFile` would not survive, is outside this run and listed
  below.

### Request path
- `path`: the whole path with failover, streams that break, guardrail cuts,
  fallback links that form a cycle, and ext-auth failing open or closed. Counted
  once, settled once (committed exactly if a 2xx stream ended whole), metered
  once; every dial into a scoped route authorized on its hop under fail-closed; a
  non-idempotent request re-sent only if the route opts in; the handler ends
  (`RecordedOnce`, `ReservationSettledOnce`, `MeteredOnce`, `DialIsAuthorized`,
  `ResendIsGated`, `Terminates`).
- `prepare`: one request from its first body chunk over routing, policy,
  forward-auth, failover and a fallback hop to what is dialled, for JSON and
  multipart bodies of every shape the scanners tell apart: objects whose commas
  lead, are doubled or missing, which the scanner takes, and forms in which a
  filename is `model` or contains `name="model"`, a hit of the byte search, are
  among them. The body is the client's document but for the model and
  `stream_options` (`BodyRewrittenExactly`); the copy-on-write overlay equals the same operations
  on a plain map (`OverlayIsTransparent`); credentials and instance headers are
  the gateway's whatever the client sent (`CredentialsAreTheGateways`); the model
  a request asks for is the one it is routed by and authorized for, on the
  fallback too (`RoutedModelIsAuthorized`). Not exercised: a policy whose
  `header_add` sets the model header.
- `guardrail`: two handlers share the verdict cache and one permit while verdicts
  expire, calls time out and the service changes its mind. Calls and cache are
  bounded, the cache up to what check-then-insert allows (`CacheAndCallsBounded`);
  a request passes a closed guardrail only on a verdict that is fresh or an
  empty answer (`PassIsVetted`); nobody waits for ever (`EveryRequestAnswered`).

### Weighted round robin, rate limits, relay
- `traffic`: three components that share no state; a behaviour picks one of them.
  - Round robin: running weights sum to zero and stay within the totals over
    reloads (`WeightsBounded`); while the weights of a group stay, no destination is
    ever a whole selection ahead of its share, none is behind by more than the
    others may be ahead, each has exactly its weight after a cycle, and one of
    weight zero is never selected (`Smooth`).
  - Rate limits, one spec per key: every window is bounded by burst plus refill
    (`WindowBound`), and a client that waits for Retry-After is admitted when nothing
    was granted since (`RetryAfterHonest`).
  - Relay: every way to cut nine response bodies into chunks, also longer than the
    scanner's tail, with a break at any point. The usage row is that of one pass
    over what was received (`RowIsChunkingIndependent`), and the last `MAX_TAIL`
    symbols sent hold no text a rule matches (`TailIsClean`): a match that straddles
    chunks and fits the tail is cut.
- `relay_tail` expects a violation: `NoMatchIsRelayed`, no text that a rule no longer
  than the tail matches is sent, as `hygress-core/src/guardrail.rs:9-11` and `:95-96`
  read. A chunk longer than the tail loses its start before it is evaluated.

### Control plane, translation and validation
- `control`: when the remembered fingerprint is that of the cluster, the
  cluster's content is what is live (`NotMasked`); the failure hook fires once
  per episode (`OneHookPerEpisode`); the start is decided and, while the
  controller runs, a quiet cluster is served in the end (`Converges`); a change
  of the bound certificate after the watcher started is surfaced
  (`RotationSurfaced`; one before its first run is not, see below).
- `snapshot`: every list of up to four objects of a small cluster, and every
  hand-made snapshot of up to three routes, is translated, sanitized, stored and
  matched. What is served is the greatest consistent part
  (`LiveIsGreatestConsistent`); in a snapshot with at most one mirror, taking a bad
  route out takes no other with it and brings back only what it kept out by key or
  by link (`FaultIsContained`); a header never opens a route of another key space (`RequestsStayInTheirKeySpace`); fallbacks lead where the cluster says
  (`FallbackIsWired`); the precomputed registry index agrees with the direct
  resolver (`RegistriesResolve`); provider keys and model mappings follow the
  plugin rules (`PluginRulesAreFollowed`).
- `snapshot_mirror` expects a violation: `DroppedMirrorBlocksNoOther`, a first mirror
  dropped for another issue does not block a later one of another key, as
  `hygress-core/src/config.rs:208-209` says. The cascade runs after the choice of
  the mirror: a mirror whose fallback route is unsound is dropped too late.

### Where code and comments differ

Met while modelling. Two are the subject of the runs that expect a violation; the
properties of the other runs hold for what the code does, and where one of them
stops short of a case below, its comment or its hazard says so.

Quota, limits, policy, sink:
- `hygress-core/src/quota.rs:174`: a commit in a later window zeroes the estimates
  other requests hold, while `:140-141` says that requests settle independently.
- `hygress-core/src/quota.rs:199-201` says that a long stream is not evicted
  before its release lands; only reserve, commit and release refresh
  `last_used_ms`, so a stream longer than the idle threshold is (`:254`).
- `hygress-gateway/src/quota.rs:17-20` says that the guard of hop 0 drops when
  the fallback re-dispatch continues; it is declared before the hop loop
  (`pipe.rs:343`) and lives until the handler returns. For the same reason the
  mirror branch of `pipe.rs:2059-2061` ("unreachable in practice") is reached by
  a fallback hop that ends at the mirror.
- `pipe.rs:1170`: the consumer's bucket is keyed by the consumer alone while its
  spec comes from the route, so two routes with different specs refill it in
  turn; `hygress-core/src/ratelimit.rs:9-11` and `context.rs:398-401` read as if
  the key fixed the spec.
- `hygress-gateway/src/policy_loader.rs:209`: a file that vanishes between
  `is_file` and the read swaps in the default and reports success, against
  `:202-203`; `:229` stats the file after it was read, so an edit in between is
  recorded as seen and the poll does not load it.
- `hygress-gateway/src/policy_loader.rs:356-373`: one static rule that does not
  compile, a route's own included, turns static scanning off for that ingress,
  global rules included (documented there). A route's `ip` limit is merged but
  never read.
- `hygress-gateway/src/bootstrap.rs:658`: a bucket that its rate does not refill
  within the idle threshold is full again after an eviction.
- `hygress-gateway/src/bootstrap.rs:582-583` speaks of a shutdown grace window in
  `main` that protects the drain of the usage rows; `main` has none (`:471`).

Request path:
- `hygress-gateway/src/metrics.rs:224` describes the exhausted counter as all
  chains without a successful hop; a later hop that ends in a short circuit
  (`pipe.rs:362`) returns before it.
- `pipe.rs:826-828` explains the missing usage row of a final transport failure
  by "no upstream was reached"; an earlier candidate of the hop may have answered
  with a status that was retried.
- `pipe.rs:1849` and `hygress-gateway/src/response_pipeline.rs:11-13` say that a guardrail
  cut reports a row with completed=false; the code flushes the live accumulator.
  The cut releases the reservation although tokens were reported.
- `hygress-core/src/guardrail.rs:117-125`: a chunk longer than `max_tail` is
  scanned at its end only; the documentation (`:9-11`, `:95-96`) only asks that the
  tail hold the longest pattern (run `relay_tail`).
- `hygress-gateway/src/body.rs:347-379`: the member scanner is laxer than the
  serde_json semantics its comment (`:316-320`) claims: leading, doubled and missing
  commas are accepted and such a body is routed and spliced, which `prepare`
  covers.
- `hygress-core/src/bytes.rs:48-51`: `contains_form_field` searches the bytes of a
  part's header for `name="model"`, so a filename that contains it, or
  `filename="model"` itself, makes that part the model's and the one that is spliced.
  The test at `:284-305` pins this; `prepare` covers it.
- The mapper rewrites the
  member `model` while the router's key is configurable, and its profile and
  stream scans differ when that key is `stream` or `stream_options`.
- One candidate that does not resolve fails the whole request with 503. The
  policy's header actions run before forward-auth. The 413 inside `prepare` is
  unreachable, `read_body` enforces the same cap. A client's
  `X-GPUStack-Route-Name` passes on mirror traffic, although a comment in
  `pipeline/mod.rs` says never; the backstop `x-gpustack-original-path` equals a
  client's `x-gpustack-fallback-path`.
- `pipeline/swrr_select.rs:16-17`: a destination whose weight a reload takes away
  is selected as long as it has credit left.

Control plane and snapshot:
- `hygress-gateway/src/bootstrap.rs:773`: certificate material that changes
  between the bind and the first run of the rotation watcher is not reported.
- `hygress-core/src/config.rs:1217` speaks of a dropped-object count; issues are
  counted, and a route may have several (`:1252`).
- `hygress-core/src/config.rs:205-209`: "a first mirror that was itself dropped for
  another issue does not block a later one" holds for the issues of the object
  itself. The fallback cascade runs after the choice of the mirror, so a first mirror
  that the cascade drops does block a later sound one (run `snapshot_mirror`). The
  adapter makes no mirror with a link.
- Ties between path predicates go to the first route, ties between mirrors to the
  last. A route that is dropped still shadows a sound later duplicate of its key.
  A fallback ingress whose weights do not add up takes its sound main route down,
  one that does not parse does not. One registry with a bad type drops its whole
  McpBridge. The SWRR group key leaves out the kind of the route.

## 5. Bounds

| Run | Bounds | Why enough |
|---|---|---|
| `quota_*` | 3 requests, `MaxNow` 3, `IdleMs` 1, `U64Max` 6 (reload); `U64Max` 30, two keys (exact) | an eviction, a recreation and a third party need three requests; two window lengths (2 and 3 ticks) and a crossing need three ticks; with 6 the saturating cases occur, with 30 they do not |
| `sink` | 4 rows, channel of 2, 3 attempts (as the code) | a full channel with a row in flight and another refused |
| `policy_quiet` | 3 edits, 1 I/O error, one admin and the poller; policies with overlapping globs, a glob that backtracks, sections on one level only | remove, recreate, edit; two overlapping reloads |
| `path` | 5 routes: main, plain, two fallbacks that point at each other, mirror; up to 3 candidates | every kind of route, links that form a cycle, more candidates than tries |
| `prepare` | two models, one with a fallback; instances, providers with and without a key, a mirror; some twenty-five documents; `MaxDepth` 2, `ChunkSize` 25, body cap 60, `MaxHops` 2 | duplicate keys, nested and escaped strings, commas that lead, are doubled or missing, filenames that name the model, malformed tails, a nesting beyond the limit, a body beyond the cap, more than one read |
| `guardrail` | 2 handlers, 3 requests, 4 texts (two with one key), `MAX_CACHE_ENTRIES` 1, `max_rps` 0 (clamped to 1 permit), time to live and timeout 1 tick | a second insert past the bound, a call that outlives an entry |
| `traffic`, round robin | 2 requests, 3 snapshots | a reload needs a request on the old and one on the new snapshot; weights with a tie, a zero and a common group of two routes |
| `traffic`, rate limits | token = 3 units, `Idle` 3, `Lag` 1, `MaxNow` 7 | refills of a fraction of a token, an eviction and a reseed fit in |
| `traffic`, relay; `relay_tail` | `MAX_TAIL_BYTES` 8, `MAX_JSON_PARSE_ATTEMPTS` 3, `MaxU64` 7, `MAX_TAIL` 6, chunks up to 8 | lines and preambles on both sides of the cap, sums that saturate, a pattern across three chunks, a chunk longer than the tail |
| `control` | 2 kinds, `MaxRev` 3, `MaxFails` 2 | a torn pass needs two kinds; an outage with a failing LIST and a rejected snapshot |
| `snapshot`, `snapshot_mirror` | up to 4 objects (`MaxObjects`), up to 3 offered routes (`MaxRoutes`) | a main route with its fallback, a bridge and a plugin; a cycle of fallbacks with a chain into it |

Symmetry is used in safety runs only, on requests that the actions do not tell
apart. `CHECK_DEADLOCK FALSE` is set where the system rests: all requests ended
(`quota_exact`), all rows pushed and the flusher ended, the process exited after
the snapshot timeout, the longest list or snapshot reached.

## 6. Fairness

- Sink: every POST ends by `POST_TIMEOUT` and backoffs are short, so the flusher
  is weakly fair. Push, close and teardown are not.
- Policy: the 30 s interval keeps ticking and a reload never waits for another
  task: weak fairness on the poll and on the steps of a reload. Edits are not
  fair; their number is bounded, so the file is quiet in the end.
- Request path: weak fairness on the request's steps, which assumes that peers
  answer or fail. The relay loop itself sets no read timeout
  (`hygress-gateway/src/pipe.rs:1948`); see the hazard.
- Guardrail: strong fairness on each handler's steps, because Tokio's semaphore
  is fair to its waiters (a permit that keeps coming free is got in the end), and
  weak fairness on time, so that the timeout fires. The service owes nothing.
- Control plane: the loop polls at least about once per second, the bootstrap
  waits for nothing but it, and its wait is a timer: weak fairness on the loop,
  the bootstrap and the snapshot timeout. That the controller becomes ready, that
  an event comes and that nobody shuts it down is not assumed.

## 7. Proofs

TLAPS proves the following for all constants that satisfy the named assumptions.
Where a theorem has a further hypothesis, an `ASSUME` of the MC module makes TLC
evaluate it, so the run is an instance of the theorem.

- `QuotaEngineProofs` (assumes `QuotaConstants`: finitely many requests; limits,
  estimates and reported totals are u64 values; any window length, zero included).
  - `TypeCorrect`, `EstWithinUsedAlways`: invariant `IInv == TypeOK /\
    EstWithinUsed`. The second is inductive only together with the types: each
    update is a saturating sum or difference, and the lemmas on those say that a
    counter with est <= used becomes one again, whatever stale window, clock or
    guard is passed in.
  - `NoEstimateLeaks`: with `IInv`, `NoLeakedEstimate` is inductive as it stands.
    A sum over the guards of one counter and window changes by one term per step;
    a guard of another window is not counted, and the engine skips it too.
  - `BudgetIsExact` under `FixedBudget` (windows of length zero, which the code
    treats as one window without end; no counter idle long enough to be evicted;
    totals that cannot reach the u64 limit). Invariant `ExactInv == IInv /\ Calm
    /\ Balanced`: `Balanced` is the claim for both numbers of a counter, and
    `Calm` says that every request past its reserve still has one, without which
    a commit would insert over an account that others are part of.
  - `HardLimitHolds` under `FixedBudget` and `OneSpec`: the limit compared with is
    the one each earlier reserve was compared with. A reload that lowers it
    leaves a total above it, and the hypothesis says so.
- `SumTheorems`: a sum over a finite set is a fold, and a fact about every finite
  set needs an induction. It is done without an operator parameter: among the
  subsets that would refute the claim take one of least cardinality, and
  remove an element.
- `UsageProofs`, the sink (assumes `SinkConstants`). Invariant `TypeOK /\ Control /\
  ExactlyOnePlace /\ DropsCounted`, then `DeliveredIsRecorded`. `Control` ties the
  flusher's state to the row in hand, which conservation needs when a row moves
  from hand to a final place. `SinkImplementsQueue`: every initial state of the
  sink is one of `UsageDelivery`, every step one of its steps or a stutter (an
  attempt that fails, a backoff, a receive that only moves the head into the
  flusher's hand).
- `RequestPathProofs` (assumes `PathConstants`). Invariant `Counters /\ GuardLife
  /\ HeaderLast /\ Authorized /\ Gated`: for each program point, which of the
  counters are still zero, whether the guard is live, and what has been sent.
  From it: counted once, settled once, metered once, authorized dials, gated
  resends, and as an action property no dial after the header. A second invariant,
  `HopInv == TypeOK /\ RetryBudget /\ Dialling /\ Matched`, gives `TypeCorrect` (the
  index of the failover loop stays within the candidates) and `RetriesAreBounded`:
  up to the dial the sends of the hop are the candidates passed, and the loop
  goes on only if another candidate and another retry are left.
- `ReloadProofs`, the control plane (assumes `ControlPlaneConstants`: the kinds are a sequence,
  `Absent` is neither a body nor a revision).
  - `HookFiresOncePerEpisode`: invariant `Latch`, the flag `warned` is set exactly
    while passes fail.
  - `ShortCircuitNeverMasks`: invariant `MaskInv`. Equal fingerprints mean equal
    contents only because a revision is never used twice and nothing listed is
    newer than the counter (`Seen`); the same must be carried for the part of the
    pass that is listed while the cluster moves on (`ListedAgrees`), and for what
    is live (`LiveAgrees`).
- `GuardrailProofs` (assumes `GuardrailConstants`: finitely many handlers, at least
  one, and a text).
  - `VerdictClientIsBounded`: invariant `BoundInv`. The test of the size and the
    insert are two steps, so the size alone is not inductive: entries plus
    handlers between the two stay below the capacity plus the handlers.
  - `PassesAreVetted`, an action property: invariant `AgeInv` bounds at each stage
    the age of the answer a handler holds; the entries' age and their time left
    add up to what a tick can bring.
- `TrafficProofs`, the rate limits (assumes `RateLimitConstants`: positive rates and bursts).
  - `BucketsWellFormed`: the types, with tokens between zero and the burst,
    for times that arrive in any order within the lag.
  - `RetryAfterIsHonest`, for any specs and changes of them: invariant `RetryInv`,
    the bucket's line of refill reaches one token at the promised time.
  - `WindowIsBounded` under `SteadySpecs` (one spec for each key, which refills its
    burst within the idle threshold less twice the lag). Invariant `WindowInv`
    pays for grants and tokens out of the burst and the refill; the case without
    a bucket is what makes an eviction and the full bucket after it sound, and
    where the hypothesis on the rate is needed.
- `TrafficProofs`, the round robin (assumes `SanitizedTables`: finitely many
  snapshots and routes, weights are natural numbers with a positive total per route).
  `GroupWeightsBounded` and `SelectionsSmooth`, for any number of requests,
  snapshots and destinations. Invariant `SwrrInv == SwrrTypeOK /\ Balanced /\ Accounts`:
  `Balanced` is `WeightsBounded`, whose upper bound follows from the zero sum and
  the lower one; `Accounts` says that in a group whose weights stay, the running
  weight of a destination is its share of the selections so far less what it
  received of them. `Smooth` is then arithmetic on bounded weights.
- `ReloadProofs`, the policy (assumes `LoaderConstants` and `DocumentShape`: names
  and globs are texts, `None` is not one of the sections).
  - `PolicyServedAsDocumented`: the invariant `Whole` says that the state in force is
    the one made of some document, so no reader sees the table of one document
    with the config of another. The rest is about the operators: the two-pointer
    loop of `glob_match` decides the reference `Matches` (`GlobIsRight`, from a
    loop invariant over its steps: a match of the rest, or one that gives the last
    star more, exists exactly if the glob matches), the prefix index finds the last matching glob
    (`IndexIsRight`), and a merged section is the document's (`MergeIsRight`).
  - `DowngradeNeedsBlankOrGone`, an action property, for edits at any moment:
    a policy in force turns into the default only by a blank file or one that is
    gone after the `is_file` test. Invariant `ReadParsed`.
  - `NoSilentDowngradeBetweenEdits` under `~RacyEdits` (no edit between two steps of a
    reload; the other case is the divergence of section 4). Invariant `ReadCurrent`
    in addition: what a reload has read is what the file holds.
- `SnapshotProofs` (assumes `SnapshotConstants`: the bounds and the size of the port
  range are numbers; `ObjectShape`: what serde makes of an object, lists where the
  schema has lists, a domain of texts and a port, and `None` apart from these), for
  any objects, routes and paths.
  - `AcceptedGreatestConsistent`: the cascade is an iteration whose sets shrink; it
    is at rest after as many rounds as there are routes, and every closed set of
    routes survives each round. What is stored keeps the links, keys and
    predicates of the routes it was selected from.
  - `FaultsContained`, for snapshots with at most one mirror: the passes before and
    after a route is taken out are compared one by one over the renumbering that
    its removal makes.
  - `KeySpaceKept`, `FallbacksWired`: invariant `SnapshotInv`, the snapshot of a
    listed cluster is what `build_config_data` makes of it, and a lemma for each
    kind of route that it makes.
  - `AcceptedRegistriesResolve`, `PluginRulesFollowed`: invariant `SectionsInv`, the
    registries, proxies and tokens are those of the objects also after routes were
    handed over. A list of lists is flattened in order (`FlatRows`, by induction on
    the number of lists), so every registry, token and mapping pair is traced to
    the bridge or rule it was made from, and the first entry for a service to the
    first rule for it (`LeastOfImage`): filters, flattening and the cut of later
    pairs keep the order of the rules.
- `UsageProofs`, the relay (assumes `RelayConstants`: a positive tail and chunk
  bound, bodies and rules are texts, no rule is empty). `SentTailIsClean`, for
  chunks of any length. Invariant `ScanInv`: the scanner's buffer is the end of
  what was read, cut to the tail, and holds no match while the relay goes on, and
  neither does the tail that ends at the last symbol sent. The theorem says nothing of text that a chunk longer
  than the tail carries before its last `MAX_TAIL` bytes; `relay_tail` shows that
  such text may match.

The type invariants of all components with theorems (`TypeCorrect`,
`BucketsWellFormed`, `LoaderTypeCorrect`, and as a part of their invariants those of
`Swrr` and `Snapshot`), `NoDialAfterHeader`, `RetryBudget` and
`DowngradeNeedsBlankOrGone` are proved only; no run repeats them.

Only model-checked:

- liveness (`FollowsFile`, `Terminates`, `EveryRequestAnswered`, `Converges`,
  `RotationSurfaced`, the fair part of `ImplementsDelivery`), which is out of the
  prover's reach;
- `RowIsChunkingIndependent` of `Relay` and the properties of `Prepare`: the scanners
  of `UsageSnapshot`, `Body` and `Headers` are recursive operators over symbols,
  and what these compute for every body needs induction over data.

## 8. Not modelled

- Metrics, stats and admin endpoints: counters and read-only answers. The
  counters a property is about are part of `RequestPath` and `UsageSink`;
  `POST /reload` is part of `PolicyLoader`.
- The gateway's configuration from the environment, credentials and PEM files:
  read once at the start, kept as plain data.
- The object the IngressClass seed writes: nothing in the gateway reads it.
- The copy of response headers and the error pages; a write error while a final
  answer is forwarded (`ForwardHttp`).
- The construction of the HTTP clients and the derivation of the gateway token:
  no state. Regex engine and serde_json: external.
