---------------------------- MODULE ControlPlane ----------------------------
(***************************************************************************)
(* The control plane: Controller::run and sync_once                        *)
(* (hygress-adapter/src/lib.rs), build_snapshot (snapshot.rs), the start   *)
(* of the data plane and the TLS rotation watcher                          *)
(* (hygress-gateway/src/bootstrap.rs).  The apiserver is external: objects *)
(* change between the LISTs of one pass, and a LIST may fail.  A managed   *)
(* kind holds one object or none; translation and the build of the route   *)
(* table are abstracted to the listed bodies and to whether they are       *)
(* accepted.                                                               *)
(***************************************************************************)
EXTENDS Naturals, Sequences, FiniteSets

CONSTANTS
  Kinds,     \* the managed kinds in the order build_snapshot lists them
  Bodies,    \* kind -> the contents its object may have
  Invalid,   \* contents that make the snapshot structurally invalid
  ZeroRv,    \* kinds whose objects may lack a usable resourceVersion
  TlsKind,   \* the kind that carries the TLS material
  MaxRev,    \* bound on the changes of the cluster
  MaxFails,  \* bound on the failing LISTs
  Absent, NoFingerprint

Kind == {Kinds[i] : i \in DOMAIN Kinds}

ASSUME ControlPlaneConstants ==
  /\ Kinds \in Seq(Kind)
  /\ TlsKind \in Kind /\ ZeroRv \subseteq Kind
  /\ Absent \notin UNION {Bodies[k] : k \in Kind} /\ Absent \notin Nat
  /\ MaxRev \in Nat /\ MaxFails \in Nat

VARIABLES
  cluster,      \* kind -> Absent or [rv, body]
  rev,          \* the apiserver's revision counter
  fails,        \* LISTs failed so far
  loop,         \* Controller::run: "connecting" | "running" | "ended"
  permit,       \* a stored wake-up: the permit of the Notify the watchers share
  listed,       \* the kinds listed in the running pass, or << >> when idle
  pass,         \* "idle" or "listing"
  fingerprint,  \* last_fingerprint: kind -> Absent or rv
  live,         \* the stored snapshot: kind -> Absent or body
  warned,       \* sync_failure_warned
  notified,     \* ready_notified (and the permit of the Notify)
  boot,         \* "waiting" | "bound" | "watching" | "failed"
  bound_tls,    \* the TLS material the listener was bound with
  last_tls,     \* the watcher's last
  alerted,      \* the watcher asked for a restart
  failing,      \* ghost: the last finished pass failed
  hooks         \* ghost: on_sync_failure calls since the last good pass

sync == <<loop, permit, listed, pass, fingerprint, live, warned, notified, failing, hooks>>
start == <<boot, bound_tls, last_tls, alerted>>
vars == <<cluster, rev, fails, sync, start>>

Object(k) == [rv : 0..MaxRev, body : Bodies[k]]

TypeOK ==
  /\ \A k \in Kind : cluster[k] \in Object(k) \cup {Absent}
  /\ rev \in 0..MaxRev /\ fails \in 0..MaxFails
  /\ loop \in {"connecting", "running", "ended"}
  /\ pass \in {"idle", "listing"} /\ Len(listed) <= Len(Kinds)
  /\ pass = "idle" => listed = << >>
  /\ boot \in {"waiting", "bound", "watching", "failed"}
  /\ {permit, warned, notified, alerted, failing} \subseteq BOOLEAN
  /\ hooks \in Nat

(* ------------------------------ snapshots ------------------------------ *)

\* What a LIST pass yields, indexed by kind.
Listing == [k \in Kind |-> listed[CHOOSE i \in DOMAIN Kinds : Kinds[i] = k]]

\* fingerprint_of, and to_object with build_config_data.
fingerprint_of(o) == IF o = Absent THEN Absent ELSE o.rv
Fingerprint(objs) == [k \in Kind |-> fingerprint_of(objs[k])]
Content(objs) == [k \in Kind |-> IF objs[k] = Absent THEN Absent ELSE objs[k].body]

\* The short-circuit of build_snapshot: nothing changed, and every object has a
\* resourceVersion to tell by (mutant: not asked for).
Unchanged_TrustsZero(fp) == fp = fingerprint
Unchanged(fp) == fp = fingerprint /\ \A k \in Kind : fp[k] # 0

\* RouteTable::rebuild fails.
Rejected(config) == \E k \in Kind : config[k] \in Invalid

Init ==
  /\ cluster \in [Kind -> {Absent}]
  /\ rev = 0 /\ fails = 0
  /\ loop = "connecting" /\ permit = FALSE
  /\ listed = << >> /\ pass = "idle"
  /\ fingerprint = NoFingerprint
  /\ live = [k \in Kind |-> Absent]
  /\ warned = FALSE /\ notified = FALSE
  /\ boot = "waiting"
  /\ bound_tls = Absent /\ last_tls = Absent /\ alerted = FALSE
  /\ failing = FALSE /\ hooks = 0

(* ------------------------ the apiserver (external) --------------------- *)

Revisions(k) == {rev + 1} \cup IF k \in ZeroRv THEN {0} ELSE {}

Apply(k) ==
  /\ rev < MaxRev
  /\ rev' = rev + 1
  /\ \E b \in Bodies[k], rv \in Revisions(k) :
       cluster' = [cluster EXCEPT ![k] = [rv |-> rv, body |-> b]]
  /\ UNCHANGED <<fails, sync, start>>

Delete(k) ==
  /\ rev < MaxRev /\ cluster[k] # Absent
  /\ rev' = rev + 1
  /\ cluster' = [cluster EXCEPT ![k] = Absent]
  /\ UNCHANGED <<fails, sync, start>>

(* --------------------------- the sync loop ----------------------------- *)

Running == loop = "running" /\ boot # "failed"

\* A pass of sync_once starts.
Begin ==
  /\ pass' = "listing" /\ listed' = << >>
  /\ UNCHANGED <<cluster, rev, fails, fingerprint, live, warned, notified, failing, hooks, start>>

\* Connected, the discovery answered within its budget and the best-effort seed
\* is done, whatever came of it: the first pass starts before the watchers do.
ControllerReady ==
  /\ loop = "connecting" /\ boot # "failed"
  /\ loop' = "running"
  /\ Begin /\ UNCHANGED permit

\* No connection, or no answer within the budget: run returns without `ready`.
ControllerFails ==
  /\ loop = "connecting" /\ boot # "failed"
  /\ loop' = "ended"
  /\ UNCHANGED <<cluster, rev, fails, permit, listed, pass, fingerprint, live, warned, notified,
                 failing, hooks, start>>

\* A watcher delivers an event, or its stream ends: notify_one stores a permit,
\* during a pass too. A watch may fail for good and deliver nothing.
WatchEvent ==
  /\ Running /\ ~permit
  /\ permit' = TRUE
  /\ UNCHANGED <<cluster, rev, fails, loop, listed, pass, fingerprint, live, warned, notified,
                 failing, hooks, start>>

\* The loop wakes by a permit or by the poll tick, which leaves the permit.
WakeEvent ==
  /\ Running /\ pass = "idle" /\ permit
  /\ permit' = FALSE
  /\ Begin /\ UNCHANGED loop
WakeTick ==
  /\ Running /\ pass = "idle"
  /\ Begin /\ UNCHANGED <<loop, permit>>

\* Shutdown is noticed between two passes; the watchers are aborted.
Shutdown ==
  /\ Running /\ pass = "idle"
  /\ loop' = "ended" /\ permit' = FALSE
  /\ UNCHANGED <<cluster, rev, fails, listed, pass, fingerprint, live, warned, notified,
                 failing, hooks, start>>

\* One LIST of build_snapshot.
List ==
  /\ Running /\ pass = "listing" /\ Len(listed) < Len(Kinds)
  /\ listed' = Append(listed, cluster[Kinds[Len(listed) + 1]])
  /\ UNCHANGED <<cluster, rev, fails, loop, permit, pass, fingerprint, live, warned, notified,
                 failing, hooks, start>>

\* A pass ends in failure: one warning and one hook for each episode.
Failed ==
  /\ hooks' = IF warned THEN hooks ELSE hooks + 1
  /\ warned' = TRUE
  /\ failing' = TRUE
  /\ pass' = "idle" /\ listed' = << >>

\* A pass ends well: the latch is cleared (mutant: it is not).
Succeeded_KeepsLatch ==
  /\ UNCHANGED warned
  /\ hooks' = 0 /\ failing' = FALSE
  /\ pass' = "idle" /\ listed' = << >>
Succeeded ==
  /\ warned' = FALSE
  /\ hooks' = 0 /\ failing' = FALSE
  /\ pass' = "idle" /\ listed' = << >>

\* A LIST fails: the whole pass is given up, snapshot and fingerprint stay.
ListFails ==
  /\ Running /\ pass = "listing" /\ Len(listed) < Len(Kinds)
  /\ fails < MaxFails
  /\ fails' = fails + 1
  /\ Failed
  /\ UNCHANGED <<cluster, rev, loop, permit, fingerprint, live, notified, start>>

Listed == Running /\ pass = "listing" /\ Len(listed) = Len(Kinds)

SkipUnchanged ==
  /\ Listed
  /\ Unchanged(Fingerprint(Listing))
  /\ Succeeded
  /\ UNCHANGED <<cluster, rev, fails, loop, permit, fingerprint, live, notified, start>>

\* A stored snapshot advances the fingerprint and signals ready the first time.
Store ==
  /\ Listed
  /\ ~Unchanged(Fingerprint(Listing)) /\ ~Rejected(Content(Listing))
  /\ live' = Content(Listing)
  /\ fingerprint' = Fingerprint(Listing)
  /\ notified' = TRUE
  /\ Succeeded
  /\ UNCHANGED <<cluster, rev, fails, loop, permit, start>>

\* A rejected one leaves the snapshot and the fingerprint (mutant: the
\* fingerprint advances).
Reject_Advances ==
  /\ Listed
  /\ ~Unchanged(Fingerprint(Listing)) /\ Rejected(Content(Listing))
  /\ fingerprint' = Fingerprint(Listing)
  /\ Failed
  /\ UNCHANGED <<cluster, rev, fails, loop, permit, live, notified, start>>
Reject ==
  /\ Listed
  /\ ~Unchanged(Fingerprint(Listing)) /\ Rejected(Content(Listing))
  /\ Failed
  /\ UNCHANGED <<cluster, rev, fails, loop, permit, fingerprint, live, notified, start>>

(* ------------------------ start of the data plane ---------------------- *)

\* run step 6: attach_data_plane binds the listener with the certificate of the
\* snapshot it loads.
Bind ==
  /\ boot = "waiting" /\ notified
  /\ boot' = "bound"
  /\ bound_tls' = live[TlsKind]
  /\ UNCHANGED <<cluster, rev, fails, sync, last_tls, alerted>>

\* run step 5: no first snapshot in time, the process exits.
SnapshotTimeout ==
  /\ boot = "waiting" /\ ~notified
  /\ boot' = "failed"
  /\ UNCHANGED <<cluster, rev, fails, sync, bound_tls, last_tls, alerted>>

\* The rotation watcher loads the snapshot when its task first runs.
WatcherStart ==
  /\ boot = "bound"
  /\ boot' = "watching"
  /\ last_tls' = live[TlsKind]
  /\ UNCHANGED <<cluster, rev, fails, sync, bound_tls, alerted>>

\* Every 60 s it compares (mutant: it takes the new material over silently when
\* there was none before).
WatcherTick_FirstIsFree ==
  /\ boot = "watching" /\ live[TlsKind] # last_tls
  /\ last_tls' = live[TlsKind]
  /\ alerted' = (alerted \/ last_tls # Absent)
  /\ UNCHANGED <<cluster, rev, fails, sync, boot, bound_tls>>
WatcherTick ==
  /\ boot = "watching" /\ live[TlsKind] # last_tls
  /\ last_tls' = live[TlsKind]
  /\ alerted' = TRUE
  /\ UNCHANGED <<cluster, rev, fails, sync, boot, bound_tls>>

(* ---------------------------- specification ---------------------------- *)

SyncStep == WakeTick \/ List \/ ListFails \/ SkipUnchanged \/ Store \/ Reject
BootStep == Bind \/ WatcherStart \/ WatcherTick

Next ==
  \/ \E k \in Kind : Apply(k) \/ Delete(k)
  \/ ControllerReady \/ ControllerFails \/ Shutdown
  \/ WatchEvent \/ WakeEvent \/ SyncStep
  \/ BootStep \/ SnapshotTimeout

Spec == Init /\ [][Next]_vars

\* The loop wakes at least at every poll tick and its passes end; the start
\* sequence, its timeout and the rotation watcher's interval proceed on a runtime
\* that keeps running. The cluster and its watches are under no obligation, and
\* the controller may never get as far as its first pass.
FairSpec ==
  Spec /\ WF_vars(SyncStep) /\ WF_vars(BootStep) /\ WF_vars(SnapshotTimeout)

(* ------------------------------ properties ----------------------------- *)

\* The short-circuit never hides a change: when the remembered fingerprint is
\* that of the cluster as it is, what is live is what the cluster holds,
\* although a pass lists the kinds one after another while they change
\* (sync_once advances the fingerprint only with a successful store, R-2).
NotMasked ==
  fingerprint # NoFingerprint /\ Unchanged(Fingerprint(cluster))
    => live = Content(cluster)

\* on_sync_failure fires exactly once for each episode of failing passes,
\* whether LISTs fail, snapshots are rejected or both alternate (lib.rs G1/O4).
OneHookPerEpisode == hooks = (IF failing THEN 1 ELSE 0)

\* Once the cluster no longer changes, the live snapshot becomes its content, or
\* stays what it was if that is rejected, while the loop runs; failed LISTs, torn
\* passes, earlier rejections and watches that deliver nothing only delay it. And
\* the start is decided: the listeners are bound, on a stored snapshot, or the
\* process gives up, even if the controller ended before it (fail fast, not hang).
Converges ==
  /\ <>[](Running /\ ~Rejected(Content(cluster)) => live = Content(cluster))
  /\ <>(boot = "failed" \/ (boot # "waiting" /\ fingerprint # NoFingerprint))

\* R-11: when the TLS material of the snapshot is no longer what the listener
\* was bound with, the operator is told that a restart is required, unless the
\* old material comes back first; provided the watcher started from the bound
\* material. (It starts from the snapshot it finds: a change between the bind
\* and its first run is taken for what was bound and is not surfaced.)
RotationSurfaced ==
  [](boot = "watching" /\ last_tls = bound_tls /\ live[TlsKind] # bound_tls
       => <>(alerted \/ live[TlsKind] = bound_tls))

=============================================================================
