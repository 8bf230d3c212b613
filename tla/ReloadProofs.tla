---------------------------- MODULE ReloadProofs ----------------------------
(***************************************************************************)
(* How configuration reaches the gateway, for any documents, objects and   *)
(* contents and any number of changes, reloads and failures. The sync loop *)
(* of ControlPlane: its short-circuit and its failure latch. The policy    *)
(* file of PolicyLoader: the glob loop computes what a glob means, the     *)
(* index serves what the document says, and which reloads can put the      *)
(* default in force.                                                       *)
(***************************************************************************)
EXTENDS ControlPlane, PolicyLoader, SumTheorems

(* ---------------------------- the latch -------------------------------- *)

\* sync_failure_warned says what the ghost says: the last finished pass failed.
Latch == failing \in BOOLEAN /\ warned = failing /\ OneHookPerEpisode

LEMMA LatchStep == Latch /\ [Next]_vars => Latch'
<1> SUFFICES ASSUME Latch, [Next]_vars PROVE Latch'
  OBVIOUS
<1>1. CASE ListFails \/ Reject
  <2>1. Failed
    BY <1>1 DEF ListFails, Reject
  <2>2. CASE failing
    <3>1. warned /\ hooks = 1
      BY <2>2 DEF Latch, OneHookPerEpisode
    <3> QED BY <2>1, <3>1 DEF Failed, Latch, OneHookPerEpisode
  <2>3. CASE ~failing
    <3>1. ~warned /\ hooks = 0
      BY <2>3 DEF Latch, OneHookPerEpisode
    <3>2. hooks' = 1
      BY <2>1, <3>1 DEF Failed
    <3> QED BY <2>1, <3>2 DEF Failed, Latch, OneHookPerEpisode
  <2> QED BY <2>2, <2>3
<1>2. CASE SkipUnchanged \/ Store
  BY <1>2 DEF SkipUnchanged, Store, Succeeded, Latch, OneHookPerEpisode
<1>3. CASE UNCHANGED <<warned, failing, hooks>>
  BY <1>3 DEF Latch, OneHookPerEpisode
<1>4. CASE \/ \E k \in Kind : Apply(k) \/ Delete(k)
           \/ ControllerReady \/ ControllerFails \/ Shutdown
           \/ WatchEvent \/ WakeEvent \/ WakeTick \/ List
           \/ BootStep \/ SnapshotTimeout \/ UNCHANGED vars
  <2>1. UNCHANGED <<warned, failing, hooks>>
    BY <1>4 DEF Apply, Delete, ControllerReady, ControllerFails, Shutdown, WatchEvent, WakeEvent,
                WakeTick, List, BootStep, Bind, WatcherStart, WatcherTick, SnapshotTimeout,
                Begin, sync, vars
  <2> QED BY <1>3, <2>1
<1> QED BY <1>1, <1>2, <1>4 DEF Next, SyncStep

\* The failure hook fires exactly once for each episode of failing passes,
\* whatever the reasons of the failures and however they alternate.
THEOREM HookFiresOncePerEpisode == Spec => []OneHookPerEpisode
<1>1. Init => Latch
  BY DEF Init, Latch, OneHookPerEpisode
<1>2. Latch => OneHookPerEpisode
  BY DEF Latch
<1> QED BY <1>1, <1>2, LatchStep, PTL DEF Spec

(* ------------------------------- types --------------------------------- *)

ClusterTypes ==
  /\ DOMAIN cluster = Kind
  /\ \A k \in Kind : cluster[k] \in Object(k) \cup {Absent}
  /\ rev \in 0..MaxRev /\ fails \in 0..MaxFails

LoopTypes ==
  /\ loop \in {"connecting", "running", "ended"}
  /\ pass \in {"idle", "listing"} /\ listed \in Seq({Absent} \cup UNION {Object(k) : k \in Kind})
  /\ Len(listed) <= Len(Kinds)
  /\ pass = "idle" => listed = << >>
  /\ boot \in {"waiting", "bound", "watching", "failed"}
  /\ hooks \in Nat

Flags == {permit, warned, notified, alerted, failing} \subseteq BOOLEAN

LEMMA FlagsStep == Flags /\ [Next]_vars => Flags'
  BY Zenon DEF Flags, Next, SyncStep, BootStep, Apply, Delete, ControllerReady, ControllerFails, Shutdown,
         WatchEvent, WakeEvent, WakeTick, List, ListFails, SkipUnchanged, Store, Reject, Bind,
         SnapshotTimeout, WatcherStart, WatcherTick, Begin, Failed, Succeeded, sync, start, vars

LEMMA ClusterTypesStep == ClusterTypes /\ [Next]_vars => ClusterTypes'
<1> SUFFICES ASSUME ClusterTypes, [Next]_vars PROVE ClusterTypes'
  OBVIOUS
<1>1. CASE UNCHANGED <<cluster, rev, fails>>
  BY <1>1 DEF ClusterTypes, Object
<1>2. ASSUME NEW k \in Kind, Apply(k) PROVE ClusterTypes'
  <2>1. PICK b \in Bodies[k], rv \in Revisions(k) : cluster' = [cluster EXCEPT ![k] = [rv |-> rv, body |-> b]]
    BY <1>2 DEF Apply
  <2>2. rv \in 0..MaxRev /\ rev' \in 0..MaxRev /\ UNCHANGED fails
    BY <1>2, ControlPlaneConstants DEF Apply, Revisions, ClusterTypes
  <2>3. [rv |-> rv, body |-> b] \in Object(k)
    BY <2>2 DEF Object
  <2>4. \A j \in Kind : cluster'[j] \in Object(j) \cup {Absent}
    BY <2>1, <2>3 DEF ClusterTypes
  <2> QED BY <2>1, <2>2, <2>4 DEF ClusterTypes, Object
<1>3. ASSUME NEW k \in Kind, Delete(k) PROVE ClusterTypes'
  BY <1>3, ControlPlaneConstants DEF Delete, ClusterTypes, Object
<1>4. CASE ListFails
  BY <1>4, ControlPlaneConstants DEF ListFails, ClusterTypes, Object
<1>5. CASE \/ ControllerReady \/ ControllerFails \/ Shutdown \/ WatchEvent \/ WakeEvent \/ WakeTick \/ List
           \/ SkipUnchanged \/ Store \/ Reject \/ BootStep \/ SnapshotTimeout \/ UNCHANGED vars
  BY <1>1, <1>5 DEF ControllerReady, ControllerFails, Shutdown, WatchEvent, WakeEvent, WakeTick, List,
            SkipUnchanged, Store, Reject, BootStep, Bind, WatcherStart, WatcherTick, SnapshotTimeout, Begin, vars
<1> QED BY <1>2, <1>3, <1>4, <1>5 DEF Next, SyncStep

LEMMA LoopTypesStep == ClusterTypes /\ LoopTypes /\ [Next]_vars => LoopTypes'
<1> SUFFICES ASSUME ClusterTypes, LoopTypes, [Next]_vars PROVE LoopTypes'
  OBVIOUS
<1>1. Len(Kinds) \in Nat /\ Len(<< >>) = 0 /\ Kinds \in Seq(Kind)
      /\ << >> \in Seq({Absent} \cup UNION {Object(k) : k \in Kind})
  BY ControlPlaneConstants
<1>2. CASE \/ \E k \in Kind : Apply(k) \/ Delete(k)
           \/ UNCHANGED vars
  BY <1>2 DEF Apply, Delete, sync, start, vars, LoopTypes, Object
<1>3. CASE List
  <2>1. Kinds[Len(listed) + 1] \in Kind
    <3>1. Len(listed) + 1 \in 1..Len(Kinds)
      BY <1>1, <1>3 DEF List, LoopTypes
    <3>2. DOMAIN Kinds = 1..Len(Kinds)
      BY <1>1
    <3> QED BY <3>1, <3>2 DEF Kind
  <2>2. cluster[Kinds[Len(listed) + 1]] \in {Absent} \cup UNION {Object(k) : k \in Kind}
    BY <2>1 DEF ClusterTypes
  <2>3. /\ listed' \in Seq({Absent} \cup UNION {Object(k) : k \in Kind})
        /\ Len(listed') = Len(listed) + 1
    BY <1>3, <2>2 DEF List, LoopTypes
  <2>4. Len(listed') <= Len(Kinds)
    BY <1>1, <1>3, <2>3 DEF List, LoopTypes
  <2> QED BY <1>3, <2>3, <2>4 DEF List, LoopTypes, start, Object
<1>4. CASE listed' = << >> /\ pass' \in {"idle", "listing"} /\ hooks' \in {0, hooks, hooks + 1}
           /\ loop' \in {loop, "running"} /\ UNCHANGED boot
  BY <1>1, <1>4 DEF LoopTypes, Object
<1>5. CASE ControllerReady \/ WakeEvent \/ WakeTick \/ ListFails \/ SkipUnchanged \/ Store \/ Reject
  BY <1>4, <1>5 DEF ControllerReady, WakeEvent, WakeTick, Begin, ListFails, SkipUnchanged, Store, Reject,
                    Failed, Succeeded, start
<1>6. CASE ControllerFails \/ Shutdown \/ WatchEvent
  BY <1>6 DEF ControllerFails, Shutdown, WatchEvent, LoopTypes, start, Object
<1>7. CASE BootStep \/ SnapshotTimeout
  BY <1>7 DEF BootStep, Bind, WatcherStart, WatcherTick, SnapshotTimeout, LoopTypes, sync, Object
<1> QED BY <1>2, <1>3, <1>5, <1>6, <1>7 DEF Next, SyncStep

\* A LIST pass never lists more than the kinds there are, and between passes nothing
\* of one is left, whatever fails and whoever shuts the controller down.
THEOREM TypeCorrect == Spec => []TypeOK
<1>1. Init => ClusterTypes /\ LoopTypes
  <2>1. Len(Kinds) \in Nat /\ Len(<< >>) = 0
        /\ << >> \in Seq({Absent} \cup UNION {Object(k) : k \in Kind})
    BY ControlPlaneConstants
  <2> QED BY <2>1, ControlPlaneConstants DEF Init, ClusterTypes, LoopTypes
<1>2. Init => Flags
  BY Zenon DEF Init, Flags
<1>3. ClusterTypes /\ LoopTypes /\ Flags => TypeOK
  BY DEF ClusterTypes, LoopTypes, Flags, TypeOK
<1> QED BY <1>1, <1>2, <1>3, ClusterTypesStep, LoopTypesStep, FlagsStep, PTL DEF Spec

(* ------------------------- the short-circuit --------------------------- *)

\* An object as a LIST returns it, no newer than the apiserver's revision.
Objects == {Absent} \cup UNION {[rv : Nat, body : Bodies[k]] : k \in Kind}
KnownObject(o, k) == o = Absent \/ (o \in [rv : 0..rev, body : Bodies[k]] /\ rev \in Nat)

\* A revision identifies a content: what was seen with the revision rv and the
\* content b agrees with the object o. Revision zero identifies nothing.
SameContent(rv, b, o) == o # Absent /\ rv = o.rv /\ rv # 0 => b = o.body

Seen == /\ rev \in Nat
        /\ DOMAIN cluster = Kind /\ \A k \in Kind : KnownObject(cluster[k], k)
        /\ listed \in Seq(Objects) /\ Len(listed) <= Len(Kinds)
        /\ \A i \in 1..Len(listed) : KnownObject(listed[i], Kinds[i])
        /\ live = [k \in Kind |-> live[k]]

\* What is listed agrees with the cluster as it is now ...
ListedAgrees ==
  \A i \in 1..Len(listed) :
    listed[i] # Absent => SameContent(listed[i].rv, listed[i].body, cluster[Kinds[i]])

\* ... and what is live, under the fingerprint it was stored with, agrees with
\* both: with the cluster, and with the lists of the running pass.
LiveAgrees ==
  fingerprint # NoFingerprint =>
    \A k \in Kind :
      /\ fingerprint[k] \in 0..rev \cup {Absent}
      /\ fingerprint[k] = Absent => live[k] = Absent
      /\ SameContent(fingerprint[k], live[k], cluster[k])
      /\ \A i \in 1..Len(listed) :
           Kinds[i] = k => SameContent(fingerprint[k], live[k], listed[i])

MaskInv == Seen /\ ListedAgrees /\ LiveAgrees

LEMMA KindOfIndex == \A i \in 1..Len(Kinds) : Kinds[i] \in Kind
  BY ControlPlaneConstants DEF Kind

LEMMA IndexOfKind ==
  ASSUME NEW k \in Kind
  PROVE  /\ (CHOOSE i \in DOMAIN Kinds : Kinds[i] = k) \in 1..Len(Kinds)
         /\ Kinds[CHOOSE i \in DOMAIN Kinds : Kinds[i] = k] = k
<1>1. \E i \in DOMAIN Kinds : Kinds[i] = k
  BY DEF Kind
<1>2. DOMAIN Kinds = 1..Len(Kinds)
  BY ControlPlaneConstants
<1> QED BY <1>1, <1>2

LEMMA KnownIsObject == \A k \in Kind : \A o : KnownObject(o, k) => o \in Objects
<1> SUFFICES ASSUME NEW k \in Kind, NEW o \in [rv : 0..rev, body : Bodies[k]], rev \in Nat
             PROVE  o \in [rv : Nat, body : Bodies[k]]
  BY DEF KnownObject, Objects
<1> QED OBVIOUS

LEMMA InitMaskInv == Init => MaskInv
  BY ControlPlaneConstants DEF Init, MaskInv, Seen, ListedAgrees, LiveAgrees, KnownObject

\* The cluster changes: the new object has a revision nobody has seen, or none.
LEMMA ChangeMaskInv ==
  ASSUME MaskInv, NEW k \in Kind, Apply(k) \/ Delete(k)
  PROVE  MaskInv'
<1>1. /\ rev \in Nat /\ rev' = rev + 1
      /\ UNCHANGED <<listed, fingerprint, live>>
  BY DEF Apply, Delete, sync, MaskInv, Seen
<1>2. PICK o : /\ cluster' = [cluster EXCEPT ![k] = o]
               /\ o = Absent \/ (o \in [rv : {0, rev + 1}, body : Bodies[k]])
  <2>1. CASE Delete(k)
    BY <2>1 DEF Delete
  <2>2. CASE Apply(k)
    <3>1. PICK b \in Bodies[k], rv \in Revisions(k) : cluster' = [cluster EXCEPT ![k] = [rv |-> rv, body |-> b]]
      BY <2>2 DEF Apply
    <3>2. rv \in {0, rev + 1}
      BY DEF Revisions
    <3>3. [rv |-> rv, body |-> b] \in [rv : {0, rev + 1}, body : Bodies[k]]
      BY <3>2
    <3> QED BY <3>1, <3>3
  <2> QED BY <2>1, <2>2
<1>3. DOMAIN cluster' = Kind /\ cluster'[k] = o /\ \A j \in Kind : j # k => cluster'[j] = cluster[j]
  BY <1>2 DEF MaskInv, Seen
<1>4. \A x, j : KnownObject(x, j) => KnownObject(x, j)'
  BY <1>1 DEF KnownObject
<1>5. KnownObject(o, k)'
  BY <1>1, <1>2 DEF KnownObject
<1>6. Seen'
  BY <1>1, <1>3, <1>4, <1>5 DEF MaskInv, Seen
<1>7. \A rv \in 0..rev \cup {Absent} : \A b : SameContent(rv, b, o)
  BY <1>1, <1>2, ControlPlaneConstants DEF SameContent
<1>8. ListedAgrees'
  <2> SUFFICES ASSUME NEW i \in 1..Len(listed), listed[i] # Absent
               PROVE  SameContent(listed[i].rv, listed[i].body, cluster'[Kinds[i]])
    BY <1>1 DEF ListedAgrees, SameContent
  <2>1. listed[i].rv \in 0..rev /\ i \in 1..Len(Kinds)
    BY ControlPlaneConstants DEF MaskInv, Seen, KnownObject
  <2> QED BY <1>3, <1>7, <2>1, KindOfIndex DEF MaskInv, ListedAgrees
<1>9. LiveAgrees'
  <2>1. ASSUME fingerprint # NoFingerprint, NEW j \in Kind
        PROVE  /\ fingerprint[j] \in 0..rev' \cup {Absent}
               /\ fingerprint[j] = Absent => live[j] = Absent
               /\ SameContent(fingerprint[j], live[j], cluster'[j])
               /\ \A i \in 1..Len(listed) :
                    Kinds[i] = j => SameContent(fingerprint[j], live[j], listed[i])
    <3>1. fingerprint[j] \in 0..rev \cup {Absent}
      BY <2>1 DEF MaskInv, LiveAgrees
    <3>2. SameContent(fingerprint[j], live[j], cluster'[j])
      BY <1>3, <1>7, <2>1, <3>1 DEF MaskInv, LiveAgrees
    <3>3. fingerprint[j] \in 0..rev' \cup {Absent}
      BY <1>1, <3>1
    <3> QED BY <2>1, <3>2, <3>3 DEF MaskInv, LiveAgrees
  <2> QED BY <1>1, <2>1 DEF LiveAgrees, SameContent
<1> QED BY <1>6, <1>8, <1>9 DEF MaskInv

LEMMA ListMaskInv ==
  ASSUME MaskInv, List
  PROVE  MaskInv'
<1> DEFINE n == Len(listed)
<1>1. /\ listed' = Append(listed, cluster[Kinds[n + 1]]) /\ n < Len(Kinds)
      /\ UNCHANGED <<cluster, rev, fingerprint, live>>
  BY DEF List
<1>2. n \in Nat /\ listed \in Seq(Objects) /\ n + 1 \in 1..Len(Kinds)
  BY <1>1, ControlPlaneConstants DEF MaskInv, Seen
<1>3. Kinds[n + 1] \in Kind /\ cluster[Kinds[n + 1]] \in Objects
  BY <1>2, KindOfIndex, KnownIsObject DEF MaskInv, Seen
<1>4. /\ Len(listed') = n + 1 /\ listed' \in Seq(Objects)
      /\ listed'[n + 1] = cluster[Kinds[n + 1]]
      /\ \A i \in 1..n : listed'[i] = listed[i]
  BY <1>1, <1>2, <1>3
<1>5. \A i \in 1..(n + 1) : i \in 1..n \/ i = n + 1
  BY <1>2
<1>6. Seen'
  BY <1>1, <1>2, <1>4, <1>3, <1>5 DEF MaskInv, Seen, KnownObject
<1>7. ListedAgrees'
  BY <1>1, <1>4, <1>5 DEF MaskInv, ListedAgrees, SameContent
<1>8. LiveAgrees'
  BY <1>1, <1>4, <1>3, <1>5 DEF MaskInv, LiveAgrees, SameContent
<1> QED BY <1>6, <1>7, <1>8 DEF MaskInv

\* The end of a pass that leaves the snapshot, and the start of one: the lists go.
LEMMA DropListsMaskInv ==
  ASSUME MaskInv, listed' = << >>, UNCHANGED <<cluster, rev, fingerprint, live>>
  PROVE  MaskInv'
<1>1. Len(listed') = 0 /\ listed' \in Seq(Objects)
  OBVIOUS
<1>2. Seen' /\ ListedAgrees'
  BY <1>1, ControlPlaneConstants DEF MaskInv, Seen, KnownObject, ListedAgrees
<1>3. LiveAgrees'
  BY <1>1 DEF MaskInv, LiveAgrees, SameContent
<1> QED BY <1>2, <1>3 DEF MaskInv

\* A store takes over the lists, torn or not, with the revisions they came with.
LEMMA StoreMaskInv ==
  ASSUME MaskInv, Store
  PROVE  MaskInv'
<1>1. /\ live' = Content(Listing) /\ fingerprint' = Fingerprint(Listing)
      /\ listed' = << >> /\ UNCHANGED <<cluster, rev>> /\ Len(listed) = Len(Kinds)
  BY DEF Store, Succeeded, Listed
<1>2. Len(listed') = 0 /\ listed' \in Seq(Objects)
  BY <1>1
<1>3. ASSUME NEW k \in Kind
      PROVE  \E i \in 1..Len(listed) : Kinds[i] = k /\ Listing[k] = listed[i]
  BY <1>1, IndexOfKind DEF Listing
<1>4. live' = [k \in Kind |-> live'[k]]
  BY <1>1 DEF Content
<1>5. Seen' /\ ListedAgrees'
  BY <1>1, <1>2, <1>4, ControlPlaneConstants DEF MaskInv, Seen, KnownObject, ListedAgrees
<1>6. ASSUME NEW k \in Kind
      PROVE  /\ fingerprint'[k] \in 0..rev \cup {Absent}
             /\ fingerprint'[k] = Absent => live'[k] = Absent
             /\ SameContent(fingerprint'[k], live'[k], cluster[k])
  <2>1. PICK i \in 1..Len(listed) : Kinds[i] = k /\ Listing[k] = listed[i]
    BY <1>3
  <2>2. KnownObject(listed[i], k)
    BY <2>1 DEF MaskInv, Seen
  <2>3. /\ fingerprint'[k] = (IF listed[i] = Absent THEN Absent ELSE listed[i].rv)
        /\ live'[k] = (IF listed[i] = Absent THEN Absent ELSE listed[i].body)
    BY <1>1, <2>1 DEF Fingerprint, fingerprint_of, Content
  <2>4. listed[i] # Absent => SameContent(listed[i].rv, listed[i].body, cluster[k])
    BY <2>1 DEF MaskInv, ListedAgrees
  <2>5. CASE listed[i] = Absent
    <3>1. cluster[k] # Absent => Absent # cluster[k].rv
      BY ControlPlaneConstants DEF MaskInv, Seen, KnownObject
    <3> QED BY <2>3, <2>5, <3>1 DEF SameContent
  <2>6. CASE listed[i] # Absent
    <3>1. listed[i].rv \in 0..rev /\ listed[i].rv # Absent
      BY <2>2, <2>6, ControlPlaneConstants DEF KnownObject
    <3> QED BY <2>3, <2>4, <2>6, <3>1
  <2> QED BY <2>5, <2>6
<1>7. LiveAgrees'
  BY <1>1, <1>2, <1>6 DEF LiveAgrees, SameContent
<1> QED BY <1>5, <1>7 DEF MaskInv

LEMMA NextMaskInv == MaskInv /\ [Next]_vars => MaskInv'
<1> SUFFICES ASSUME MaskInv, [Next]_vars PROVE MaskInv'
  OBVIOUS
<1>1. CASE \E k \in Kind : Apply(k) \/ Delete(k)
  BY <1>1, ChangeMaskInv
<1>2. CASE List
  BY <1>2, ListMaskInv
<1>3. CASE Store
  BY <1>3, StoreMaskInv
<1>4. CASE ControllerReady \/ WakeEvent \/ WakeTick \/ ListFails \/ SkipUnchanged \/ Reject
  BY <1>4, DropListsMaskInv
  DEF ControllerReady, WakeEvent, WakeTick, Begin, ListFails, SkipUnchanged, Reject, Failed, Succeeded
<1>5. CASE \/ ControllerFails \/ Shutdown \/ WatchEvent
           \/ BootStep \/ SnapshotTimeout \/ UNCHANGED vars
  <2>1. UNCHANGED <<cluster, rev, listed, fingerprint, live>>
    BY <1>5 DEF ControllerFails, Shutdown, WatchEvent, BootStep, Bind, WatcherStart, WatcherTick,
                SnapshotTimeout, sync, vars
  <2> QED BY <2>1 DEF MaskInv, Seen, KnownObject, ListedAgrees, LiveAgrees, SameContent
<1> QED BY <1>1, <1>2, <1>3, <1>4, <1>5 DEF Next, SyncStep

\* The short-circuit never hides a change, for any number of kinds and changes: a
\* fingerprint that equals the cluster's was stored with the cluster's contents,
\* even when the lists of that pass were taken at different moments.
THEOREM ShortCircuitNeverMasks == Spec => []NotMasked
<1>1. MaskInv => NotMasked
  <2> SUFFICES ASSUME MaskInv, fingerprint # NoFingerprint, Unchanged(Fingerprint(cluster))
               PROVE  live = Content(cluster)
    BY DEF NotMasked
  <2>1. \A k \in Kind : fingerprint[k] = fingerprint_of(cluster[k]) /\ fingerprint[k] # 0
    BY DEF Unchanged, Fingerprint
  <2>2. ASSUME NEW k \in Kind PROVE live[k] = Content(cluster)[k]
    <3>1. CASE cluster[k] = Absent
      BY <2>1, <3>1 DEF fingerprint_of, Content, MaskInv, LiveAgrees
    <3>2. CASE cluster[k] # Absent
      BY <2>1, <3>2 DEF fingerprint_of, Content, MaskInv, LiveAgrees, SameContent
    <3> QED BY <3>1, <3>2
  <2>3. live = [k \in Kind |-> live[k]] /\ Content(cluster) = [k \in Kind |-> Content(cluster)[k]]
    BY DEF MaskInv, Seen, Content
  <2> QED BY <2>2, <2>3
<1> QED BY <1>1, InitMaskInv, NextMaskInv, PTL DEF Spec

-----------------------------------------------------------------------------
(* -------------------------------- globs -------------------------------- *)

\* The positions of s at which the last k characters of the pattern match its rest.
EndsSolve(g, p, s) ==
  g = [k \in Nat |-> IF k = 0 THEN {Len(s)} ELSE Before(p[Len(p) - k + 1], s, g[k - 1])]
Ends(p, s) == CHOOSE g : EndsSolve(g, p, s)

LEMMA EndsFacts ==
  ASSUME NEW p, NEW s, Len(p) \in Nat, Len(s) \in Nat
  PROVE  /\ Ends(p, s)[0] = {Len(s)}
         /\ \A k \in Nat : Ends(p, s)[k + 1] = Before(p[Len(p) - k], s, Ends(p, s)[k])
         /\ \A k \in Nat : Ends(p, s)[k] \subseteq 0..Len(s)
<1> DEFINE P == SUBSET (0..Len(s))
           X == Nat \X P
           F == [x \in X |-> <<x[1] + 1, Before(p[Len(p) - x[1]], s, x[2])>>]
           a == <<0, {Len(s)}>>
<1>1. Len(p) \in Nat /\ Len(s) \in Nat
  OBVIOUS
<1>2. \A c, ends : Before(c, s, ends) \in P
  BY DEF Before
<1>3. a \in X /\ F \in [X -> X]
  <2>1. a \in X
    BY <1>1
  <2>2. \A x \in X : <<x[1] + 1, Before(p[Len(p) - x[1]], s, x[2])>> \in X
    BY <1>2
  <2> QED BY <2>1, <2>2
<1>4. \A k \in Nat, I \in P : <<k, I>> \in X /\ F[<<k, I>>] = <<k + 1, Before(p[Len(p) - k], s, I)>>
  OBVIOUS
<1> HIDE DEF F, X
<1>5. PICK h \in [Nat -> X] : Iterates(h, F, a)
  BY <1>3, IterationExists
<1>6. \A k \in Nat : h[k] = <<k, h[k][2]>> /\ h[k][2] \in P
  <2> DEFINE T == {k \in Nat : h[k] = <<k, h[k][2]>> /\ h[k][2] \in P}
  <2>1. 0 \in T
    <3>1. h[0] = <<0, {Len(s)}>> /\ {Len(s)} \in P
      BY <1>1, <1>5 DEF Iterates
    <3>2. h[0] = <<0, h[0][2]>> /\ h[0][2] \in P
      BY <3>1
    <3> QED BY <3>2
  <2>2. ASSUME NEW k \in Nat, k \in T PROVE k + 1 \in T
    <3>1. h[k] = <<k, h[k][2]>> /\ h[k][2] \in P /\ h[k + 1] = F[h[k]]
      BY <1>5, <2>2 DEF Iterates
    <3>2. h[k + 1] = <<k + 1, Before(p[Len(p) - k], s, h[k][2])>>
      BY <1>4, <3>1
    <3> QED BY <1>2, <3>2
  <2>3. \A k \in Nat : k \in T
    <3> HIDE DEF T
    <3> QED BY <2>1, <2>2, NatSetInduction
  <2> QED BY <2>3
<1>7. \A k \in Nat : h[k + 1][2] = Before(p[Len(p) - k], s, h[k][2])
  <2> TAKE k \in Nat
  <2>1. h[k] = <<k, h[k][2]>> /\ h[k][2] \in P /\ h[k + 1] = F[h[k]]
    BY <1>5, <1>6 DEF Iterates
  <2>2. h[k + 1] = <<k + 1, Before(p[Len(p) - k], s, h[k][2])>>
    BY <1>4, <2>1
  <2> QED BY <2>2
<1>8. h[0][2] = {Len(s)}
  BY <1>5 DEF Iterates
<1> DEFINE g == [k \in Nat |-> h[k][2]]
<1>9. EndsSolve(g, p, s)
  <2>1. ASSUME NEW k \in Nat
        PROVE  g[k] = IF k = 0 THEN {Len(s)} ELSE Before(p[Len(p) - k + 1], s, g[k - 1])
    <3>1. CASE k = 0
      BY <1>8, <3>1
    <3>2. CASE k # 0
      <4>1. k - 1 \in Nat /\ (k - 1) + 1 = k /\ Len(p) - (k - 1) = Len(p) - k + 1
        BY <1>1, <3>2
      <4> QED BY <1>7, <3>2, <4>1
    <3> QED BY <3>1, <3>2
  <2>2. g = [k \in Nat |-> g[k]]
    OBVIOUS
  <2> HIDE DEF g
  <2> QED BY <2>1, <2>2 DEF EndsSolve
<1> HIDE DEF g
<1>10. EndsSolve(Ends(p, s), p, s)
  BY <1>9 DEF Ends
<1>11. \A k \in Nat : Ends(p, s)[k] = IF k = 0 THEN {Len(s)}
                                      ELSE Before(p[Len(p) - k + 1], s, Ends(p, s)[k - 1])
  BY <1>10 DEF EndsSolve
<1>12. \A k \in Nat : Ends(p, s)[k + 1] = Before(p[Len(p) - k], s, Ends(p, s)[k])
  <2>1. \A k \in Nat : /\ k + 1 \in Nat /\ k + 1 # 0 /\ (k + 1) - 1 = k
                       /\ Len(p) - (k + 1) + 1 = Len(p) - k
    BY <1>1
  <2> QED BY <1>11, <2>1
<1>13. Ends(p, s)[0] = {Len(s)}
  BY <1>11
<1>14. \A k \in Nat : Ends(p, s)[k] \subseteq 0..Len(s)
  <2> TAKE k \in Nat
  <2>1. CASE k = 0
    BY <1>1, <1>13, <2>1
  <2>2. CASE k # 0
    <3>1. k - 1 \in Nat /\ (k - 1) + 1 = k
      BY <2>2
    <3>2. Ends(p, s)[(k - 1) + 1] = Before(p[Len(p) - (k - 1)], s, Ends(p, s)[k - 1])
      BY <1>12, <3>1
    <3>3. Ends(p, s)[k] \in P
      BY <1>2, <3>1, <3>2
    <3> QED BY <3>3
  <2> QED BY <2>1, <2>2
<1> QED BY <1>12, <1>13, <1>14

\* The pattern from its character i + 1 on matches s from its character n + 1 on.
Fits(p, s, i, n) == n \in Ends(p, s)[Len(p) - i]

FitsFacts(p, s) ==
  /\ Len(p) \in Nat /\ Len(s) \in Nat
  /\ Matches(p, s) <=> Fits(p, s, 0, 0)
  /\ \A n : Fits(p, s, Len(p), n) <=> n = Len(s)
  /\ \A i \in 0..Len(p) : \A n : Fits(p, s, i, n) => n \in 0..Len(s)
  /\ \A i \in 0..(Len(p) - 1) : p[i + 1] = "*" =>
       \A n : Fits(p, s, i, n) <=> n \in 0..Len(s) /\ \E m \in 0..Len(s) : n <= m /\ Fits(p, s, i + 1, m)
  /\ \A i \in 0..(Len(p) - 1) : p[i + 1] # "*" =>
       \A n : Fits(p, s, i, n) <=> n \in 0..Len(s) /\ n < Len(s) /\ s[n + 1] = p[i + 1]
                                   /\ Fits(p, s, i + 1, n + 1)

LEMMA FitsRight == ASSUME NEW p, NEW s, Len(p) \in Nat, Len(s) \in Nat PROVE FitsFacts(p, s)
<1>1. Len(p) \in Nat /\ Len(s) \in Nat
  OBVIOUS
<1>2. Matches(p, s) <=> Fits(p, s, 0, 0)
  <2>1. Matches(p, s) <=> 0 \in Ends(p, s)[Len(p)]
    BY DEF Matches, Ends, EndsSolve
  <2>2. Len(p) - 0 = Len(p)
    BY <1>1
  <2> QED BY <2>1, <2>2 DEF Fits
<1>3. \A n : Fits(p, s, Len(p), n) <=> n = Len(s)
  <2>1. Len(p) - Len(p) = 0
    BY <1>1
  <2>2. Ends(p, s)[0] = {Len(s)}
    BY EndsFacts
  <2>3. Ends(p, s)[Len(p) - Len(p)] = {Len(s)}
    BY <2>1, <2>2
  <2> QED BY <2>3 DEF Fits
<1>4. \A i \in 0..Len(p) : Len(p) - i \in Nat
  BY <1>1
<1>5. \A i \in 0..Len(p) : \A n : Fits(p, s, i, n) => n \in 0..Len(s)
  BY <1>4, EndsFacts DEF Fits
<1>6. ASSUME NEW i \in 0..(Len(p) - 1)
      PROVE  \A n : Fits(p, s, i, n) <=> n \in Before(p[i + 1], s, Ends(p, s)[Len(p) - (i + 1)])
  <2>1. /\ Len(p) - (i + 1) \in Nat /\ (Len(p) - (i + 1)) + 1 = Len(p) - i
        /\ Len(p) - (Len(p) - (i + 1)) = i + 1
    BY <1>1
  <2>2. PICK k \in Nat : k = Len(p) - (i + 1)
    BY <2>1
  <2>3. Ends(p, s)[k + 1] = Before(p[Len(p) - k], s, Ends(p, s)[k])
    BY EndsFacts
  <2> QED BY <2>1, <2>2, <2>3 DEF Fits
<1>7. \A i \in 0..(Len(p) - 1) : p[i + 1] = "*" =>
        \A n : Fits(p, s, i, n) <=> n \in 0..Len(s) /\ \E m \in 0..Len(s) : n <= m /\ Fits(p, s, i + 1, m)
  <2> TAKE i \in 0..(Len(p) - 1)
  <2>1. i + 1 \in 0..Len(p)
    BY <1>1
  <2>2. \A m : Fits(p, s, i + 1, m) <=> m \in 0..Len(s) /\ m \in Ends(p, s)[Len(p) - (i + 1)]
    BY <1>5, <2>1 DEF Fits
  <2> SUFFICES ASSUME p[i + 1] = "*", NEW n
               PROVE  Fits(p, s, i, n)
                        <=> n \in 0..Len(s) /\ \E m \in 0..Len(s) : n <= m /\ Fits(p, s, i + 1, m)
    OBVIOUS
  <2>3. Fits(p, s, i, n) <=> n \in 0..Len(s) /\ \E m \in Ends(p, s)[Len(p) - (i + 1)] : n <= m
    BY <1>6 DEF Before
  <2>4. (\E m \in Ends(p, s)[Len(p) - (i + 1)] : n <= m)
          <=> \E m \in 0..Len(s) : n <= m /\ Fits(p, s, i + 1, m)
    <3> DEFINE E == Ends(p, s)[Len(p) - (i + 1)]
               N == 0..Len(s)
    <3>1. \A m : Fits(p, s, i + 1, m) <=> m \in N /\ m \in E
      BY <2>2
    <3>2. ASSUME NEW m \in E, n <= m PROVE m \in N /\ Fits(p, s, i + 1, m)
      <4>1. E \subseteq N
        BY <1>4, <2>1, EndsFacts
      <4> QED BY <3>1, <4>1
    <3> HIDE DEF E, N
    <3>3. (\E m \in E : n <= m) <=> \E m \in N : n <= m /\ Fits(p, s, i + 1, m)
      BY <3>1, <3>2
    <3> QED BY <3>3 DEF E, N
  <2> QED BY <2>3, <2>4
<1>8. \A i \in 0..(Len(p) - 1) : p[i + 1] # "*" =>
        \A n : Fits(p, s, i, n) <=> n \in 0..Len(s) /\ n < Len(s) /\ s[n + 1] = p[i + 1]
                                    /\ Fits(p, s, i + 1, n + 1)
  <2> TAKE i \in 0..(Len(p) - 1)
  <2>1. \A m : Fits(p, s, i + 1, m) <=> m \in Ends(p, s)[Len(p) - (i + 1)]
    BY DEF Fits
  <2> QED BY <1>6, <2>1 DEF Before
<1> QED BY <1>1, <1>2, <1>3, <1>5, <1>7, <1>8 DEF FitsFacts

\* Characters without a star between them take one character each.
LEMMA Walk ==
  ASSUME NEW p, NEW s, FitsFacts(p, s), NEW i \in 0..Len(p), NEW j \in 0..Len(p), i <= j,
         \A m \in i..(j - 1) : p[m + 1] # "*", NEW n \in Nat, Fits(p, s, i, n)
  PROVE  Fits(p, s, j, n + (j - i))
<1>1. Len(p) \in Nat /\ Len(s) \in Nat
  BY DEF FitsFacts
<1> DEFINE T == {d \in Nat : d <= j - i => Fits(p, s, i + d, n + d)}
<1>2. 0 \in T
  <2>1. i + 0 = i /\ n + 0 = n
    BY <1>1
  <2> QED BY <2>1
<1>3. ASSUME NEW d \in Nat, d \in T PROVE d + 1 \in T
  <2> SUFFICES ASSUME d + 1 <= j - i PROVE Fits(p, s, i + (d + 1), n + (d + 1))
    OBVIOUS
  <2>1. /\ d <= j - i /\ i + d \in i..(j - 1) /\ i + d \in 0..(Len(p) - 1)
        /\ i + (d + 1) = (i + d) + 1 /\ n + (d + 1) = (n + d) + 1
    BY <1>1
  <2>2. Fits(p, s, i + d, n + d) /\ p[(i + d) + 1] # "*"
    BY <1>3, <2>1
  <2>3. Fits(p, s, (i + d) + 1, (n + d) + 1)
    BY <2>1, <2>2 DEF FitsFacts
  <2> QED BY <2>1, <2>3
<1>4. \A d \in Nat : d \in T
  <2> HIDE DEF T
  <2> QED BY <1>2, <1>3, NatSetInduction
<1>5. j - i \in Nat /\ i + (j - i) = j /\ j - i <= j - i
  BY <1>1
<1>6. j - i \in T
  <2> HIDE DEF T
  <2> QED BY <1>4, <1>5
<1> QED BY <1>5, <1>6

\* At the end of s only stars fit.
LEMMA OnlyStars ==
  ASSUME NEW p, NEW s, FitsFacts(p, s), NEW i \in 0..Len(p)
  PROVE  Fits(p, s, i, Len(s)) <=> \A m \in (i + 1)..Len(p) : p[m] = "*"
<1>1. Len(p) \in Nat /\ Len(s) \in Nat /\ Len(s) \in 0..Len(s)
  BY DEF FitsFacts
<1> DEFINE Stars(j) == \A m \in (j + 1)..Len(p) : p[m] = "*"
           T == {k \in Nat : \A j \in 0..Len(p) :
                   Len(p) - j = k => (Fits(p, s, j, Len(s)) <=> Stars(j))}
<1>2. 0 \in T
  <2>1. \A j \in 0..Len(p) : Len(p) - j = 0 => j = Len(p)
    BY <1>1
  <2>2. Stars(Len(p))
    BY <1>1
  <2>3. Fits(p, s, Len(p), Len(s))
    BY DEF FitsFacts
  <2> QED BY <2>1, <2>2, <2>3
<1>3. ASSUME NEW k \in Nat, k \in T PROVE k + 1 \in T
  <2> SUFFICES ASSUME NEW j \in 0..Len(p), Len(p) - j = k + 1
               PROVE  Fits(p, s, j, Len(s)) <=> Stars(j)
    OBVIOUS
  <2>1. j \in 0..(Len(p) - 1) /\ j + 1 \in 0..Len(p) /\ Len(p) - (j + 1) = k
    BY <1>1
  <2>2. Fits(p, s, j + 1, Len(s)) <=> Stars(j + 1)
    BY <1>3, <2>1
  <2>3. Stars(j) <=> p[j + 1] = "*" /\ Stars(j + 1)
    <3>1. \A m \in (j + 1)..Len(p) : m = j + 1 \/ m \in ((j + 1) + 1)..Len(p)
      BY <1>1, <2>1
    <3>2. j + 1 \in (j + 1)..Len(p) /\ \A m \in ((j + 1) + 1)..Len(p) : m \in (j + 1)..Len(p)
      BY <1>1, <2>1
    <3> QED BY <3>1, <3>2
  <2>4. CASE p[j + 1] = "*"
    <3>1. \A m \in 0..Len(s) : Len(s) <= m => m = Len(s)
      BY <1>1
    <3>2. Fits(p, s, j, Len(s)) <=> Fits(p, s, j + 1, Len(s))
      BY <1>1, <2>1, <2>4, <3>1 DEF FitsFacts
    <3> QED BY <2>2, <2>3, <2>4, <3>2
  <2>5. CASE p[j + 1] # "*"
    <3>1. ~Fits(p, s, j, Len(s))
      <4>1. ~(Len(s) < Len(s))
        BY <1>1
      <4> QED BY <2>1, <2>5, <4>1 DEF FitsFacts
    <3> QED BY <2>3, <2>5, <3>1
  <2> QED BY <2>4, <2>5
<1>4. \A k \in Nat : k \in T
  <2> HIDE DEF T
  <2> QED BY <1>2, <1>3, NatSetInduction
<1>5. Len(p) - i \in Nat
  BY <1>1
<1> QED BY <1>4, <1>5

LEMMA Mul == ASSUME NEW a \in Nat, NEW b \in Nat, NEW c \in Nat, a <= b
             PROVE  a * c <= b * c /\ a * c \in Nat /\ b * c \in Nat
<1>1. b = a + (b - a) /\ b - a \in Nat
  OBVIOUS
<1>2. b * c = a * c + (b - a) * c
  BY <1>1
<1>3. (b - a) * c \in Nat /\ a * c \in Nat
  BY <1>1
<1> QED BY <1>2, <1>3

\* Where the loop stands. The characters since the last star are no stars and have
\* taken one character each; the pattern matches the name exactly if its rest fits
\* here, or if the rest after the last star fits further on.
Later(p, s, x) == \E n \in (x.star_si + 1)..Len(s) : Fits(p, s, x.star_pi + 1, n)
ScanOK(p, s, x) ==
  /\ x \in [pi : 0..Len(p), si : 0..Len(s), star_pi : 0..Len(p), star_si : 0..Len(s)]
  /\ x.star_si <= x.si
  /\ x.star_pi # Len(p) =>
       /\ x.star_pi + 1 <= x.pi /\ x.si = x.star_si + (x.pi - (x.star_pi + 1))
       /\ \A m \in (x.star_pi + 1)..(x.pi - 1) : p[m + 1] # "*"
  /\ Fits(p, s, 0, 0) <=> \/ Fits(p, s, x.pi, x.si)
                          \/ x.star_pi # Len(p) /\ Later(p, s, x)

\* Every round that changes something makes this greater.
Progress(p, x) == x.star_si * (Len(p) + 1) + x.pi

\* Another match of the characters since the star ends further on.
LEMMA LaterEnds ==
  ASSUME NEW p, NEW s, FitsFacts(p, s), NEW x, ScanOK(p, s, x), x.star_pi # Len(p),
         Later(p, s, x)
  PROVE  \E n \in 0..Len(s) : x.si < n /\ Fits(p, s, x.pi, n)
<1>1. /\ Len(p) \in Nat /\ Len(s) \in Nat /\ x.pi \in 0..Len(p) /\ x.si \in 0..Len(s)
      /\ x.star_pi \in 0..Len(p) /\ x.star_si \in 0..Len(s)
  BY DEF FitsFacts, ScanOK
<1>2. PICK n \in (x.star_si + 1)..Len(s) : Fits(p, s, x.star_pi + 1, n)
  BY DEF Later
<1>3. /\ x.star_pi + 1 <= x.pi /\ x.si = x.star_si + (x.pi - (x.star_pi + 1))
      /\ \A m \in (x.star_pi + 1)..(x.pi - 1) : p[m + 1] # "*"
  BY DEF ScanOK
<1>4. x.star_pi + 1 \in 0..Len(p) /\ n \in Nat
  BY <1>1, <1>3
<1>5. Fits(p, s, x.pi, n + (x.pi - (x.star_pi + 1)))
  BY <1>1, <1>2, <1>3, <1>4, Walk
<1>6. n + (x.pi - (x.star_pi + 1)) \in 0..Len(s)
  BY <1>1, <1>5 DEF FitsFacts
<1>7. x.si < n + (x.pi - (x.star_pi + 1))
  BY <1>1, <1>2, <1>3
<1> QED BY <1>5, <1>6, <1>7

LEMMA StarRound ==
  ASSUME NEW p, NEW s, FitsFacts(p, s), NEW x, ScanOK(p, s, x), NEW y, y = Step(p, s, x),
         x.si # Len(s), x.pi < Len(p), p[x.pi + 1] = "*"
  PROVE  ScanOK(p, s, y) /\ Progress(p, y) > Progress(p, x)
<1>1. /\ Len(p) \in Nat /\ Len(s) \in Nat /\ x.pi \in 0..Len(p) /\ x.si \in 0..Len(s)
      /\ x.star_pi \in 0..Len(p) /\ x.star_si \in 0..Len(s) /\ x.star_si <= x.si
  BY DEF FitsFacts, ScanOK
<1>2. y = [pi |-> x.pi + 1, si |-> x.si, star_pi |-> x.pi, star_si |-> x.si]
  BY DEF Step
<1>3. y.pi = x.pi + 1 /\ y.si = x.si /\ y.star_pi = x.pi /\ y.star_si = x.si
  BY <1>2
<1>4. /\ y \in [pi : 0..Len(p), si : 0..Len(s), star_pi : 0..Len(p), star_si : 0..Len(s)]
      /\ y.star_si <= y.si /\ y.star_pi + 1 <= y.pi /\ y.star_pi # Len(p)
      /\ y.si = y.star_si + (y.pi - (y.star_pi + 1))
      /\ \A m \in (y.star_pi + 1)..(y.pi - 1) : p[m + 1] # "*"
  <2>1. x.pi + 1 \in 0..Len(p) /\ x.pi # Len(p)
    BY <1>1
  <2>2. y \in [pi : 0..Len(p), si : 0..Len(s), star_pi : 0..Len(p), star_si : 0..Len(s)]
    BY <1>1, <1>2, <2>1
  <2>3. \A m \in (y.star_pi + 1)..(y.pi - 1) : FALSE
    BY <1>1, <1>3
  <2> QED BY <1>1, <1>3, <2>1, <2>2, <2>3
<1>5. Fits(p, s, x.pi, x.si) <=> \E m \in 0..Len(s) : x.si <= m /\ Fits(p, s, x.pi + 1, m)
  <2>1. x.pi \in 0..(Len(p) - 1)
    BY <1>1
  <2> QED BY <1>1, <2>1 DEF FitsFacts
<1>6. Fits(p, s, 0, 0) <=> Fits(p, s, x.pi, x.si)
  <2>1. ASSUME x.star_pi # Len(p), Later(p, s, x) PROVE Fits(p, s, x.pi, x.si)
    <3>1. PICK n \in 0..Len(s) : x.si < n /\ Fits(p, s, x.pi, n)
      BY <2>1, LaterEnds
    <3>2. x.pi \in 0..(Len(p) - 1)
      BY <1>1
    <3>3. PICK m \in 0..Len(s) : n <= m /\ Fits(p, s, x.pi + 1, m)
      BY <3>1, <3>2 DEF FitsFacts
    <3>4. x.si <= m
      BY <1>1, <3>1, <3>3
    <3> QED BY <1>5, <3>3, <3>4
  <2> QED BY <2>1 DEF ScanOK
<1>7. Fits(p, s, x.pi, x.si) <=> Fits(p, s, y.pi, y.si) \/ Later(p, s, y)
  <2>1. \A m \in 0..Len(s) : x.si <= m <=> m = x.si \/ m \in (x.si + 1)..Len(s)
    BY <1>1
  <2>2. \A m \in (x.si + 1)..Len(s) : m \in 0..Len(s)
    BY <1>1
  <2>3. Later(p, s, y) <=> \E m \in (x.si + 1)..Len(s) : Fits(p, s, x.pi + 1, m)
    BY <1>3 DEF Later
  <2>4. (\E m \in 0..Len(s) : x.si <= m /\ Fits(p, s, x.pi + 1, m))
          <=> \/ Fits(p, s, x.pi + 1, x.si)
              \/ \E m \in (x.si + 1)..Len(s) : Fits(p, s, x.pi + 1, m)
    BY <1>1, <2>1, <2>2
  <2> QED BY <1>3, <1>5, <2>3, <2>4
<1>8. ScanOK(p, s, y)
  BY <1>4, <1>6, <1>7 DEF ScanOK
<1>9. x.star_si * (Len(p) + 1) <= x.si * (Len(p) + 1)
  <2>1. x.star_si \in Nat /\ x.si \in Nat /\ Len(p) + 1 \in Nat
    BY <1>1
  <2> QED BY <1>1, <2>1, Mul
<1>10. x.star_si * (Len(p) + 1) \in Int /\ x.si * (Len(p) + 1) \in Int
  BY <1>1
<1> QED BY <1>1, <1>3, <1>8, <1>9, <1>10 DEF Progress

LEMMA LiteralRound ==
  ASSUME NEW p, NEW s, FitsFacts(p, s), NEW x, ScanOK(p, s, x), NEW y, y = Step(p, s, x),
         x.si # Len(s), x.pi < Len(p), p[x.pi + 1] # "*", p[x.pi + 1] = s[x.si + 1]
  PROVE  ScanOK(p, s, y) /\ Progress(p, y) > Progress(p, x)
<1>1. /\ Len(p) \in Nat /\ Len(s) \in Nat /\ x.pi \in 0..Len(p) /\ x.si \in 0..Len(s)
      /\ x.star_pi \in 0..Len(p) /\ x.star_si \in 0..Len(s) /\ x.star_si <= x.si
  BY DEF FitsFacts, ScanOK
<1>2. y = [x EXCEPT !.pi = @ + 1, !.si = @ + 1]
  BY DEF Step
<1>3. y.pi = x.pi + 1 /\ y.si = x.si + 1 /\ y.star_pi = x.star_pi /\ y.star_si = x.star_si
  BY <1>2 DEF ScanOK
<1>4. x.pi + 1 \in 0..Len(p) /\ x.si + 1 \in 0..Len(s) /\ x.pi \in 0..(Len(p) - 1) /\ x.si < Len(s)
  BY <1>1
<1>5. y \in [pi : 0..Len(p), si : 0..Len(s), star_pi : 0..Len(p), star_si : 0..Len(s)]
  BY <1>2, <1>4 DEF ScanOK
<1>6. y.star_si <= y.si
  BY <1>1, <1>3
<1>7. ASSUME y.star_pi # Len(p)
      PROVE  /\ y.star_pi + 1 <= y.pi /\ y.si = y.star_si + (y.pi - (y.star_pi + 1))
             /\ \A m \in (y.star_pi + 1)..(y.pi - 1) : p[m + 1] # "*"
  <2>1. /\ x.star_pi + 1 <= x.pi /\ x.si = x.star_si + (x.pi - (x.star_pi + 1))
        /\ \A m \in (x.star_pi + 1)..(x.pi - 1) : p[m + 1] # "*"
    BY <1>3, <1>7 DEF ScanOK
  <2>2. \A m \in (y.star_pi + 1)..(y.pi - 1) : m = x.pi \/ m \in (x.star_pi + 1)..(x.pi - 1)
    BY <1>1, <1>3, <2>1
  <2>3. y.star_pi + 1 <= y.pi /\ y.si = y.star_si + (y.pi - (y.star_pi + 1))
    <3>1. x.pi \in Int /\ x.si \in Int /\ x.star_pi \in Int /\ x.star_si \in Int
      BY <1>1
    <3>2. x.star_pi + 1 <= x.pi + 1
      BY <2>1, <3>1
    <3>3. x.si + 1 = x.star_si + ((x.pi + 1) - (x.star_pi + 1))
      BY <2>1, <3>1
    <3> QED BY <1>3, <3>2, <3>3
  <2> QED BY <2>1, <2>2, <2>3
<1>8. Fits(p, s, x.pi, x.si) <=> Fits(p, s, x.pi + 1, x.si + 1)
  BY <1>1, <1>4 DEF FitsFacts
<1>9. Later(p, s, y) <=> Later(p, s, x)
  BY <1>3 DEF Later
<1>10. ScanOK(p, s, y)
  BY <1>3, <1>5, <1>6, <1>7, <1>8, <1>9 DEF ScanOK
<1>11. x.star_si * (Len(p) + 1) \in Int
  BY <1>1
<1> QED BY <1>1, <1>3, <1>10, <1>11 DEF Progress

\* The rest of the pattern does not fit here, so that the star has to take more.
LEMMA Mismatch ==
  ASSUME NEW p, NEW s, FitsFacts(p, s), NEW x, ScanOK(p, s, x), x.si # Len(s),
         ~(x.pi < Len(p) /\ p[x.pi + 1] = "*"), ~(x.pi < Len(p) /\ p[x.pi + 1] = s[x.si + 1])
  PROVE  ~Fits(p, s, x.pi, x.si)
<1>1. Len(p) \in Nat /\ Len(s) \in Nat /\ x.pi \in 0..Len(p) /\ x.si \in 0..Len(s)
  BY DEF FitsFacts, ScanOK
<1>2. CASE x.pi = Len(p)
  BY <1>2 DEF FitsFacts
<1>3. CASE x.pi # Len(p)
  <2>1. x.pi \in 0..(Len(p) - 1) /\ x.pi < Len(p)
    BY <1>1, <1>3
  <2> QED BY <2>1 DEF FitsFacts
<1> QED BY <1>2, <1>3

LEMMA BacktrackRound ==
  ASSUME NEW p, NEW s, FitsFacts(p, s), NEW x, ScanOK(p, s, x), NEW y, y = Step(p, s, x),
         x.si # Len(s), x.star_pi # Len(p),
         ~(x.pi < Len(p) /\ p[x.pi + 1] = "*"), ~(x.pi < Len(p) /\ p[x.pi + 1] = s[x.si + 1])
  PROVE  ScanOK(p, s, y) /\ Progress(p, y) > Progress(p, x)
<1>1. /\ Len(p) \in Nat /\ Len(s) \in Nat /\ x.pi \in 0..Len(p) /\ x.si \in 0..Len(s)
      /\ x.star_pi \in 0..Len(p) /\ x.star_si \in 0..Len(s) /\ x.star_si <= x.si
      /\ x.star_pi + 1 <= x.pi
  BY DEF FitsFacts, ScanOK
<1>2. y = [x EXCEPT !.pi = x.star_pi + 1, !.si = x.star_si + 1, !.star_si = @ + 1]
  BY DEF Step
<1>3. y.pi = x.star_pi + 1 /\ y.si = x.star_si + 1 /\ y.star_pi = x.star_pi /\ y.star_si = x.star_si + 1
  BY <1>2 DEF ScanOK
<1>4. x.star_pi + 1 \in 0..Len(p) /\ x.star_si + 1 \in 0..Len(s)
  BY <1>1
<1>5. y \in [pi : 0..Len(p), si : 0..Len(s), star_pi : 0..Len(p), star_si : 0..Len(s)]
  BY <1>2, <1>4 DEF ScanOK
<1>6. /\ y.star_si <= y.si /\ y.star_pi + 1 <= y.pi
      /\ y.si = y.star_si + (y.pi - (y.star_pi + 1))
      /\ \A m \in (y.star_pi + 1)..(y.pi - 1) : p[m + 1] # "*"
  BY <1>1, <1>3
<1>7. ~Fits(p, s, x.pi, x.si)
  BY Mismatch
<1>8. Later(p, s, x) <=> Fits(p, s, y.pi, y.si) \/ Later(p, s, y)
  <2>1. \A n : n \in (x.star_si + 1)..Len(s)
                 <=> n = x.star_si + 1 \/ n \in ((x.star_si + 1) + 1)..Len(s)
    BY <1>1, <1>4
  <2>2. Later(p, s, y) <=> \E n \in ((x.star_si + 1) + 1)..Len(s) : Fits(p, s, x.star_pi + 1, n)
    BY <1>3 DEF Later
  <2> QED BY <1>3, <2>1, <2>2 DEF Later
<1>9. ScanOK(p, s, y)
  BY <1>3, <1>5, <1>6, <1>7, <1>8 DEF ScanOK
<1>10. (x.star_si + 1) * (Len(p) + 1) = x.star_si * (Len(p) + 1) + (Len(p) + 1)
  BY <1>1
<1>11. x.star_si * (Len(p) + 1) \in Int
  BY <1>1
<1> QED BY <1>1, <1>3, <1>9, <1>10, <1>11 DEF Progress

\* A round goes on, or the loop has ended.
Ended(p, s, x) ==
  \/ x.si = Len(s)
  \/ x.star_pi = Len(p) /\ ~(x.pi < Len(p) /\ p[x.pi + 1] = "*")
     /\ ~(x.pi < Len(p) /\ p[x.pi + 1] = s[x.si + 1])

LEMMA Round ==
  ASSUME NEW p, NEW s, FitsFacts(p, s), NEW x, ScanOK(p, s, x)
  PROVE  /\ ScanOK(p, s, Step(p, s, x))
         /\ Ended(p, s, x) => Step(p, s, x) = x
         /\ ~Ended(p, s, x) => Progress(p, Step(p, s, x)) > Progress(p, x)
<1>1. CASE Ended(p, s, x)
  <2>1. Step(p, s, x) = x
    BY <1>1 DEF Ended, Step
  <2> QED BY <1>1, <2>1
<1>2. CASE ~Ended(p, s, x)
  <2>1. x.si # Len(s)
    BY <1>2 DEF Ended
  <2>2. CASE x.pi < Len(p) /\ p[x.pi + 1] = "*"
    BY <1>2, <2>1, <2>2, StarRound
  <2>3. CASE x.pi < Len(p) /\ p[x.pi + 1] # "*" /\ p[x.pi + 1] = s[x.si + 1]
    BY <1>2, <2>1, <2>3, LiteralRound
  <2>4. CASE ~(x.pi < Len(p) /\ p[x.pi + 1] = "*") /\ ~(x.pi < Len(p) /\ p[x.pi + 1] = s[x.si + 1])
    <3>1. x.star_pi # Len(p)
      BY <1>2, <2>4 DEF Ended
    <3> QED BY <1>2, <2>1, <2>4, <3>1, BacktrackRound
  <2> QED BY <2>2, <2>3, <2>4
<1> QED BY <1>1, <1>2

ScanSolves(g, p, s) == g = [n \in Nat |-> IF n = 0 THEN Start(p) ELSE Step(p, s, g[n - 1])]
ScanOf(p, s) == CHOOSE g : ScanSolves(g, p, s)

LEMMA ScanFacts ==
  ASSUME NEW p, NEW s, FitsFacts(p, s)
  PROVE  /\ ScanOf(p, s)[0] = Start(p)
         /\ \A n \in Nat : ScanOf(p, s)[n + 1] = Step(p, s, ScanOf(p, s)[n])
         /\ \A n \in Nat : ScanOK(p, s, ScanOf(p, s)[n])
<1> DEFINE R == [pi : 0..Len(p), si : 0..Len(s), star_pi : 0..Len(p), star_si : 0..Len(s)]
           X == {x \in R : ScanOK(p, s, x)}
           F == [x \in X |-> Step(p, s, x)]
<1>1. Len(p) \in Nat /\ Len(s) \in Nat
  BY DEF FitsFacts
<1>2. Start(p) \in X
  <2>1. Start(p) \in R
    BY <1>1 DEF Start
  <2>2. ScanOK(p, s, Start(p))
    BY <1>1, <2>1 DEF ScanOK, Start
  <2> QED BY <2>1, <2>2
<1>3. \A x \in X : Step(p, s, x) \in X
  <2> TAKE x \in X
  <2>1. ScanOK(p, s, Step(p, s, x))
    BY Round
  <2>2. Step(p, s, x) \in R
    BY <2>1 DEF ScanOK
  <2> QED BY <2>1, <2>2
<1>4. F \in [X -> X] /\ \A x \in X : F[x] = Step(p, s, x)
  BY <1>3
<1>5. \A x \in X : ScanOK(p, s, x)
  OBVIOUS
<1> HIDE DEF F, X
<1>6. PICK h \in [Nat -> X] : Iterates(h, F, Start(p))
  BY <1>2, <1>4, IterationExists
<1>7. ScanSolves(h, p, s)
  <2>1. ASSUME NEW n \in Nat PROVE h[n] = IF n = 0 THEN Start(p) ELSE Step(p, s, h[n - 1])
    <3>1. CASE n = 0
      BY <1>6, <3>1 DEF Iterates
    <3>2. CASE n # 0
      <4>1. n - 1 \in Nat /\ (n - 1) + 1 = n
        BY <3>2
      <4>2. h[(n - 1) + 1] = F[h[n - 1]] /\ h[n - 1] \in X
        BY <1>6, <4>1 DEF Iterates
      <4> QED BY <1>4, <3>2, <4>1, <4>2
    <3> QED BY <3>1, <3>2
  <2> QED BY <2>1 DEF ScanSolves
<1>8. ScanSolves(ScanOf(p, s), p, s)
  BY <1>7 DEF ScanOf
<1>9. \A n \in Nat : ScanOf(p, s)[n] = IF n = 0 THEN Start(p) ELSE Step(p, s, ScanOf(p, s)[n - 1])
  BY <1>8 DEF ScanSolves
<1>10. ScanOf(p, s)[0] = Start(p) /\ \A n \in Nat : ScanOf(p, s)[n + 1] = Step(p, s, ScanOf(p, s)[n])
  <2>1. \A n \in Nat : n + 1 # 0 /\ (n + 1) - 1 = n /\ n + 1 \in Nat
    OBVIOUS
  <2> QED BY <1>9, <2>1
<1>11. \A n \in Nat : ScanOK(p, s, ScanOf(p, s)[n])
  <2> DEFINE T == {n \in Nat : ScanOK(p, s, ScanOf(p, s)[n])}
  <2>1. 0 \in T
    BY <1>2, <1>5, <1>10
  <2>2. ASSUME NEW n \in Nat, n \in T PROVE n + 1 \in T
    <3>1. ScanOK(p, s, ScanOf(p, s)[n])
      BY <2>2
    <3>2. ScanOK(p, s, Step(p, s, ScanOf(p, s)[n]))
      BY <3>1, Round
    <3> QED BY <1>10, <3>2
  <2>3. \A n \in Nat : n \in T
    <3> HIDE DEF T
    <3> QED BY <2>1, <2>2, NatSetInduction
  <2> QED BY <2>3
<1> QED BY <1>10, <1>11

\* The loop of glob_match ends within its rounds and finds out whether the pattern
\* matches, with one star to go back to (policy.rs glob_match).
LEMMA GlobIsRight ==
  ASSUME NEW p, NEW s, Len(p) \in Nat, Len(s) \in Nat
  PROVE  glob_match(p, s) <=> Matches(p, s)
<1> DEFINE g == ScanOf(p, s)
           N == Rounds(p, s)
           T == {n \in Nat : Ended(p, s, g[n]) \/ n <= Progress(p, g[n])}
<1>1. FitsFacts(p, s)
  BY FitsRight
<1>2. \A n \in Nat : ScanOK(p, s, g[n]) /\ g[n + 1] = Step(p, s, g[n])
  BY <1>1, ScanFacts
<1>3. glob_match(p, s) <=> g[N].si = Len(s) /\ \A i \in (g[N].pi + 1)..Len(p) : p[i] = "*"
  BY DEF glob_match, ScanOf, ScanSolves
<1> HIDE DEF g
<1>4. \A n \in Nat : Progress(p, g[n]) \in Nat /\ Progress(p, g[n]) < N
  <2> TAKE n \in Nat
  <2>1. PICK a \in 0..Len(s), b \in 0..Len(p) : a = g[n].star_si /\ b = g[n].pi
    BY <1>2 DEF ScanOK
  <2>2. Progress(p, g[n]) = a * (Len(p) + 1) + b
    BY <2>1 DEF Progress
  <2>3. a * (Len(p) + 1) <= Len(s) * (Len(p) + 1) /\ a * (Len(p) + 1) \in Nat
    BY Mul
  <2>4. N = Len(s) * (Len(p) + 1) + (Len(p) + 1)
    BY DEF Rounds
  <2>5. Len(s) * (Len(p) + 1) \in Nat
    OBVIOUS
  <2> HIDE DEF N
  <2> QED BY <2>2, <2>3, <2>4, <2>5
<1>5. 0 \in T
  BY <1>4
<1>6. ASSUME NEW n \in Nat, n \in T PROVE n + 1 \in T
  <2>1. ScanOK(p, s, g[n]) /\ g[n + 1] = Step(p, s, g[n])
    BY <1>2
  <2>2. CASE Ended(p, s, g[n])
    BY <1>1, <2>1, <2>2, Round
  <2>3. CASE ~Ended(p, s, g[n])
    <3>1. n <= Progress(p, g[n])
      BY <1>6, <2>3
    <3>2. Progress(p, g[n + 1]) > Progress(p, g[n])
      BY <1>1, <2>1, <2>3, Round
    <3>3. n + 1 <= Progress(p, g[n + 1])
      BY <1>4, <3>1, <3>2
    <3> QED BY <3>3
  <2> QED BY <2>2, <2>3
<1>7. N \in Nat
  BY DEF Rounds
<1>8. Ended(p, s, g[N])
  <2>1. \A n \in Nat : n \in T
    <3> HIDE DEF T
    <3> QED BY <1>5, <1>6, NatSetInduction
  <2>2. PICK n \in Nat : n = N
    BY <1>7
  <2>3. n \in T /\ Progress(p, g[n]) \in Nat /\ Progress(p, g[n]) < n
    BY <1>4, <2>1, <2>2
  <2>4. Ended(p, s, g[n])
    BY <2>3
  <2> QED BY <2>2, <2>4
<1>9. PICK x : x = g[N]
  OBVIOUS
<1>10. ScanOK(p, s, x)
  BY <1>2, <1>7, <1>9
<1>11. /\ x.pi \in 0..Len(p) /\ x.si \in 0..Len(s)
       /\ Fits(p, s, 0, 0) <=> \/ Fits(p, s, x.pi, x.si)
                               \/ x.star_pi # Len(p) /\ Later(p, s, x)
  BY <1>10 DEF ScanOK
<1>12. CASE x.si = Len(s)
  <2>1. ~(x.star_pi # Len(p) /\ Later(p, s, x))
    <3>1. \A n \in 0..Len(s) : ~(x.si < n)
      BY <1>12
    <3> QED BY <1>1, <1>10, <3>1, LaterEnds
  <2>2. Fits(p, s, x.pi, Len(s)) <=> \A i \in (x.pi + 1)..Len(p) : p[i] = "*"
    BY <1>1, <1>11, OnlyStars
  <2>3. Fits(p, s, 0, 0) <=> glob_match(p, s)
    BY <1>3, <1>9, <1>11, <1>12, <2>1, <2>2
  <2> QED BY <1>1, <2>3 DEF FitsFacts
<1>13. CASE x.si # Len(s)
  <2>1. x.star_pi = Len(p) /\ ~(x.pi < Len(p) /\ p[x.pi + 1] = "*")
        /\ ~(x.pi < Len(p) /\ p[x.pi + 1] = s[x.si + 1])
    BY <1>8, <1>9, <1>13 DEF Ended
  <2>2. ~Fits(p, s, x.pi, x.si)
    BY <1>1, <1>10, <1>13, <2>1, Mismatch
  <2>3. ~Fits(p, s, 0, 0) /\ ~glob_match(p, s)
    BY <1>3, <1>9, <1>11, <1>13, <2>1, <2>2
  <2> QED BY <1>1, <2>3 DEF FitsFacts
<1> QED BY <1>12, <1>13

-----------------------------------------------------------------------------
(* ------------------------------- the index ----------------------------- *)

LEMMA LatestExists ==
  ASSUME NEW n \in Nat, NEW H \in SUBSET (1..n), H # {}
  PROVE  \E i \in H : \A j \in H : j <= i
<1> DEFINE T == {n - i : i \in H}
<1>1. T \subseteq Nat /\ T # {}
  <2>1. \A i \in H : i \in Nat /\ i <= n
    OBVIOUS
  <2>2. \A i \in H : n - i \in Nat
    BY <2>1
  <2> QED BY <2>2
<1>2. PICK m \in T : \A k \in T : m <= k
  <2> HIDE DEF T
  <2> QED BY <1>1, LeastNatural
<1>3. PICK i \in H : m = n - i
  BY <1>2
<1>4. \A j \in H : n - i <= n - j
  BY <1>2, <1>3
<1>5. \A j \in H : j <= i
  BY <1>4
<1> QED BY <1>5

Latest(H) == CHOOSE i \in H : \A j \in H : j <= i

\* The route a lookup finds and the entry the index holds for its glob are made of
\* the same route policy: a later one with the glob would have matched too.
LEMMA IndexIsRight ==
  ASSUME NEW cfg, WellFormed(cfg), NEW bare \in Seq(STRING)
  PROVE  LET hits == {i \in DOMAIN cfg.routes : Matches(cfg.routes[i].name_glob, bare)}
             route == LastRoute(cfg.routes, LAMBDA r : Matches(r.name_glob, bare))
         IN /\ hits = {} => route = None
            /\ hits # {} => \E i \in DOMAIN cfg.routes : route = cfg.routes[i]
            /\ merged_for(PolicyRuntime(cfg), bare) = compile(merge_spec(cfg.global, route))
<1> DEFINE routes == cfg.routes
           D == DOMAIN routes
           hits == {i \in D : Matches(routes[i].name_glob, bare)}
           route == LastRoute(routes, LAMBDA r : Matches(r.name_glob, bare))
<1>1. D = 1..Len(routes) /\ Len(routes) \in Nat
  BY DEF WellFormed
<1>2. Len(bare) \in Nat /\ \A i \in D : Len(routes[i].name_glob) \in Nat /\ routes[i] # None
  BY DEF WellFormed
<1>3. \A i \in D : glob_match(routes[i].name_glob, bare) <=> Matches(routes[i].name_glob, bare)
  BY <1>2, GlobIsRight
<1>4. hits = {i \in D : glob_match(routes[i].name_glob, bare)}
  BY <1>3
<1>5. route = IF hits = {} THEN None ELSE routes[Latest(hits)]
  BY DEF LastRoute, Latest
<1>6. for_ingress(cfg, bare) = IF hits = {} THEN None ELSE routes[Latest(hits)]
  <2>1. for_ingress(cfg, bare) =
          LET H == {i \in D : glob_match(routes[i].name_glob, bare)}
          IN IF H = {} THEN None ELSE routes[Latest(H)]
    BY DEF for_ingress, LastRoute, Latest
  <2> HIDE DEF hits, D, routes
  <2> QED BY <1>4, <2>1
<1>7. CASE hits = {}
  <2>1. merged_for(PolicyRuntime(cfg), bare) = compile(merge_spec(cfg.global, None))
    BY <1>6, <1>7 DEF merged_for, LookUp, PolicyRuntime, MergedTable
  <2> QED BY <1>5, <1>7, <2>1
<1>8. CASE hits # {}
  <2> DEFINE i == Latest(hits)
             glob == routes[i].name_glob
             same == {j \in D : routes[j].name_glob = glob}
  <2>1. i \in hits /\ \A j \in hits : j <= i
    <3>1. hits \in SUBSET (1..Len(routes))
      BY <1>1
    <3> HIDE DEF hits
    <3> QED BY <1>1, <1>8, <3>1, LatestExists DEF Latest
  <2>2. i \in D /\ Matches(glob, bare) /\ routes[i] # None
    BY <1>2, <2>1
  <2> HIDE DEF i
  <2>3. Latest(same) = i
    <3>1. i \in same /\ \A j \in same : j \in hits
      BY <2>2
    <3>2. \A j \in same : j <= i
      BY <2>1, <3>1
    <3>3. \A j \in same : j \in Int
      BY <1>1
    <3> HIDE DEF same, D
    <3>4. Latest(same) \in same /\ \A j \in same : j <= Latest(same)
      BY <3>1, <3>2 DEF Latest
    <3>5. Latest(same) <= i /\ i <= Latest(same) /\ i \in Int /\ Latest(same) \in Int
      BY <3>1, <3>2, <3>3, <3>4
    <3> QED BY <3>5
  <2>4. Inserted(cfg, glob) = routes[i]
    <3>1. Inserted(cfg, glob) = IF same = {} THEN None ELSE routes[Latest(same)]
      BY DEF Inserted, LastRoute, Latest
    <3> QED BY <2>2, <2>3, <3>1
  <2>5. for_ingress(cfg, bare) = routes[i]
    BY <1>6, <1>8 DEF i
  <2>6. glob \in Globs(cfg)
    BY <2>2 DEF Globs
  <2>7. merged_for(PolicyRuntime(cfg), bare) = MergedTable(cfg).by_glob[glob]
    BY <2>2, <2>5 DEF merged_for, LookUp, PolicyRuntime
  <2>8. MergedTable(cfg).by_glob[glob] = compile(merge_spec(cfg.global, Inserted(cfg, glob)))
    <3> HIDE DEF glob
    <3> QED BY <2>6 DEF MergedTable
  <2>9. route = routes[i]
    BY <1>5, <1>8 DEF i
  <2> QED BY <1>8, <2>2, <2>4, <2>7, <2>8, <2>9
<1> QED BY <1>7, <1>8

-----------------------------------------------------------------------------
(* ------------------------------ the merges ----------------------------- *)

Rules(section) == IF section = None THEN << >> ELSE section.static_rules

\* The sections of a route policy over the global ones, field by field.
LEMMA LimitsMerged ==
  ASSUME NEW g, NEW r, g # None /\ r # None => merge_limits(g, r) # None
  PROVE  /\ Section(merge_limits(g, r), "ip") = or_else(Section(r, "ip"), Section(g, "ip"))
         /\ Section(merge_limits(g, r), "consumer")
              = or_else(Section(r, "consumer"), Section(g, "consumer"))
<1>1. CASE g = None \/ r = None
  BY <1>1 DEF merge_limits, Section, or_else
<1>2. CASE g # None /\ r # None
  <2>1. merge_limits(g, r) = [ip |-> or_else(r.ip, g.ip), consumer |-> or_else(r.consumer, g.consumer)]
    BY <1>2 DEF merge_limits
  <2> QED BY <1>2, <2>1 DEF Section
<1> QED BY <1>1, <1>2

LEMMA QuotaMerged ==
  ASSUME NEW g, NEW r,
         LET by == or_else(Section(r, "by_model_tokens"), Section(g, "by_model_tokens"))
         IN by # None => [by_model_tokens |-> by] # None
  PROVE  Section(merge_quota(g, r), "by_model_tokens")
           = or_else(Section(r, "by_model_tokens"), Section(g, "by_model_tokens"))
<1> DEFINE by == or_else(Section(r, "by_model_tokens"), Section(g, "by_model_tokens"))
<1>1. merge_quota(g, r) = IF by = None THEN None ELSE [by_model_tokens |-> by]
  BY DEF merge_quota
<1>2. by # None => [by_model_tokens |-> by] # None
  OBVIOUS
<1> HIDE DEF by
<1>3. Section(merge_quota(g, r), "by_model_tokens") = by
  BY <1>1, <1>2 DEF Section
<1> QED BY <1>3 DEF by

LEMMA EmptyRules ==
  ASSUME NEW g, g # None => g.static_rules \in Seq(STRING)
  PROVE  Rules(g) \o << >> = Rules(g) /\ << >> \o Rules(g) = Rules(g)
<1>1. CASE g = None
  <2>1. Rules(g) = << >>
    BY <1>1 DEF Rules
  <2> QED BY <2>1
<1>2. CASE g # None
  <2> DEFINE rules == g.static_rules
  <2>1. Rules(g) = rules /\ rules \in Seq(STRING)
    BY <1>2 DEF Rules
  <2> HIDE DEF rules
  <2> QED BY <2>1
<1> QED BY <1>1, <1>2

LEMMA GuardrailMerged ==
  ASSUME NEW g, NEW r,
         g # None /\ r # None => merge_guardrail(g, r) # None,
         r # None => r.fail_mode # None,
         Rules(g) \o << >> = Rules(g), << >> \o Rules(r) = Rules(r)
  PROVE  LET m == merge_guardrail(g, r)
         IN /\ Section(m, "fail_mode") = or_else(Section(r, "fail_mode"), Section(g, "fail_mode"))
            /\ Section(m, "llm") = or_else(Section(r, "llm"), Section(g, "llm"))
            /\ Rules(m) = Rules(g) \o Rules(r)
<1>1. CASE r = None
  <2>1. merge_guardrail(g, r) = g /\ Rules(r) = << >>
    BY <1>1 DEF merge_guardrail, or_else, Rules
  <2> QED BY <1>1, <2>1 DEF Section, or_else
<1>2. CASE g = None /\ r # None
  <2>1. merge_guardrail(g, r) = r /\ Rules(g) = << >>
    BY <1>2 DEF merge_guardrail, or_else, Rules
  <2> QED BY <1>2, <2>1 DEF Section, or_else
<1>3. CASE g # None /\ r # None
  <2>1. merge_guardrail(g, r) = [fail_mode |-> r.fail_mode,
                                 static_rules |-> g.static_rules \o r.static_rules,
                                 llm |-> or_else(r.llm, g.llm)]
    BY <1>3 DEF merge_guardrail
  <2> DEFINE m == merge_guardrail(g, r)
             rules == g.static_rules \o r.static_rules
             llm == or_else(r.llm, g.llm)
  <2>2. m # None
    BY <1>3
  <2>3. m.fail_mode = r.fail_mode /\ m.static_rules = rules /\ m.llm = llm
    <3> HIDE DEF m, rules, llm
    <3>1. m = [fail_mode |-> r.fail_mode, static_rules |-> rules, llm |-> llm]
      BY <2>1 DEF m, rules, llm
    <3> QED BY <3>1
  <2>4. Rules(m) = rules /\ Section(m, "fail_mode") = r.fail_mode /\ Section(m, "llm") = llm
    <3> HIDE DEF m, rules, llm
    <3> QED BY <2>2, <2>3 DEF Rules, Section
  <2>5. Rules(g) \o Rules(r) = rules
    BY <1>3 DEF Rules
  <2>6. or_else(Section(r, "fail_mode"), Section(g, "fail_mode")) = r.fail_mode
    BY <1>3 DEF Section, or_else
  <2>7. or_else(Section(r, "llm"), Section(g, "llm")) = or_else(r.llm, g.llm)
    BY <1>3 DEF Section
  <2> QED BY <2>4, <2>5, <2>6, <2>7
<1> QED BY <1>1, <1>2, <1>3

\* What Documented says of a route policy, or of none.
Fields(global, route) ==
  LET own(f) == Section(route, f)
      both(section, f) == or_else(Section(own(section), f), Section(global[section], f))
  IN [ip |-> both("limits", "ip"), consumer |-> both("limits", "consumer"),
      tokens |-> both("quota", "by_model_tokens"),
      fail_mode |-> both("guardrail", "fail_mode"), llm |-> both("guardrail", "llm"),
      rules |-> Rules(global.guardrail) \o Rules(own("guardrail")),
      actions |-> own("policy")]

LEMMA MergeIsRight ==
  ASSUME NEW cfg, WellFormed(cfg), NEW route,
         route = None \/ \E i \in DOMAIN cfg.routes : route = cfg.routes[i]
  PROVE  Effective(compile(merge_spec(cfg.global, route))) = Fields(cfg.global, route)
<1> DEFINE g == cfg.global
           m == merge_spec(g, route)
<1>1. compile(m).policy = m
  BY DEF compile
<1>2. Effective(compile(m)) =
        [ip |-> Section(m.limits, "ip"), consumer |-> Section(m.limits, "consumer"),
         tokens |-> Section(m.quota, "by_model_tokens"),
         fail_mode |-> Section(m.guardrail, "fail_mode"), llm |-> Section(m.guardrail, "llm"),
         rules |-> Rules(m.guardrail), actions |-> m.actions]
  <2> HIDE DEF m
  <2> QED BY <1>1 DEF Effective, Rules
<1>3. CASE route = None
  <2>1. m = [limits |-> g.limits, quota |-> g.quota, guardrail |-> g.guardrail, actions |-> None]
    BY <1>3 DEF merge_spec
  <2>2. \A s, f : or_else(Section(None, f), Section(s, f)) = Section(s, f)
    BY DEF or_else, Section
  <2>3. \A f : Section(route, f) = None
    BY <1>3 DEF Section
  <2>4. Rules(g.guardrail) \o Rules(None) = Rules(g.guardrail)
    <3>1. g.guardrail # None => g.guardrail.static_rules \in Seq(STRING)
      BY DEF WellFormed
    <3>2. Rules(None) = << >>
      BY DEF Rules
    <3> QED BY <3>1, <3>2, EmptyRules
  <2>5. Fields(g, route) =
          [ip |-> Section(g.limits, "ip"), consumer |-> Section(g.limits, "consumer"),
           tokens |-> Section(g.quota, "by_model_tokens"),
           fail_mode |-> Section(g.guardrail, "fail_mode"), llm |-> Section(g.guardrail, "llm"),
           rules |-> Rules(g.guardrail), actions |-> None]
    BY <2>2, <2>3, <2>4 DEF Fields
  <2>6. /\ m.limits = g.limits /\ m.quota = g.quota /\ m.guardrail = g.guardrail
        /\ m.actions = None
    BY <2>1
  <2> HIDE DEF m, g
  <2>7. Effective(compile(m)) = Fields(g, route)
    BY <1>2, <2>5, <2>6
  <2> QED BY <2>7 DEF m, g
<1>4. CASE route # None
  <2>1. PICK i \in DOMAIN cfg.routes : route = cfg.routes[i]
    BY <1>4
  <2>2. /\ route.guardrail # None => route.guardrail.static_rules \in Seq(STRING) /\ route.guardrail.fail_mode # None
        /\ g.guardrail # None => g.guardrail.static_rules \in Seq(STRING)
        /\ g.limits # None /\ route.limits # None => merge_limits(g.limits, route.limits) # None
        /\ g.guardrail # None /\ route.guardrail # None
             => merge_guardrail(g.guardrail, route.guardrail) # None
        /\ LET by == or_else(Section(route.quota, "by_model_tokens"), Section(g.quota, "by_model_tokens"))
           IN by # None => [by_model_tokens |-> by] # None
    BY <2>1 DEF WellFormed
  <2>3. m = [limits |-> merge_limits(g.limits, route.limits),
             quota |-> merge_quota(g.quota, route.quota),
             guardrail |-> merge_guardrail(g.guardrail, route.guardrail),
             actions |-> route.policy]
    BY <1>4 DEF merge_spec
  <2> HIDE DEF m
  <2>4. Section(m.limits, "ip") = or_else(Section(route.limits, "ip"), Section(g.limits, "ip"))
    BY <2>2, <2>3, LimitsMerged
  <2>5. Section(m.limits, "consumer") = or_else(Section(route.limits, "consumer"), Section(g.limits, "consumer"))
    BY <2>2, <2>3, LimitsMerged
  <2>6. Section(m.quota, "by_model_tokens")
          = or_else(Section(route.quota, "by_model_tokens"), Section(g.quota, "by_model_tokens"))
    BY <2>2, <2>3, QuotaMerged
  <2>7. /\ Rules(g.guardrail) \o << >> = Rules(g.guardrail)
         /\ << >> \o Rules(route.guardrail) = Rules(route.guardrail)
    BY <2>2, EmptyRules
  <2>8. /\ Section(m.guardrail, "fail_mode")
             = or_else(Section(route.guardrail, "fail_mode"), Section(g.guardrail, "fail_mode"))
        /\ Section(m.guardrail, "llm") = or_else(Section(route.guardrail, "llm"), Section(g.guardrail, "llm"))
        /\ Rules(m.guardrail) = Rules(g.guardrail) \o Rules(route.guardrail)
    BY <2>2, <2>3, <2>7, GuardrailMerged
  <2>9. \A f : Section(route, f) = route[f]
    BY <1>4 DEF Section
  <2>10. Fields(g, route) =
          [ip |-> or_else(Section(route.limits, "ip"), Section(g.limits, "ip")),
           consumer |-> or_else(Section(route.limits, "consumer"), Section(g.limits, "consumer")),
           tokens |-> or_else(Section(route.quota, "by_model_tokens"), Section(g.quota, "by_model_tokens")),
           fail_mode |-> or_else(Section(route.guardrail, "fail_mode"), Section(g.guardrail, "fail_mode")),
           llm |-> or_else(Section(route.guardrail, "llm"), Section(g.guardrail, "llm")),
           rules |-> Rules(g.guardrail) \o Rules(route.guardrail),
           actions |-> route.policy]
    BY <2>9 DEF Fields
  <2>11. m.actions = route.policy
    BY <2>3
  <2> HIDE DEF g
  <2>12. Effective(compile(m)) = Fields(g, route)
    BY <1>2, <2>4, <2>5, <2>6, <2>8, <2>10, <2>11
  <2> QED BY <2>12 DEF m, g
<1> QED BY <1>3, <1>4

\* For every well-formed document and every name: what the index serves is what
\* the document says.
LEMMA IndexServesDocument ==
  ASSUME NEW cfg, WellFormed(cfg), NEW bare \in Seq(STRING)
  PROVE  LET entry == merged_for(PolicyRuntime(cfg), bare)
             doc == Documented(cfg, bare)
             bad == \E i \in DOMAIN doc.rules : doc.rules[i] \in BadRules
         IN /\ Effective(entry) = doc
            /\ entry.static_set = IF bad \/ doc.rules = << >> THEN None ELSE doc.rules
<1> DEFINE route == LastRoute(cfg.routes, LAMBDA r : Matches(r.name_glob, bare))
           entry == merged_for(PolicyRuntime(cfg), bare)
           doc == Documented(cfg, bare)
<1>1. /\ route = None \/ \E i \in DOMAIN cfg.routes : route = cfg.routes[i]
      /\ entry = compile(merge_spec(cfg.global, route))
  BY IndexIsRight
<1>2. doc = Fields(cfg.global, route)
  BY DEF Documented, Fields, Rules
<1> HIDE DEF route, entry, doc
<1>3. Effective(entry) = doc
  BY <1>1, <1>2, MergeIsRight
<1>4. doc.rules = Rules(entry.policy.guardrail)
  <2>1. Effective(entry).rules = Rules(entry.policy.guardrail)
    BY DEF Effective, Rules
  <2> QED BY <1>3, <2>1
<1>5. entry.policy = merge_spec(cfg.global, route)
  BY <1>1 DEF compile
<1>6. entry.static_set = IF /\ doc.rules # << >>
                            /\ \A i \in DOMAIN doc.rules : doc.rules[i] \notin BadRules
                         THEN doc.rules ELSE None
  BY <1>1, <1>4, <1>5 DEF compile, Rules
<1>7. entry.static_set = IF (\E i \in DOMAIN doc.rules : doc.rules[i] \in BadRules) \/ doc.rules = << >>
                         THEN None ELSE doc.rules
  BY <1>6
<1> QED BY <1>3, <1>7 DEF entry, doc

-----------------------------------------------------------------------------
(* ---------------------------- the live policy -------------------------- *)

\* What a swap puts in force is a document with the index made of it.
Whole == \E cfg \in Policies \cup {default} : state = PolicyRuntime(cfg)

LEMMA DefaultWellFormed == WellFormed(default)
<1>1. default.routes = << >> /\ default.global.guardrail = None
  BY DEF default
<1>2. DOMAIN default.routes = {} /\ default.routes \in Seq({default.routes[i] : i \in DOMAIN default.routes})
  BY <1>1
<1> QED BY <1>1, <1>2 DEF WellFormed

LEMMA WholeStep == Whole /\ [LoaderNext]_loaderVars => Whole'
<1> SUFFICES ASSUME Whole, [LoaderNext]_loaderVars PROVE Whole'
  OBVIOUS
<1>1. ASSUME NEW p \in Reloaders, StorePolicy(p) PROVE Whole'
  <2>1. parsed(got[p]) \in Policies \cup {default}
    BY DEF parsed
  <2> QED BY <1>1, <2>1 DEF StorePolicy, Whole
<1>2. CASE UNCHANGED state
  BY <1>2 DEF Whole
<1>3. CASE PollStat \/ PollCompare \/ UNCHANGED loaderVars
  BY <1>2, <1>3 DEF PollStat, PollCompare, loaderVars, inForce
<1>4. ASSUME NEW p \in Admins, AdminReload(p) PROVE Whole'
  BY <1>2, <1>4 DEF AdminReload, inForce
<1>5. ASSUME NEW p \in Reloaders, Reload(p), ~StorePolicy(p) PROVE Whole'
  BY <1>2, <1>5 DEF Reload, IsFile, Read, ReadFails, ReadIoError, Stat, Watermark, Loaded, inForce
<1>6. ASSUME NEW c \in Contents \cup {NoFile}, Edit(c) PROVE Whole'
  BY <1>2, <1>6 DEF Edit, inForce
<1> QED BY <1>1, <1>3, <1>4, <1>5, <1>6 DEF LoaderNext

\* Whatever documents are loaded and however the reloads interleave, each request
\* is served by the merged entry that the document in force documents for its
\* ingress: the glob loop finds the route policy the glob means, the index holds
\* the entry of that route policy although an entry is keyed by its glob only, and
\* the merged sections and rules are the documented ones.
THEOREM PolicyServedAsDocumented == LoaderSpec => []EffectivePolicyIsDocumented
<1>1. LoaderInit => Whole
  <2>1. \A c : parsed(c) \in Policies \cup {default}
    BY DEF parsed
  <2> QED BY <2>1 DEF LoaderInit, Whole
<1>2. Whole => EffectivePolicyIsDocumented
  <2> SUFFICES ASSUME Whole, NEW bare \in Names
               PROVE  LET entry == merged_for(state, bare)
                          doc == Documented(state.config, bare)
                          bad == \E i \in DOMAIN doc.rules : doc.rules[i] \in BadRules
                      IN /\ Effective(entry) = doc
                         /\ entry.static_set = IF bad \/ doc.rules = << >> THEN None ELSE doc.rules
    BY DEF EffectivePolicyIsDocumented
  <2>1. PICK cfg \in Policies \cup {default} : state = PolicyRuntime(cfg)
    BY DEF Whole
  <2>2. WellFormed(cfg) /\ bare \in Seq(STRING)
    BY <2>1, DocumentShape, DefaultWellFormed
  <2>3. state.config = cfg
    BY <2>1 DEF PolicyRuntime
  <2> QED BY <2>1, <2>2, <2>3, IndexServesDocument
<1> QED BY <1>1, <1>2, WholeStep, PTL DEF LoaderSpec

(* ------------------------------- types --------------------------------- *)

LEMMA LoaderTypesStep == LoaderTypeOK /\ [LoaderNext]_loaderVars => LoaderTypeOK'
<1> SUFFICES ASSUME LoaderTypeOK, [LoaderNext]_loaderVars PROVE LoaderTypeOK'
  OBVIOUS
<1>1. Poller \in Reloaders /\ Admins \subseteq Reloaders
  BY DEF Reloaders
<1>2. mtime \in Mtimes /\ \A c : parsed(c) \in Policies \cup {default}
  BY DEF LoaderTypeOK, mtime, Mtimes, parsed
<1>3. CASE PollStat \/ PollCompare
  BY <1>1, <1>2, <1>3 DEF PollStat, PollCompare, Goto, LoaderTypeOK, Steps, file, inForce
<1>4. ASSUME NEW p \in Admins, AdminReload(p) PROVE LoaderTypeOK'
  BY <1>1, <1>4 DEF AdminReload, Goto, LoaderTypeOK, Steps, file, inForce
<1>5. ASSUME NEW p \in Reloaders, IsFile(p) \/ Read(p) \/ ReadIoError(p) PROVE LoaderTypeOK'
  <2>1. UNCHANGED <<content, edits, inForce, mt>> /\ ioErrors' \in 0..MaxIoErrors
    <3>1. UNCHANGED <<content, edits, inForce, mt>>
      BY <1>5 DEF IsFile, Read, ReadIoError, ReadFails, file
    <3>2. UNCHANGED ioErrors \/ (ioErrors < MaxIoErrors /\ ioErrors' = ioErrors + 1)
      BY <1>5 DEF IsFile, Read, ReadIoError, file
    <3> QED BY <3>1, <3>2, LoaderConstants DEF LoaderTypeOK
  <2>2. got' \in [Reloaders -> Contents \cup {NoFile}]
    BY <1>5 DEF IsFile, Read, ReadIoError, LoaderTypeOK
  <2>3. pc' \in [Reloaders -> Steps]
    BY <1>5 DEF IsFile, Read, ReadIoError, ReadFails, Goto, Return, LoaderTypeOK, Steps
  <2>4. result' \in [Reloaders -> BOOLEAN]
    BY <1>5 DEF IsFile, Read, ReadIoError, ReadFails, Return, LoaderTypeOK
  <2> QED BY <2>1, <2>2, <2>3, <2>4 DEF LoaderTypeOK, inForce, Mtimes, Contents
<1>6. ASSUME NEW p \in Reloaders, StorePolicy(p) PROVE LoaderTypeOK'
  <2>1. state'.config \in Policies \cup {default}
    BY <1>2, <1>6 DEF StorePolicy, PolicyRuntime
  <2> QED BY <1>6, <2>1 DEF StorePolicy, Goto, LoaderTypeOK, Steps, file
<1>7. ASSUME NEW p \in Reloaders, Stat(p) \/ Watermark(p) PROVE LoaderTypeOK'
  BY <1>2, <1>7 DEF Stat, Watermark, Goto, LoaderTypeOK, Steps, file, inForce
<1>8. ASSUME NEW p \in Reloaders, Loaded(p) PROVE LoaderTypeOK'
  BY <1>8 DEF Loaded, Goto, Return, LoaderTypeOK, Steps, file
<1>9. ASSUME NEW c \in Contents \cup {NoFile}, Edit(c) PROVE LoaderTypeOK'
  BY <1>9, LoaderConstants DEF Edit, LoaderTypeOK, inForce
<1>10. CASE UNCHANGED loaderVars
  BY <1>10 DEF loaderVars, LoaderTypeOK
<1> QED BY <1>3, <1>4, <1>5, <1>6, <1>7, <1>8, <1>9, <1>10 DEF LoaderNext, Reload

\* The policy in force is always one that a document gave or the default, and
\* each reload is at one of its steps with a content and an mtime of the file.
THEOREM LoaderTypeCorrect == LoaderSpec => []LoaderTypeOK
<1>1. LoaderInit => LoaderTypeOK
  <2>1. \A c : PolicyRuntime(parsed(c)).config \in Policies \cup {default}
    BY DEF parsed, PolicyRuntime
  <2> QED BY <2>1, LoaderConstants DEF LoaderInit, LoaderTypeOK, Steps, Mtimes, mtime, Contents
<1> QED BY <1>1, LoaderTypesStep, PTL DEF LoaderSpec

(* ------------------------- no silent downgrade ------------------------- *)

\* A reload stores only what it parsed.
ReadParsed ==
  /\ pc \in [Reloaders -> Steps]
  /\ got \in [Reloaders -> Contents \cup {NoFile}]
  /\ content \in Contents \cup {NoFile}
  /\ \A p \in Reloaders : pc[p] = "store" => got[p] # Malformed

\* When the file only changes between reloads, what a reload has read is what the
\* file holds.
ReadCurrent ==
  \A p \in Reloaders :
    /\ pc[p] = "read" => content # NoFile
    /\ pc[p] = "store" => content # NoFile /\ got[p] = content

LEMMA ReadParsedStep == ReadParsed /\ [LoaderNext]_loaderVars => ReadParsed'
<1> SUFFICES ASSUME ReadParsed, [LoaderNext]_loaderVars PROVE ReadParsed'
  OBVIOUS
<1> USE DEF ReadParsed, Goto, Return, Steps
<1>1. CASE PollStat \/ PollCompare
  <2>1. Poller \in Reloaders
    BY DEF Reloaders
  <2> QED BY <1>1, <2>1 DEF PollStat, PollCompare, file
<1>2. CASE UNCHANGED loaderVars
  BY <1>2 DEF loaderVars
<1>3. ASSUME NEW p \in Admins, AdminReload(p) PROVE ReadParsed'
  <2>1. p \in Reloaders
    BY DEF Reloaders
  <2> QED BY <1>3, <2>1 DEF AdminReload, file
<1>4. ASSUME NEW p \in Reloaders, IsFile(p) PROVE ReadParsed'
  BY <1>4 DEF IsFile, file
<1>5. ASSUME NEW p \in Reloaders, Read(p) PROVE ReadParsed'
  BY <1>5 DEF Read, ReadFails, parses, file
<1>6. ASSUME NEW p \in Reloaders, ReadIoError(p) PROVE ReadParsed'
  BY <1>6 DEF ReadIoError, ReadFails
<1>7. ASSUME NEW p \in Reloaders, StorePolicy(p) \/ Stat(p) \/ Watermark(p) \/ Loaded(p)
      PROVE  ReadParsed'
  BY <1>7 DEF StorePolicy, Stat, Watermark, Loaded, file
<1>8. ASSUME NEW c \in Contents \cup {NoFile}, Edit(c) PROVE ReadParsed'
  BY <1>8 DEF Edit
<1> QED BY <1>1, <1>2, <1>3, <1>4, <1>5, <1>6, <1>7, <1>8 DEF LoaderNext, Reload

LEMMA ReadCurrentStep ==
  ASSUME ~RacyEdits
  PROVE  ReadParsed /\ ReadCurrent /\ [LoaderNext]_loaderVars => ReadCurrent'
<1> SUFFICES ASSUME ReadParsed, ReadCurrent, [LoaderNext]_loaderVars PROVE ReadCurrent'
  OBVIOUS
<1> USE DEF ReadParsed, ReadCurrent, Goto, Return
<1>1. CASE PollStat \/ PollCompare
  BY <1>1 DEF PollStat, PollCompare, file, Reloaders
<1>2. CASE UNCHANGED loaderVars
  BY <1>2 DEF loaderVars
<1>3. ASSUME NEW p \in Admins, AdminReload(p) PROVE ReadCurrent'
  BY <1>3 DEF AdminReload, file
<1>4. ASSUME NEW p \in Reloaders, IsFile(p) PROVE ReadCurrent'
  BY <1>4 DEF IsFile, file
<1>5. ASSUME NEW p \in Reloaders, Read(p) PROVE ReadCurrent'
  <2>1. pc[p] = "read" /\ content # NoFile /\ content' = content
    BY <1>5 DEF Read, ReadFails, file
  <2>2. got' = [got EXCEPT ![p] = content] /\ (pc' = [pc EXCEPT ![p] = "store"] \/ pc' = [pc EXCEPT ![p] = "idle"])
    BY <1>5 DEF Read, ReadFails
  <2> QED BY <2>1, <2>2
<1>6. ASSUME NEW p \in Reloaders, ReadIoError(p) PROVE ReadCurrent'
  BY <1>6 DEF ReadIoError, ReadFails
<1>7. ASSUME NEW p \in Reloaders, StorePolicy(p) \/ Stat(p) \/ Watermark(p) \/ Loaded(p)
      PROVE  ReadCurrent'
  BY <1>7 DEF StorePolicy, Stat, Watermark, Loaded, file
<1>8. ASSUME NEW c \in Contents \cup {NoFile}, Edit(c) PROVE ReadCurrent'
  BY <1>8 DEF Edit
<1> QED BY <1>1, <1>2, <1>3, <1>4, <1>5, <1>6, <1>7, <1>8 DEF LoaderNext, Reload

\* The only step that replaces a policy by the default stores what a reload read as
\* blank or missing.
LEMMA DowngradeStores ==
  ReadParsed /\ [LoaderNext]_loaderVars
    => (state.config # default /\ state'.config = default
          => \E p \in Reloaders : pc[p] = "store" /\ got[p] \in {Blank, NoFile})
<1> SUFFICES ASSUME ReadParsed, [LoaderNext]_loaderVars, state.config # default, state'.config = default
             PROVE  \E p \in Reloaders : pc[p] = "store" /\ got[p] \in {Blank, NoFile}
  OBVIOUS
<1>1. state' # state
  OBVIOUS
<1>2. PICK p \in Reloaders : StorePolicy(p)
  BY <1>1 DEF LoaderNext, Reload, PollStat, PollCompare, AdminReload, IsFile, Read, ReadFails,
              ReadIoError, Stat, Watermark, Loaded, Edit, loaderVars, inForce
<1>3. pc[p] = "store" /\ state'.config = parsed(got[p])
  BY <1>2 DEF StorePolicy, Goto, PolicyRuntime
<1>4. got[p] \in Contents \cup {NoFile} /\ got[p] # Malformed
  BY <1>3 DEF ReadParsed
<1>5. got[p] \notin Policies
  BY <1>3, LoaderConstants DEF parsed, Contents
<1> QED BY <1>3, <1>4, <1>5 DEF Contents

LEMMA ReadParsedInit == LoaderInit => ReadParsed /\ ReadCurrent
BY DEF LoaderInit, ReadParsed, ReadCurrent, Steps

\* However the file changes while reloads run: a policy in force is replaced by
\* the all-pass default only by a reload that read a blank file, or one that found
\* the file gone after its is_file test; never because of a malformed or an
\* unreadable file.
THEOREM DowngradeNeedsBlankOrGone ==
  LoaderSpec =>
    [][state.config # default /\ state'.config = default
         => \E p \in Reloaders : pc[p] = "store" /\ got[p] \in {Blank, NoFile}]_loaderVars
<1>1. LoaderInit => ReadParsed
  BY ReadParsedInit
<1> QED BY <1>1, ReadParsedStep, DowngradeStores, PTL DEF LoaderSpec

\* When the file changes only between reloads, only a blank file that is there at
\* the swap replaces a policy in force by the default, whatever reloads overlap.
THEOREM NoSilentDowngradeBetweenEdits ==
  ASSUME ~RacyEdits
  PROVE  LoaderSpec => NoSilentDowngrade
<1>1. LoaderInit => ReadParsed /\ ReadCurrent
  BY ReadParsedInit
<1>2. ReadParsed /\ ReadCurrent /\ [LoaderNext]_loaderVars => (ReadParsed /\ ReadCurrent)'
  BY ReadParsedStep, ReadCurrentStep
<1>3. ReadParsed /\ ReadCurrent /\ [LoaderNext]_loaderVars
        => (state.config # default /\ state'.config = default => content = Blank)
  BY DowngradeStores DEF ReadCurrent
<1>4. ReadParsed /\ ReadCurrent /\ [LoaderNext]_loaderVars
        => [state.config # default /\ state'.config = default => content = Blank]_loaderVars
  BY <1>3
<1> QED BY <1>1, <1>2, <1>4, PTL DEF LoaderSpec, NoSilentDowngrade
=============================================================================
