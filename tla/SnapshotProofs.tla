--------------------------- MODULE SnapshotProofs ---------------------------
(***************************************************************************)
(* What validation, the route table and the translation promise, for       *)
(* snapshots of any objects and routes. The positions that sanitize keeps  *)
(* are counted, and its passes are an iteration that shrinks a finite set; *)
(* a fault is followed by comparing the passes with and without the route. *)
(* What plugins and bridges list is flattened: each entry is traced back   *)
(* to the rule it comes from, in order.                                    *)
(***************************************************************************)
EXTENDS Snapshot, SumTheorems

-----------------------------------------------------------------------------
(* ------------------------------ shrinking ------------------------------ *)

\* A shrinking iteration on the subsets of a finite set ends in a fixpoint.
LEMMA ShrinkingEnds ==
  ASSUME NEW S, IsFiniteSet(S), NEW F \in [SUBSET S -> SUBSET S],
         \A I \in SUBSET S : F[I] \subseteq I,
         NEW g \in [Nat -> SUBSET S], Iterates(g, F, S)
  PROVE  F[g[Cardinality(S) + 1]] = g[Cardinality(S) + 1]
<1> DEFINE T == {n \in Nat : F[g[n]] = g[n] \/ Cardinality(g[n]) + n <= Cardinality(S)}
<1>1. \A n \in Nat : IsFiniteSet(g[n]) /\ Cardinality(g[n]) \in Nat
  BY FS_Subset, FS_CardinalityType
<1>2. 0 \in T
  <2>1. g[0] = S /\ Cardinality(g[0]) \in Nat
    BY <1>1 DEF Iterates
  <2> QED BY <2>1
<1>3. ASSUME NEW n \in Nat, n \in T PROVE n + 1 \in T
  <2>1. g[n + 1] = F[g[n]] /\ g[n] \in SUBSET S
    BY DEF Iterates
  <2>2. CASE F[g[n]] = g[n]
    BY <2>1, <2>2
  <2>3. CASE F[g[n]] # g[n] /\ Cardinality(g[n]) + n <= Cardinality(S)
    <3>1. g[n + 1] \subseteq g[n] /\ g[n + 1] # g[n]
      BY <2>1, <2>3
    <3>2. Cardinality(g[n + 1]) <= Cardinality(g[n]) /\ Cardinality(g[n + 1]) # Cardinality(g[n])
      BY <1>1, <3>1, FS_Subset
    <3>3. Cardinality(g[n + 1]) \in Nat /\ Cardinality(g[n]) \in Nat /\ Cardinality(S) \in Nat
      BY <1>1, FS_CardinalityType
    <3>4. Cardinality(g[n + 1]) + (n + 1) <= Cardinality(S)
      BY <2>3, <3>2, <3>3
    <3> QED BY <3>4
  <2> QED BY <1>3, <2>2, <2>3
<1>4. Cardinality(S) + 1 \in T
  <2> HIDE DEF T
  <2> QED BY <1>2, <1>3, NatSetInduction, FS_CardinalityType
<1>5. PICK n \in Nat, c \in Nat : n = Cardinality(S) + 1 /\ c = Cardinality(g[n])
  BY <1>1, FS_CardinalityType
<1>6. F[g[n]] = g[n] \/ c + n <= n - 1
  BY <1>4, <1>5, FS_CardinalityType
<1> QED BY <1>5, <1>6

-----------------------------------------------------------------------------
(* ------------------------------ the cascade ---------------------------- *)

LEMMA PassFacts ==
  ASSUME NEW q, NEW I, NEW J, I \subseteq J
  PROVE  Pass(q, I) \subseteq I /\ Pass(q, I) \subseteq Pass(q, J)
<1>1. Fallbacks(q, I) \subseteq Fallbacks(q, J)
  BY DEF Fallbacks
<1> QED BY <1>1 DEF Pass

\* The cascade ends in a set that a further pass leaves alone, and every set with
\* that property is part of it.
LEMMA AcceptedIsGreatest ==
  ASSUME NEW q, IsFiniteSet(OneMirror(q))
  PROVE  /\ Accepted(q) \subseteq OneMirror(q) /\ Pass(q, Accepted(q)) = Accepted(q)
         /\ \A I \in SUBSET OneMirror(q) : Pass(q, I) = I => I \subseteq Accepted(q)
<1> DEFINE S == OneMirror(q)
           F == [I \in SUBSET S |-> Pass(q, I)]
           Solves(g) == g = [n \in Nat |-> IF n = 0 THEN S ELSE Pass(q, g[n - 1])]
           after == CHOOSE g : Solves(g)
<1>1. F \in [SUBSET S -> SUBSET S] /\ \A I \in SUBSET S : F[I] = Pass(q, I) /\ F[I] \subseteq I
  BY PassFacts
<1>2. Accepted(q) = after[Cardinality(S) + 1]
  BY DEF Accepted, Passes
<1> HIDE DEF S, F
<1>3. PICK g \in [Nat -> SUBSET S] : Iterates(g, F, S)
  <2>1. S \in SUBSET S
    OBVIOUS
  <2> QED BY <1>1, <2>1, IterationExists
<1>4. Solves(g)
  <2>1. ASSUME NEW n \in Nat PROVE g[n] = IF n = 0 THEN S ELSE Pass(q, g[n - 1])
    <3>1. CASE n = 0
      BY <1>3, <3>1 DEF Iterates
    <3>2. CASE n # 0
      <4>1. n - 1 \in Nat /\ (n - 1) + 1 = n
        BY <3>2
      <4>2. g[(n - 1) + 1] = F[g[n - 1]] /\ g[n - 1] \in SUBSET S
        BY <1>3, <4>1 DEF Iterates
      <4> QED BY <1>1, <3>2, <4>1, <4>2
    <3> QED BY <3>1, <3>2
  <2> QED BY <2>1
<1>5. Solves(after)
  <2> HIDE DEF Solves
  <2> QED BY <1>4
<1> HIDE DEF after
<1>6. after[0] = S /\ \A n \in Nat : after[n + 1] = Pass(q, after[n])
  <2>1. \A n \in Nat : n + 1 # 0 /\ (n + 1) - 1 = n /\ n + 1 \in Nat
    OBVIOUS
  <2>2. \A n \in Nat : after[n] = IF n = 0 THEN S ELSE Pass(q, after[n - 1])
    BY <1>5
  <2> QED BY <2>1, <2>2
<1>7. \A n \in Nat : after[n] \in SUBSET S
  <2> DEFINE T == {n \in Nat : after[n] \in SUBSET S}
  <2>1. 0 \in T
    BY <1>6
  <2>2. \A n \in Nat : n \in T => n + 1 \in T
    BY <1>6, PassFacts
  <2>3. \A n \in Nat : n \in T
    <3> HIDE DEF T
    <3> QED BY <2>1, <2>2, NatSetInduction
  <2> QED BY <2>3
<1>8. after \in [Nat -> SUBSET S] /\ Iterates(after, F, S)
  <2>1. after = [n \in Nat |-> after[n]]
    BY <1>5
  <2>2. after \in [Nat -> SUBSET S]
    BY <1>7, <2>1
  <2>3. \A n \in Nat : after[n + 1] = F[after[n]]
    BY <1>1, <1>6, <1>7
  <2> QED BY <1>6, <2>2, <2>3 DEF Iterates
<1>9. IsFiniteSet(S) /\ Cardinality(S) + 1 \in Nat
  BY FS_CardinalityType DEF S
<1>10. Pass(q, Accepted(q)) = Accepted(q) /\ Accepted(q) \in SUBSET S
  <2>1. F[after[Cardinality(S) + 1]] = after[Cardinality(S) + 1]
    BY <1>1, <1>8, <1>9, ShrinkingEnds
  <2> QED BY <1>1, <1>2, <1>7, <1>9, <2>1
<1>11. ASSUME NEW I \in SUBSET S, Pass(q, I) = I PROVE I \subseteq Accepted(q)
  <2> DEFINE T == {n \in Nat : I \subseteq after[n]}
  <2>1. 0 \in T
    BY <1>6
  <2>2. ASSUME NEW n \in Nat, n \in T PROVE n + 1 \in T
    <3>1. Pass(q, I) \subseteq Pass(q, after[n])
      BY <2>2, PassFacts
    <3> QED BY <1>6, <1>11, <3>1
  <2>3. \A n \in Nat : n \in T
    <3> HIDE DEF T
    <3> QED BY <2>1, <2>2, NatSetInduction
  <2> QED BY <1>2, <1>9, <2>3
<1> QED BY <1>10, <1>11 DEF S

-----------------------------------------------------------------------------
(* ------------------------------ positions ------------------------------ *)

\* Kept numbers the positions of I in order: n is the position of one of them.
LEMMA KeptPositions ==
  ASSUME NEW I, IsFiniteSet(I), \A i \in I : i \in Int
  PROVE  /\ Cardinality(I) \in Nat
         /\ \A n \in 1..Cardinality(I) : Position(I, n) \in I
         /\ \A n, m \in 1..Cardinality(I) : n < m => Position(I, n) < Position(I, m)
         /\ \A i \in I : \E n \in 1..Cardinality(I) : Position(I, n) = i
<1> DEFINE Upto(i) == {j \in I : j <= i}
           N == 1..Cardinality(I)
           rank == [i \in I |-> Cardinality(Upto(i))]
<1>1. Cardinality(I) \in Nat
  BY FS_CardinalityType
<1>2. \A i \in I : /\ IsFiniteSet(Upto(i)) /\ Upto(i) # {}
                   /\ Cardinality(Upto(i)) \in Nat /\ Cardinality(Upto(i)) # 0
                   /\ Cardinality(Upto(i)) <= Cardinality(I)
  <2> TAKE i \in I
  <2>1. Upto(i) \in SUBSET I /\ i \in Upto(i)
    OBVIOUS
  <2> HIDE DEF Upto
  <2>2. IsFiniteSet(Upto(i)) /\ Cardinality(Upto(i)) <= Cardinality(I)
    BY <2>1, FS_Subset
  <2> QED BY <2>1, <2>2, FS_CardinalityType, FS_EmptySet
<1>3. \A i, j \in I : i < j => Cardinality(Upto(i)) < Cardinality(Upto(j))
  <2> SUFFICES ASSUME NEW i \in I, NEW j \in I, i < j
               PROVE  Cardinality(Upto(i)) < Cardinality(Upto(j))
    OBVIOUS
  <2>1. Upto(i) \in SUBSET Upto(j) /\ j \in Upto(j) /\ j \notin Upto(i)
    OBVIOUS
  <2> HIDE DEF Upto
  <2>2. /\ Cardinality(Upto(i)) <= Cardinality(Upto(j))
        /\ Cardinality(Upto(i)) # Cardinality(Upto(j))
    BY <1>2, <2>1, FS_Subset
  <2> QED BY <1>2, <2>2
<1>4. rank \in [I -> N] /\ \A i \in I : rank[i] = Cardinality(Upto(i))
  <2> HIDE DEF Upto
  <2> QED BY <1>1, <1>2
<1>5. \A n \in N : Position(I, n) = CHOOSE i \in I : Cardinality(Upto(i)) = n
  BY DEF Position
<1> HIDE DEF rank, Upto
<1>6. \A i, j \in I : rank[i] = rank[j] => i = j
  <2> SUFFICES ASSUME NEW i \in I, NEW j \in I, rank[i] = rank[j] PROVE i = j
    OBVIOUS
  <2>1. i \in Int /\ j \in Int /\ rank[i] \in Int
    BY <1>1, <1>4
  <2>2. (i < j => rank[i] < rank[j]) /\ (j < i => rank[j] < rank[i])
    BY <1>3, <1>4
  <2>3. ~(i < j) /\ ~(j < i)
    BY <2>1, <2>2
  <2> QED BY <2>1, <2>3
<1>7. IsFiniteSet(N) /\ Cardinality(N) = Cardinality(I)
  BY <1>1, FS_Interval
<1>8. \A n \in N : \E i \in I : rank[i] = n
  <2> HIDE DEF N
  <2>1. rank \in Injection(I, N)
    BY <1>4, <1>6 DEF Injection, IsInjective
  <2>2. rank \in Surjection(I, N)
    BY <1>7, <2>1, FS_Injection
  <2> QED BY <2>2 DEF Surjection
<1> HIDE DEF N
<1>9. \A n \in N : Position(I, n) \in I /\ rank[Position(I, n)] = n
  BY <1>4, <1>8, <1>5
<1>10. \A i \in I : rank[i] \in N /\ Position(I, rank[i]) = i
  BY <1>4, <1>6, <1>9
<1>11. \A n, m \in N : n < m => Position(I, n) < Position(I, m)
  <2> SUFFICES ASSUME NEW n \in N, NEW m \in N, n < m PROVE Position(I, n) < Position(I, m)
    OBVIOUS
  <2>1. PICK i \in I, j \in I : i = Position(I, n) /\ j = Position(I, m)
    BY <1>9
  <2>2. n \in Int /\ m \in Int /\ i \in Int /\ j \in Int
    BY <1>1 DEF N
  <2>3. rank[i] = n /\ rank[j] = m
    BY <1>9, <2>1
  <2>4. ~(j < i) /\ i # j
    BY <1>3, <1>4, <2>2, <2>3
  <2> QED BY <2>1, <2>2, <2>4
<1> QED BY <1>1, <1>9, <1>10, <1>11 DEF N

LEMMA KeptFacts ==
  ASSUME NEW s, NEW I, IsFiniteSet(I), \A i \in I : i \in Int
  PROVE  /\ Cardinality(I) \in Nat /\ DOMAIN Kept(s, I) = 1..Cardinality(I)
         /\ Kept(s, I) = [n \in 1..Cardinality(I) |-> Kept(s, I)[n]]
         /\ \A n \in DOMAIN Kept(s, I) : Position(I, n) \in I /\ Kept(s, I)[n] = s[Position(I, n)]
         /\ \A n, m \in DOMAIN Kept(s, I) : n < m => Position(I, n) < Position(I, m)
         /\ \A i \in I : \E n \in DOMAIN Kept(s, I) : Position(I, n) = i /\ Kept(s, I)[n] = s[i]
<1>1. DOMAIN Kept(s, I) = 1..Cardinality(I)
  BY DEF Kept
<1>2. \A n \in 1..Cardinality(I) : Kept(s, I)[n] = s[Position(I, n)]
  BY DEF Kept
<1>3. Kept(s, I) = [n \in 1..Cardinality(I) |-> Kept(s, I)[n]]
  BY DEF Kept
<1> QED BY <1>1, <1>2, <1>3, KeptPositions

-----------------------------------------------------------------------------
(* ------------------------- what sanitize accepts ----------------------- *)

LEMMA SeqFacts ==
  ASSUME NEW s, IsSeq(s)
  PROVE  /\ Len(s) \in Nat /\ DOMAIN s = 1..Len(s)
         /\ IsFiniteSet(DOMAIN s) /\ \A i \in DOMAIN s : i \in Nat
<1>1. Len(s) \in Nat /\ DOMAIN s = 1..Len(s)
  BY DEF IsSeq
<1>2. IsFiniteSet(1..Len(s))
  BY <1>1, FS_Interval
<1> QED BY <1>1, <1>2

LEMMA MadeSeq ==
  ASSUME NEW s, NEW n \in Nat, s = [i \in 1..n |-> s[i]]
  PROVE  IsSeq(s) /\ Len(s) = n
<1>1. s \in [1..n -> Range(s)]
  BY DEF Range
<1>2. s \in Seq(Range(s))
  BY <1>1
<1>3. DOMAIN s = 1..n
  OBVIOUS
<1>4. Len(s) = n
  BY <1>2, <1>3
<1> QED BY <1>2, <1>4 DEF IsSeq

LEMMA PassClosed ==
  ASSUME NEW q, NEW I
  PROVE  Pass(q, I) = I <=> \A i \in I : q[i].target # None => q[i].target \in Fallbacks(q, I)
  BY DEF Pass

LEMMA OneMirrorFacts ==
  ASSUME NEW q, IsSeq(q)
  PROVE  /\ OneMirror(q) \subseteq Sound(q) /\ Sound(q) \subseteq DOMAIN q
         /\ IsFiniteSet(OneMirror(q)) /\ \A i \in OneMirror(q) : i \in Int
<1>1. OneMirror(q) \subseteq Sound(q) /\ Sound(q) \subseteq DOMAIN q
  BY DEF OneMirror, Sound
<1> QED BY <1>1, SeqFacts, FS_Subset

\* No two routes of the snapshot share a kind and a key, nor are two mirrors.
LEMMA OneOfAKind ==
  ASSUME NEW q, IsSeq(q), NEW i \in OneMirror(q), NEW j \in OneMirror(q),
         q[i].kind = q[j].kind, q[i].key = q[j].key \/ q[i].kind = "Mirror"
  PROVE  i = j
<1>1. i \in DOMAIN q /\ j \in DOMAIN q /\ ~Duplicate(q, i) /\ ~Duplicate(q, j)
  BY OneMirrorFacts DEF Sound
<1>2. i \in Nat /\ j \in Nat /\ i \in 1..Len(q) /\ j \in 1..Len(q)
  BY <1>1, SeqFacts
<1>3. CASE q[i].key = q[j].key
  <2>1. i \notin 1..(j - 1) /\ j \notin 1..(i - 1)
    BY <1>1, <1>3 DEF Duplicate
  <2> QED BY <1>2, <2>1
<1>4. CASE q[i].kind = "Mirror"
  <2>1. i \in Mirrors(q, Sound(q)) /\ j \in Mirrors(q, Sound(q))
    BY <1>4, OneMirrorFacts DEF Mirrors
  <2>2. i <= j /\ j <= i
    BY <2>1 DEF OneMirror
  <2> QED BY <1>2, <2>2
<1> QED BY <1>3, <1>4

LinksInside(q) ==
  \A i \in DOMAIN q : q[i].target # None => q[i].target \in Fallbacks(q, DOMAIN q)
KeysUnique(q) ==
  \A i, j \in DOMAIN q :
    q[i].kind = q[j].kind /\ (q[i].key = q[j].key \/ q[i].kind = "Mirror") => i = j

\* The accepted routes, renumbered.
LEMMA AcceptedConsistent ==
  ASSUME NEW q, IsSeq(q)
  PROVE  LET kept == Kept(q, Accepted(q)) IN
         /\ IsSeq(kept) /\ LinksInside(kept) /\ KeysUnique(kept)
         /\ \A n \in DOMAIN kept : \E i \in Accepted(q) : kept[n] = q[i]
<1> DEFINE A == Accepted(q)
           kept == Kept(q, A)
<1>1. /\ A \subseteq OneMirror(q) /\ Pass(q, A) = A
      /\ IsFiniteSet(OneMirror(q)) /\ \A i \in OneMirror(q) : i \in Int
  BY OneMirrorFacts, AcceptedIsGreatest
<1>2. IsFiniteSet(A) /\ \A i \in A : i \in Int
  BY <1>1, FS_Subset
<1> HIDE DEF A
<1>3. /\ Cardinality(A) \in Nat /\ DOMAIN kept = 1..Cardinality(A)
      /\ kept = [n \in 1..Cardinality(A) |-> kept[n]]
      /\ \A n \in DOMAIN kept : Position(A, n) \in A /\ kept[n] = q[Position(A, n)]
      /\ \A n, m \in DOMAIN kept : n < m => Position(A, n) < Position(A, m)
      /\ \A i \in A : \E n \in DOMAIN kept : Position(A, n) = i /\ kept[n] = q[i]
  BY <1>2, KeptFacts
<1> HIDE DEF kept
<1>4. IsSeq(kept)
  BY <1>3, MadeSeq
<1>5. ASSUME NEW n \in DOMAIN kept, kept[n].target # None
      PROVE  kept[n].target \in Fallbacks(kept, DOMAIN kept)
  <2>1. PICK i \in A : kept[n] = q[i]
    BY <1>3
  <2>2. q[i].target \in Fallbacks(q, A)
    BY <1>1, <1>5, <2>1, PassClosed
  <2>3. PICK j \in A : q[j].kind = "Fallback" /\ q[j].key = q[i].target
    BY <2>2 DEF Fallbacks
  <2>4. PICK m \in DOMAIN kept : kept[m] = q[j]
    BY <1>3
  <2> QED BY <2>1, <2>3, <2>4 DEF Fallbacks
<1>6. ASSUME NEW n \in DOMAIN kept, NEW m \in DOMAIN kept, kept[n].kind = kept[m].kind,
             kept[n].key = kept[m].key \/ kept[n].kind = "Mirror"
      PROVE  n = m
  <2>1. PICK i \in A, j \in A : /\ i = Position(A, n) /\ kept[n] = q[i]
                                /\ j = Position(A, m) /\ kept[m] = q[j]
    BY <1>3
  <2>2. i = j
    BY <1>1, <1>6, <2>1, OneOfAKind
  <2>3. n \in Int /\ m \in Int /\ i \in Int
    BY <1>2, <1>3
  <2>4. (n < m => i < j) /\ (m < n => j < i)
    BY <1>3, <2>1
  <2> QED BY <2>2, <2>3, <2>4
<1>7. LinksInside(kept) /\ KeysUnique(kept)
  BY <1>5, <1>6 DEF LinksInside, KeysUnique
<1>8. \A n \in DOMAIN kept : \E i \in A : kept[n] = q[i]
  BY <1>3
<1> QED BY <1>4, <1>7, <1>8 DEF kept, A

-----------------------------------------------------------------------------
(* ------------------------------ the snapshots -------------------------- *)

\* The sections sanitize changes are there, and the routes are a sequence.
IsConfig(d) ==
  /\ DOMAIN d = DOMAIN Empty /\ d = [x \in DOMAIN Empty |-> d[x]]
  /\ IsSeq(d.routes)

LEMMA SanitizeRoutes ==
  ASSUME NEW d, IsConfig(d)
  PROVE  sanitize(d).routes = Kept(d.routes, Accepted(d.routes))
<1>1. "routes" \in DOMAIN d /\ "registries" \in DOMAIN d /\ "tokens" \in DOMAIN d
  BY DEF IsConfig, Empty, build_config_data
<1> QED BY <1>1 DEF sanitize

LEMMA StoredConsistent ==
  ASSUME NEW d, IsConfig(d), IsSeq(live.routes), LiveIsConsistent, live' = Stored(d)
  PROVE  IsSeq(live'.routes) /\ LiveIsConsistent'
<1>1. CASE ~Builds(sanitize(d))
  BY <1>1 DEF Stored, LiveIsConsistent, Builds
<1>2. CASE Builds(sanitize(d))
  <2>1. live' = sanitize(d)
    BY <1>2 DEF Stored
  <2>2. IsSeq(live'.routes) /\ LinksInside(live'.routes) /\ KeysUnique(live'.routes)
    BY <2>1, SanitizeRoutes, AcceptedConsistent DEF IsConfig
  <2>3. Builds(live)'
    BY <1>2, <2>1 DEF Builds
  <2> QED BY <2>2, <2>3 DEF LiveIsConsistent, LinksInside, KeysUnique
<1> QED BY <1>1, <1>2

-----------------------------------------------------------------------------
(* ------------------------------ translation ---------------------------- *)

\* Object n becomes a route.
Routed(objs, n) == objs[n].kind = "Ingress" /\ Translatable(objs[n])

LEMMA IngressRoutesFacts ==
  ASSUME NEW objs, IsSeq(objs)
  PROVE  LET T == IngressRoutes(objs) IN
         /\ \E k \in Nat : DOMAIN T = 1..k
         /\ \A i \in DOMAIN T : \E n \in DOMAIN objs :
              Routed(objs, n) /\ T[i] = ingress_to_route(objs[n])
         /\ \A n \in DOMAIN objs :
              Routed(objs, n) => \E i \in DOMAIN T : T[i] = ingress_to_route(objs[n])
<1> DEFINE I == {n \in DOMAIN objs : objs[n].kind = "Ingress"}
           O == Of(objs, "Ingress")
           J == {n \in DOMAIN O : Translatable(O[n])}
           P == Kept(O, J)
           T == IngressRoutes(objs)
<1>1. O = Kept(objs, I)
  BY DEF Of, Filter
<1>2. I \subseteq DOMAIN objs /\ IsFiniteSet(I) /\ \A i \in I : i \in Int
  BY SeqFacts, FS_Subset
<1> HIDE DEF O
<1>3. /\ Cardinality(I) \in Nat /\ DOMAIN O = 1..Cardinality(I)
      /\ \A n \in DOMAIN O : \E i \in I : O[n] = objs[i]
      /\ \A i \in I : \E n \in DOMAIN O : O[n] = objs[i]
  <2> HIDE DEF I
  <2> QED BY <1>1, <1>2, KeptFacts
<1>4. J \subseteq DOMAIN O /\ IsFiniteSet(J) /\ \A i \in J : i \in Int
  <2>1. IsFiniteSet(DOMAIN O) /\ \A i \in DOMAIN O : i \in Int
    BY <1>3, FS_Interval
  <2> QED BY <2>1, FS_Subset
<1>5. T = [n \in DOMAIN P |-> ingress_to_route(P[n])]
  BY DEF IngressRoutes, Filter, Map, O
<1>6. /\ Cardinality(J) \in Nat /\ DOMAIN P = 1..Cardinality(J)
      /\ \A n \in DOMAIN P : \E i \in J : P[n] = O[i]
      /\ \A i \in J : \E n \in DOMAIN P : P[n] = O[i]
  <2> HIDE DEF J
  <2> QED BY <1>4, KeptFacts
<1> HIDE DEF P, T
<1>7. DOMAIN T = 1..Cardinality(J) /\ \A n \in DOMAIN T : T[n] = ingress_to_route(P[n])
  BY <1>5, <1>6
<1>8. ASSUME NEW i \in DOMAIN T
      PROVE  \E n \in DOMAIN objs : Routed(objs, n) /\ T[i] = ingress_to_route(objs[n])
  <2>1. PICK j \in J : P[i] = O[j]
    BY <1>6, <1>7
  <2>2. PICK n \in I : O[j] = objs[n]
    BY <1>3
  <2> QED BY <1>7, <2>1, <2>2 DEF Routed
<1>9. ASSUME NEW n \in DOMAIN objs, Routed(objs, n)
      PROVE  \E i \in DOMAIN T : T[i] = ingress_to_route(objs[n])
  <2>1. n \in I
    BY <1>9 DEF Routed
  <2>2. PICK j \in DOMAIN O : O[j] = objs[n]
    BY <1>3, <2>1
  <2>3. j \in J
    BY <1>9, <2>2 DEF Routed
  <2>4. PICK i \in DOMAIN P : P[i] = O[j]
    BY <1>6, <2>3
  <2> QED BY <1>6, <1>7, <2>2, <2>4
<1> QED BY <1>6, <1>7, <1>8, <1>9 DEF T

\* The keys of the Fallback routes of the objects.
Links(objs) == Fallbacks(IngressRoutes(objs), DOMAIN IngressRoutes(objs))

\* The rules of the mapper plugins, what those of an ingress say, and the mapping
\* they become: the first pair of each service.
MapperRules(objs) == Flatten(Of(objs, "WasmPlugin"), wasmplugin_model_mapping)
RulesOf(ingress, rules) == Kept(rules, {n \in DOMAIN rules : ingress \in rules[n].ingress})
PairsOf(ingress, rules) == Flatten(RulesOf(ingress, rules), MappingPairs)
FirstOf(pairs) == {n \in DOMAIN pairs : \A k \in 1..(n - 1) : pairs[k][1] # pairs[n][1]}
MappingOf(ingress, rules) == Kept(PairsOf(ingress, rules), FirstOf(PairsOf(ingress, rules)))

\* Route r is made from object o.
MadeFrom(objs, r, o) ==
  LET kind == classify_ingress_name(o.name) IN
  /\ r.kind = kind /\ r.key = RouteKey(o, kind) /\ r.ingress = o.name
  /\ r.auth = IF kind = "Mirror" THEN "off" ELSE "scoped"
  /\ r.target = IF kind = "Main" /\ o.name \in Links(objs) THEN o.name ELSE None
  /\ r.dests = o.dests /\ r.mapping = MappingOf(o.name, MapperRules(objs))

LEMMA FinishedRoute ==
  ASSUME NEW objs, NEW o, NEW rules, rules = MapperRules(objs)
  PROVE  MadeFrom(objs, wire_fallbacks(objs, merge_model_mapping(ingress_to_route(o), rules),
                                       Links(objs)), o)
<1> DEFINE kind == classify_ingress_name(o.name)
           r == ingress_to_route(o)
           m == merge_model_mapping(r, rules)
           w == wire_fallbacks(objs, m, Links(objs))
<1>1. /\ r.kind = kind /\ r.key = RouteKey(o, kind) /\ r.ingress = o.name /\ r.target = None
      /\ r.dests = o.dests
      /\ r.auth = IF kind = "Mirror" THEN "off" ELSE "scoped"
      /\ DOMAIN r = {"kind", "key", "ingress", "target", "link", "auth", "dests", "preds", "mapping"}
  BY DEF ingress_to_route
<1> HIDE DEF r, kind
<1>2. /\ m.kind = r.kind /\ m.key = r.key /\ m.ingress = r.ingress /\ m.target = r.target
      /\ m.auth = r.auth /\ DOMAIN m = DOMAIN r /\ m.dests = r.dests
      /\ m.mapping = MappingOf(o.name, rules)
  <2>1. m = [r EXCEPT !.mapping = MappingOf(o.name, rules)]
    BY <1>1 DEF merge_model_mapping, MappingOf, PairsOf, FirstOf, RulesOf, Filter
  <2> HIDE DEF m
  <2> QED BY <1>1, <2>1
<1> HIDE DEF m
<1>3. /\ w.kind = m.kind /\ w.key = m.key /\ w.ingress = m.ingress /\ w.auth = m.auth
      /\ w.dests = m.dests /\ w.mapping = m.mapping
      /\ w.target = IF m.kind = "Main" /\ m.ingress \in Links(objs) THEN m.ingress ELSE m.target
  BY <1>1, <1>2 DEF wire_fallbacks
<1> HIDE DEF w
<1>4. MadeFrom(objs, w, o)
  BY <1>1, <1>2, <1>3 DEF MadeFrom, kind
<1> QED BY <1>4 DEF w, m, r

LEMMA BuiltRoutes ==
  ASSUME NEW objs, IsSeq(objs)
  PROVE  LET R == build_config_data(objs).routes IN
         /\ IsConfig(build_config_data(objs))
         /\ \A i \in DOMAIN R : \E n \in DOMAIN objs :
              Routed(objs, n) /\ MadeFrom(objs, R[i], objs[n])
         /\ \A n \in DOMAIN objs :
              Routed(objs, n) => \E i \in DOMAIN R : MadeFrom(objs, R[i], objs[n])
<1> DEFINE d == build_config_data(objs)
           R == d.routes
           T == IngressRoutes(objs)
           rules == MapperRules(objs)
<1>1. R = [i \in DOMAIN T |->
             wire_fallbacks(objs, merge_model_mapping(T[i], rules), Links(objs))]
  BY DEF build_config_data, Map, Links, MapperRules
<1>2. DOMAIN d = DOMAIN Empty /\ d = [x \in DOMAIN Empty |-> d[x]]
  BY DEF build_config_data, Empty
<1> HIDE DEF d, T, rules
<1>3. PICK k \in Nat : DOMAIN T = 1..k
  BY IngressRoutesFacts DEF T
<1>4. DOMAIN R = 1..k /\ R = [i \in 1..k |-> R[i]]
  BY <1>1, <1>3
<1>5. IsConfig(d)
  BY <1>2, <1>4, MadeSeq DEF IsConfig
<1>6. ASSUME NEW i \in DOMAIN T, NEW o, T[i] = ingress_to_route(o)
      PROVE  MadeFrom(objs, R[i], o)
  <2>1. R[i] = wire_fallbacks(objs, merge_model_mapping(T[i], rules), Links(objs))
    BY <1>1
  <2> QED BY <1>6, <2>1, FinishedRoute DEF rules
<1>7. \A i \in DOMAIN R : \E n \in DOMAIN objs : Routed(objs, n) /\ MadeFrom(objs, R[i], objs[n])
  <2> TAKE i \in DOMAIN R
  <2>1. PICK n \in DOMAIN objs : Routed(objs, n) /\ T[i] = ingress_to_route(objs[n])
    BY <1>3, <1>4, IngressRoutesFacts DEF T
  <2> QED BY <1>3, <1>4, <1>6, <2>1
<1>8. ASSUME NEW n \in DOMAIN objs, Routed(objs, n)
      PROVE  \E i \in DOMAIN R : MadeFrom(objs, R[i], objs[n])
  <2>1. PICK i \in DOMAIN T : T[i] = ingress_to_route(objs[n])
    BY <1>8, IngressRoutesFacts DEF T
  <2> QED BY <1>3, <1>4, <1>6, <2>1
<1> QED BY <1>5, <1>7, <1>8 DEF d

-----------------------------------------------------------------------------
(* ----------------------------- the invariant --------------------------- *)

\* What the translation makes sure of, and the core alone does not.
Managed(r) ==
  /\ r.kind = "Main" => /\ r.auth = "scoped" /\ r.ingress[1] = "ai-route-route-"
                        /\ r.target # None => r.target = r.ingress
  /\ r.kind = "Mirror" => r.auth = "off"

SnapshotInv ==
  /\ IsSeq(objects) /\ IsConfig(data) /\ IsSeq(live.routes) /\ LiveIsConsistent
  /\ objects # << >> => data = build_config_data(objects)
  /\ data = build_config_data(objects) =>
       \A i \in DOMAIN live.routes : Managed(live.routes[i])

LEMMA AppendSeq ==
  ASSUME NEW s, IsSeq(s), NEW e
  PROVE  /\ IsSeq(Append(s, e)) /\ Len(Append(s, e)) = Len(s) + 1
         /\ Append(s, e) # << >>
<1> DEFINE X == Range(s) \cup {e}
           t == Append(s, e)
<1>1. s \in Seq(X) /\ Len(s) \in Nat
  <2>1. s \in [1..Len(s) -> Range(s)] /\ Len(s) \in Nat
    BY DEF IsSeq
  <2>2. s \in [1..Len(s) -> X]
    BY <2>1
  <2> QED BY <2>1, <2>2
<1> HIDE DEF X
<1>2. t \in Seq(X \cup {e}) /\ Len(t) = Len(s) + 1
  BY <1>1
<1>3. PICK n \in Nat : n = Len(s) + 1
  BY <1>1
<1>4. t = [i \in 1..n |-> t[i]]
  <2> HIDE DEF t
  <2>1. t \in [1..Len(t) -> X \cup {e}]
    BY <1>2
  <2>2. t \in [1..n -> X \cup {e}]
    BY <1>2, <1>3, <2>1
  <2> QED BY <2>2
<1>5. t # << >>
  BY <1>1, <1>2
<1> HIDE DEF t
<1>6. IsSeq(t)
  BY <1>4, MadeSeq
<1> QED BY <1>2, <1>5, <1>6 DEF t

LEMMA EmptyIsSeq ==
  ASSUME NEW s, s = << >>
  PROVE  IsSeq(s) /\ DOMAIN s = {}
<1>1. DOMAIN s = 1..0
  OBVIOUS
<1>2. DOMAIN s = {}
  BY <1>1
<1>3. s = [i \in 1..0 |-> s[i]]
  BY <1>1
<1> QED BY <1>2, <1>3, MadeSeq

LEMMA ManagedRoutes ==
  ASSUME NEW objs, IsSeq(objs), NEW i \in DOMAIN build_config_data(objs).routes
  PROVE  Managed(build_config_data(objs).routes[i])
<1> DEFINE r == build_config_data(objs).routes[i]
<1>1. PICK n \in DOMAIN objs : MadeFrom(objs, r, objs[n])
  BY BuiltRoutes
<1> HIDE DEF r
<1> DEFINE name == objs[n].name
<1>2. classify_ingress_name(name) = "Main" => name[1] = "ai-route-route-"
  BY DEF classify_ingress_name
<1>3. Managed(r)
  BY <1>1, <1>2 DEF MadeFrom, Managed
<1> QED BY <1>3 DEF r

LEMMA SnapshotInit == Init => SnapshotInv
<1> SUFFICES ASSUME Init PROVE SnapshotInv
  OBVIOUS
<1>1. /\ objects = << >> /\ data = build_config_data(objects) /\ live = data
  BY DEF Init, Empty
<1>2. IsSeq(objects) /\ DOMAIN objects = {}
  BY <1>1, EmptyIsSeq
<1>3. IsConfig(data) /\ DOMAIN data.routes = {}
  BY <1>1, <1>2, BuiltRoutes
<1>4. LiveIsConsistent
  BY <1>1, <1>3 DEF LiveIsConsistent, Builds
<1> QED BY <1>1, <1>3, <1>4, <1>2 DEF SnapshotInv, IsConfig

LEMMA SnapshotApply ==
  ASSUME SnapshotInv, NEW o, Apply(o)
  PROVE  SnapshotInv'
<1>1. /\ objects' = Append(objects, o) /\ data' = build_config_data(objects')
      /\ live' = Stored(data') /\ data = build_config_data(objects)
  BY DEF Apply
<1>2. IsSeq(objects')
  BY <1>1, AppendSeq DEF SnapshotInv
<1>3. IsConfig(data')
  BY <1>1, <1>2, BuiltRoutes
<1>4. IsSeq(live'.routes) /\ LiveIsConsistent'
  BY <1>1, <1>3, StoredConsistent DEF SnapshotInv
<1>5. \A i \in DOMAIN live'.routes : Managed(live'.routes[i])
  <2>1. CASE ~Builds(sanitize(data'))
    BY <1>1, <2>1 DEF Stored, SnapshotInv
  <2>2. CASE Builds(sanitize(data'))
    <3>1. live'.routes = Kept(data'.routes, Accepted(data'.routes))
      BY <1>1, <1>3, <2>2, SanitizeRoutes DEF Stored
    <3> TAKE i \in DOMAIN live'.routes
    <3>2. IsSeq(data'.routes)
      BY <1>3 DEF IsConfig
    <3>3. PICK j \in Accepted(data'.routes) : live'.routes[i] = data'.routes[j]
      BY <3>1, <3>2, AcceptedConsistent
    <3>4. j \in DOMAIN data'.routes
      BY <3>2, OneMirrorFacts, AcceptedIsGreatest
    <3> QED BY <1>1, <1>2, <3>3, <3>4, ManagedRoutes
  <2> QED BY <2>1, <2>2
<1> QED BY <1>1, <1>2, <1>3, <1>4, <1>5 DEF SnapshotInv

\* A snapshot handed over is not one the objects make: none are listed.
LEMMA SnapshotOffer ==
  ASSUME SnapshotInv, NEW r, Offer(r)
  PROVE  SnapshotInv'
<1>1. /\ objects' = objects /\ objects = << >> /\ live' = Stored(data')
      /\ data' = [data EXCEPT !.routes = Append(@, r)]
  BY DEF Offer
<1>2. IsConfig(data) /\ "routes" \in DOMAIN data
  BY DEF SnapshotInv, IsConfig, Empty, build_config_data
<1>3. data'.routes = Append(data.routes, r)
  BY <1>1, <1>2
<1>4. IsSeq(data'.routes) /\ Len(data'.routes) = Len(data.routes) + 1
  BY <1>2, <1>3, AppendSeq DEF IsConfig
<1>5. IsConfig(data')
  <2>1. DOMAIN data' = DOMAIN Empty /\ data' = [x \in DOMAIN Empty |-> data'[x]]
    BY <1>1, <1>2 DEF IsConfig
  <2> QED BY <1>4, <2>1 DEF IsConfig
<1>6. IsSeq(live'.routes) /\ LiveIsConsistent'
  BY <1>1, <1>5, StoredConsistent DEF SnapshotInv
<1>7. data' # build_config_data(objects')
  <2>1. IsSeq(objects) /\ DOMAIN objects = {}
    BY <1>1, EmptyIsSeq
  <2>2. DOMAIN build_config_data(objects).routes = {}
    BY <2>1, BuiltRoutes
  <2>3. Len(data.routes) \in Nat
    BY <1>2, SeqFacts DEF IsConfig
  <2>4. DOMAIN data'.routes # {}
    BY <1>4, <2>3, SeqFacts
  <2> QED BY <1>1, <2>2, <2>4
<1> QED BY <1>1, <1>5, <1>6, <1>7, EmptyIsSeq DEF SnapshotInv

LEMMA SnapshotStep == SnapshotInv /\ [Next]_vars => SnapshotInv'
<1> SUFFICES ASSUME SnapshotInv, [Next]_vars PROVE SnapshotInv'
  OBVIOUS
<1>1. ASSUME UNCHANGED vars PROVE SnapshotInv'
  <2>1. objects' = objects /\ data' = data /\ live' = live
    BY <1>1 DEF vars
  <2> QED BY <2>1 DEF SnapshotInv, LiveIsConsistent, Builds
<1> QED BY <1>1, SnapshotApply, SnapshotOffer DEF Next

\* What the theorems rest on: the sections are sequences, what is live is
\* consistent, and what the adapter translated has the shape it gives to routes.
LEMMA SnapshotInvariant == Spec => []SnapshotInv
  BY SnapshotInit, SnapshotStep, PTL DEF Spec

-----------------------------------------------------------------------------
\* For any objects and routes, sanitize accepts the greatest set of the routes it
\* is left with whose links stay inside it, within the passes it allows itself,
\* and what store publishes is consistent (config.rs sanitize, store).
THEOREM AcceptedGreatestConsistent == Spec => []LiveIsGreatestConsistent
<1>1. SnapshotInv => LiveIsGreatestConsistent
  <2> SUFFICES ASSUME SnapshotInv
               PROVE  Chosen = UNION {I \in SUBSET OneMirror(rs) : Closed(I)}
    BY DEF SnapshotInv, LiveIsGreatestConsistent
  <2>1. IsFiniteSet(OneMirror(rs))
    BY OneMirrorFacts DEF SnapshotInv, IsConfig, rs
  <2>2. /\ Chosen \subseteq OneMirror(rs) /\ Pass(rs, Chosen) = Chosen
        /\ \A I \in SUBSET OneMirror(rs) : Pass(rs, I) = I => I \subseteq Chosen
    BY <2>1, AcceptedIsGreatest DEF Chosen
  <2>3. \A I : Closed(I) <=> Pass(rs, I) = I
    BY PassClosed DEF Closed
  <2> QED BY <2>2, <2>3
<1> QED BY <1>1, SnapshotInvariant, PTL

\* A lookup ends at a route of the kind and the key asked for, or at the mirror.
LEMMA MatchFacts ==
  ASSUME NEW q, IsSeq(q), NEW kind, NEW key, NEW path, NEW m,
         m = Match(q, kind, key, path), m # None
  PROVE  /\ m.index \in DOMAIN q
         /\ \/ q[m.index].kind = "Mirror"
            \/ q[m.index].kind = kind /\ q[m.index].key = key
<1> DEFINE hits == {i \in DOMAIN q : q[i].kind = kind /\ q[i].key = key
                                     /\ best_predicate(q[i], path) # None}
           ms == Mirrors(q, DOMAIN q)
<1>1. hits \subseteq DOMAIN q /\ ms \subseteq DOMAIN q /\ DOMAIN q \subseteq Nat
  BY SeqFacts DEF Mirrors
<1>2. CASE hits # {}
  <2> DEFINE x == CHOOSE x \in hits : \A y \in hits : x <= y
  <2>1. m = [index |-> x, by |-> kind, predicate |-> best_predicate(q[x], path)]
    BY <1>2 DEF Match
  <2>2. \E z \in hits : \A y \in hits : z <= y
    <3> HIDE DEF hits
    <3> QED BY <1>1, <1>2, LeastNatural
  <2>3. x \in hits
    <3> HIDE DEF hits
    <3> QED BY <2>2
  <2>4. m.index = x
    BY <2>1
  <2> HIDE DEF x
  <2> QED BY <2>3, <2>4
<1>3. CASE hits = {}
  <2> DEFINE x == CHOOSE x \in ms : \A y \in ms : x <= y
  <2>1. m = mirror_match(q)
    BY <1>3 DEF Match
  <2>2. ms # {}
    BY <2>1 DEF mirror_match
  <2>3. m = [index |-> x, by |-> "Mirror", predicate |-> mirror_predicate(q[x])]
    BY <2>1, <2>2 DEF mirror_match
  <2> HIDE DEF ms
  <2>4. \E z \in ms : \A y \in ms : z <= y
    BY <1>1, <2>2, LeastNatural
  <2>5. x \in ms
    BY <2>4
  <2>6. m.index = x
    BY <2>3
  <2> HIDE DEF x
  <2> QED BY <2>5, <2>6 DEF ms, Mirrors
<1> QED BY <1>2, <1>3

\* For any objects: whatever model header a client sends, it reaches a Main route of
\* that key, which asks for authentication, or the mirror, and the redirect of
\* that route a Fallback route wired to it or the mirror (config.rs find_match,
\* find_match_fallback over what translate.rs builds).
THEOREM KeySpaceKept == Spec => []RequestsStayInTheirKeySpace
<1>1. SnapshotInv => RequestsStayInTheirKeySpace
  <2> SUFFICES ASSUME SnapshotInv, objects # << >>, NEW key \in Keys, NEW path \in Paths,
                      NEW m, m = find_match(live.routes, key, path), m # None,
                      NEW r, r = live.routes[m.index],
                      NEW f, f = find_match_fallback(live.routes, r.target, path)
               PROVE  \/ r.kind = "Mirror" /\ ~requires_auth(r)
                      \/ /\ r.kind = "Main" /\ r.key = key /\ requires_auth(r)
                         /\ r.target # None /\ f # None =>
                              \/ live.routes[f.index].kind = "Mirror"
                              \/ live.routes[f.index].kind = "Fallback"
                                 /\ live.routes[f.index].key = r.ingress
    BY DEF RequestsStayInTheirKeySpace
  <2>1. IsSeq(live.routes) /\ \A i \in DOMAIN live.routes : Managed(live.routes[i])
    BY DEF SnapshotInv
  <2>2. /\ m.index \in DOMAIN live.routes
        /\ r.kind = "Mirror" \/ (r.kind = "Main" /\ r.key = key)
    BY <2>1, MatchFacts DEF find_match
  <2>3. Managed(r)
    BY <2>1, <2>2
  <2>4. f # None => \/ live.routes[f.index].kind = "Mirror"
                    \/ /\ live.routes[f.index].kind = "Fallback"
                       /\ live.routes[f.index].key = r.target
    BY <2>1, MatchFacts DEF find_match_fallback
  <2>5. CASE r.kind = "Mirror"
    BY <2>3, <2>5 DEF Managed, requires_auth
  <2>6. CASE r.kind = "Main" /\ r.key = key
    BY <2>3, <2>4, <2>6 DEF Managed, requires_auth
  <2> QED BY <2>2, <2>5, <2>6
<1> QED BY <1>1, SnapshotInvariant, PTL

\* The keys of the Fallback routes are what the Fallback ingresses name.
LEMMA LinksFacts ==
  ASSUME NEW objs, IsSeq(objs), NEW k
  PROVE  /\ k \in Links(objs) <=>
              \E n \in DOMAIN objs : /\ Routed(objs, n) /\ objs[n].from = k
                                     /\ classify_ingress_name(objs[n].name) = "Fallback"
         /\ k \in Links(objs) => k # None
<1> DEFINE T == IngressRoutes(objs)
<1>1. \A o : /\ ingress_to_route(o).kind = classify_ingress_name(o.name)
             /\ classify_ingress_name(o.name) = "Fallback" => ingress_to_route(o).key = o.from
  BY DEF ingress_to_route, RouteKey
<1>2. k \in Links(objs) <=> \E i \in DOMAIN T : T[i].kind = "Fallback" /\ T[i].key = k
  BY DEF Links, Fallbacks
<1>3. \A n \in DOMAIN objs :
        Routed(objs, n) /\ classify_ingress_name(objs[n].name) = "Fallback" => objs[n].from # None
  BY DEF Routed, Translatable, RouteKey
<1> HIDE DEF T
<1>4. ASSUME NEW i \in DOMAIN T, T[i].kind = "Fallback", T[i].key = k
      PROVE  \E n \in DOMAIN objs : /\ Routed(objs, n) /\ objs[n].from = k
                                    /\ classify_ingress_name(objs[n].name) = "Fallback"
  <2>1. PICK n \in DOMAIN objs : Routed(objs, n) /\ T[i] = ingress_to_route(objs[n])
    BY IngressRoutesFacts DEF T
  <2> QED BY <1>1, <1>4, <2>1
<1>5. ASSUME NEW n \in DOMAIN objs, Routed(objs, n), objs[n].from = k,
             classify_ingress_name(objs[n].name) = "Fallback"
      PROVE  \E i \in DOMAIN T : T[i].kind = "Fallback" /\ T[i].key = k
  <2>1. PICK i \in DOMAIN T : T[i] = ingress_to_route(objs[n])
    BY <1>5, IngressRoutesFacts DEF T
  <2> QED BY <1>1, <1>5, <2>1
<1> QED BY <1>2, <1>3, <1>4, <1>5

\* For any objects: an accepted Main route is linked exactly if a translatable
\* Fallback ingress names it, and then to an accepted route made from one that
\* does (translate.rs wire_fallbacks, config.rs sanitize).
THEOREM FallbacksWired == Spec => []FallbackIsWired
<1>1. SnapshotInv => FallbackIsWired
  <2> SUFFICES ASSUME SnapshotInv, objects # << >>, NEW i \in Chosen, rs[i].kind = "Main"
               PROVE  LET named == {n \in DOMAIN objects : IsIngress(n, "Fallback")
                                                           /\ objects[n].from = rs[i].ingress}
                      IN /\ rs[i].target # None <=> named # {}
                         /\ named # {} => \E j \in Chosen, n \in named :
                              rs[j].kind = "Fallback" /\ rs[j].ingress = objects[n].name
    BY DEF FallbackIsWired
  <2> DEFINE named == {n \in DOMAIN objects : IsIngress(n, "Fallback")
                                              /\ objects[n].from = rs[i].ingress}
  <2>1. IsSeq(objects) /\ data = build_config_data(objects) /\ IsSeq(rs)
    BY DEF SnapshotInv, IsConfig, rs
  <2>2. Chosen \subseteq DOMAIN rs /\ Pass(rs, Chosen) = Chosen
    BY <2>1, OneMirrorFacts, AcceptedIsGreatest DEF Chosen
  <2>3. \A j \in DOMAIN rs : \E n \in DOMAIN objects :
          Routed(objects, n) /\ MadeFrom(objects, rs[j], objects[n])
    BY <2>1, BuiltRoutes DEF rs
  <2>4. \A n \in DOMAIN objects : n \in named <=>
          /\ Routed(objects, n) /\ objects[n].from = rs[i].ingress
          /\ classify_ingress_name(objects[n].name) = "Fallback"
    BY DEF IsIngress, Routed
  <2>5. rs[i].target = IF rs[i].ingress \in Links(objects) THEN rs[i].ingress ELSE None
    BY <2>2, <2>3 DEF MadeFrom
  <2>6. named \subseteq DOMAIN objects
    OBVIOUS
  <2> HIDE DEF named
  <2>7. /\ rs[i].ingress \in Links(objects) <=> named # {}
        /\ rs[i].ingress \in Links(objects) => rs[i].ingress # None
    BY <2>1, <2>4, <2>6, LinksFacts
  <2>8. rs[i].target # None <=> named # {}
    BY <2>5, <2>7
  <2>9. ASSUME named # {}
        PROVE  \E j \in Chosen, n \in named :
                 rs[j].kind = "Fallback" /\ rs[j].ingress = objects[n].name
    <3>1. rs[i].target = rs[i].ingress /\ rs[i].target # None
      BY <2>5, <2>7, <2>9
    <3>2. rs[i].target \in Fallbacks(rs, Chosen)
      BY <2>2, <3>1, PassClosed
    <3>3. PICK j \in Chosen : rs[j].kind = "Fallback" /\ rs[j].key = rs[i].ingress
      BY <3>1, <3>2 DEF Fallbacks
    <3>4. PICK n \in DOMAIN objects : Routed(objects, n) /\ MadeFrom(objects, rs[j], objects[n])
      BY <2>2, <2>3, <3>3
    <3>5. /\ classify_ingress_name(objects[n].name) = "Fallback"
          /\ objects[n].from = rs[i].ingress /\ rs[j].ingress = objects[n].name
      BY <3>3, <3>4 DEF MadeFrom, RouteKey
    <3> QED BY <2>4, <3>3, <3>4, <3>5
  <2> QED BY <2>8, <2>9 DEF named
<1> QED BY <1>1, SnapshotInvariant, PTL

-----------------------------------------------------------------------------
(* ------------------------- a route is taken out ------------------------ *)

Elsewhere(i, j) == IF j < i THEN j ELSE j - 1

\* p is q without the route at i.
Moved(q, p, i) ==
  /\ IsSeq(q) /\ IsSeq(p) /\ i \in DOMAIN q
  /\ \A j \in DOMAIN q \ {i} : Elsewhere(i, j) \in DOMAIN p /\ p[Elsewhere(i, j)] = q[j]
  /\ \A n \in DOMAIN p : \E j \in DOMAIN q \ {i} : n = Elsewhere(i, j)

LEMMA ElsewhereOrder ==
  ASSUME NEW i \in Nat, NEW j \in Nat \ {i}, NEW m \in Nat \ {i}
  PROVE  /\ Elsewhere(i, j) \in Int
         /\ Elsewhere(i, j) < Elsewhere(i, m) <=> j < m
         /\ Elsewhere(i, j) = Elsewhere(i, m) <=> j = m
  BY DEF Elsewhere

LEMMA RemovedMoved ==
  ASSUME NEW q, IsSeq(q), NEW i \in DOMAIN q
  PROVE  Moved(q, Kept(q, DOMAIN q \ {i}), i)
<1> DEFINE I == DOMAIN q \ {i}
           p == Kept(q, I)
           Upto(j) == {m \in I : m <= j}
<1>1. /\ Len(q) \in Nat /\ DOMAIN q = 1..Len(q) /\ i \in Nat /\ i >= 1 /\ i <= Len(q)
      /\ IsFiniteSet(DOMAIN q) /\ Cardinality(DOMAIN q) = Len(q)
  <2>1. Len(q) \in Nat /\ DOMAIN q = 1..Len(q) /\ IsFiniteSet(DOMAIN q)
    BY SeqFacts
  <2>2. PICK n \in Nat : n = Len(q)
    BY <2>1
  <2>3. Cardinality(1..n) = n
    BY FS_Interval
  <2> QED BY <2>1, <2>2, <2>3
<1>2. IsFiniteSet(I) /\ Cardinality(I) = Len(q) - 1
  BY <1>1, FS_RemoveElement
<1>3. ASSUME NEW j \in I PROVE Cardinality(Upto(j)) = Elsewhere(i, j)
  <2>1. j \in Nat /\ j >= 1 /\ j <= Len(q) /\ j # i
    BY <1>1
  <2>2. IsFiniteSet(1..j) /\ Cardinality(1..j) = j
    BY <2>1, FS_Interval
  <2>3. CASE j < i
    <3>1. Upto(j) = 1..j
      BY <1>1, <2>1, <2>3
    <3> QED BY <2>2, <2>3, <3>1 DEF Elsewhere
  <2>4. CASE ~(j < i)
    <3>1. Upto(j) = (1..j) \ {i} /\ i \in 1..j
      BY <1>1, <2>1, <2>4
    <3>2. Cardinality((1..j) \ {i}) = j - 1
      BY <2>2, <3>1, FS_RemoveElement
    <3> QED BY <2>4, <3>1, <3>2 DEF Elsewhere
  <2> QED BY <2>3, <2>4
<1>4. \A n : Position(I, n) = CHOOSE j \in I : Cardinality(Upto(j)) = n
  BY DEF Position
<1>5. /\ DOMAIN p = 1..(Len(q) - 1) /\ p = [n \in 1..(Len(q) - 1) |-> p[n]]
      /\ \A n \in DOMAIN p : p[n] = q[Position(I, n)]
  BY <1>2 DEF Kept
<1>6. \A j \in I : j \in Nat /\ j # i /\ j <= Len(q) /\ j >= 1
  BY <1>1
<1> HIDE DEF p, Upto, I
<1>7. ASSUME NEW j \in I PROVE Elsewhere(i, j) \in DOMAIN p /\ p[Elsewhere(i, j)] = q[j]
  <2>1. Elsewhere(i, j) \in DOMAIN p
    BY <1>1, <1>5, <1>6 DEF Elsewhere
  <2>2. \A m \in I : Elsewhere(i, m) = Elsewhere(i, j) => m = j
    BY <1>1, <1>6 DEF Elsewhere
  <2>3. Position(I, Elsewhere(i, j)) = j
    BY <1>3, <1>4, <2>2
  <2> QED BY <1>5, <2>1, <2>3
<1>8. ASSUME NEW n \in DOMAIN p PROVE \E j \in I : n = Elsewhere(i, j)
  <2>1. n \in 1..(Len(q) - 1)
    BY <1>5
  <2>2. CASE n < i
    BY <1>1, <2>1, <2>2 DEF Elsewhere, I
  <2>3. CASE ~(n < i)
    <3>1. n + 1 \in I /\ n = Elsewhere(i, n + 1)
      BY <1>1, <2>1, <2>3 DEF Elsewhere, I
    <3> QED BY <3>1
  <2> QED BY <2>2, <2>3
<1>9. IsSeq(p)
  <2>1. Len(q) - 1 \in Nat
    BY <1>1
  <2> QED BY <1>5, <2>1, MadeSeq
<1> QED BY <1>7, <1>8, <1>9 DEF Moved, p, I

LEMMA MovedFallbacks ==
  ASSUME NEW q, NEW p, NEW i, Moved(q, p, i), NEW J \in SUBSET (DOMAIN q \ {i})
  PROVE  Fallbacks(p, {Elsewhere(i, j) : j \in J}) = Fallbacks(q, J)
  BY DEF Moved, Fallbacks

\* A route stays sound but for a link to the one taken out, and becomes sound
\* only if it duplicated that one.
StaysSound(q, p, i, j) ==
  j \in Sound(q) /\ (q[j].target # None => q[j].target \in Fallbacks(q, DOMAIN q \ {i}))
    => Elsewhere(i, j) \in Sound(p)
BecomesSound(q, p, i, j) ==
  Elsewhere(i, j) \in Sound(p) /\ j \notin Sound(q)
    => i < j /\ q[i].kind = q[j].kind /\ q[i].key = q[j].key

LEMMA MovedSound ==
  ASSUME NEW q, NEW p, NEW i, Moved(q, p, i), NEW j \in DOMAIN q \ {i}
  PROVE  StaysSound(q, p, i, j) /\ BecomesSound(q, p, i, j)
<1> DEFINE I == DOMAIN q \ {i}
           e == Elsewhere(i, j)
<1>1. /\ e \in DOMAIN p /\ p[e] = q[j] /\ j \in Nat /\ i \in Nat /\ j # i /\ i \in DOMAIN q
      /\ DOMAIN q = 1..Len(q) /\ DOMAIN p = 1..Len(p) /\ Len(q) \in Nat /\ Len(p) \in Nat
  BY SeqFacts DEF Moved
<1>2. Fallbacks(p, DOMAIN p) = Fallbacks(q, I)
  <2>1. DOMAIN p = {Elsewhere(i, m) : m \in I}
    BY DEF Moved
  <2> QED BY <2>1, MovedFallbacks
<1>3. Fallbacks(q, I) \subseteq Fallbacks(q, DOMAIN q)
  BY DEF Fallbacks
<1>4. \A m \in I : /\ m \in Nat /\ Elsewhere(i, m) \in Nat /\ Elsewhere(i, m) \in DOMAIN p
                   /\ p[Elsewhere(i, m)] = q[m] /\ (Elsewhere(i, m) < e <=> m < j)
  <2> TAKE m \in I
  <2>1. m \in Nat \ {i} /\ Elsewhere(i, m) \in DOMAIN p /\ p[Elsewhere(i, m)] = q[m]
    BY <1>1 DEF Moved
  <2>2. Elsewhere(i, m) < e <=> m < j
    BY <1>1, <2>1, ElsewhereOrder
  <2> QED BY <1>1, <2>1, <2>2
<1>5. Duplicate(p, e) => Duplicate(q, j)
  <2> SUFFICES ASSUME NEW n \in 1..(e - 1), p[n].kind = p[e].kind, p[n].key = p[e].key
               PROVE  Duplicate(q, j)
    BY DEF Duplicate
  <2>1. n \in DOMAIN p /\ n < e
    BY <1>1
  <2>2. PICK m \in I : n = Elsewhere(i, m)
    BY <2>1 DEF Moved
  <2>3. m \in 1..(j - 1) /\ q[m] = p[n]
    BY <1>1, <1>4, <2>1, <2>2
  <2> QED BY <1>1, <2>3 DEF Duplicate
<1>6. Duplicate(q, j) => \/ Duplicate(p, e)
                         \/ i < j /\ q[i].kind = q[j].kind /\ q[i].key = q[j].key
  <2> SUFFICES ASSUME NEW m \in 1..(j - 1), q[m].kind = q[j].kind, q[m].key = q[j].key, m # i
               PROVE  Duplicate(p, e)
    BY <1>1 DEF Duplicate
  <2>1. m \in I /\ m < j
    BY <1>1
  <2>2. Elsewhere(i, m) \in 1..(e - 1) /\ p[Elsewhere(i, m)] = q[m]
    BY <1>1, <1>4, <2>1
  <2> QED BY <1>1, <2>2 DEF Duplicate
<1> HIDE DEF e, I
<1>7. ASSUME j \in Sound(q), q[j].target # None => q[j].target \in Fallbacks(q, I)
      PROVE  e \in Sound(p)
  BY <1>1, <1>2, <1>5, <1>7 DEF Sound, UnknownTarget
<1>8. ASSUME e \in Sound(p)
      PROVE  j \in Sound(q) \/ (i < j /\ q[i].kind = q[j].kind /\ q[i].key = q[j].key)
  BY <1>1, <1>2, <1>3, <1>6, <1>8 DEF Sound, UnknownTarget, I
<1> QED BY <1>7, <1>8 DEF StaysSound, BecomesSound, e, I

-----------------------------------------------------------------------------
(* --------------------------- what it kept out -------------------------- *)

\* KeptOutBy collects dependants for as many rounds as there are routes, which
\* is until no more are found.
LEMMA KeptOutClosed ==
  ASSUME IsSeq(rs), NEW i \in DOMAIN rs
  PROVE  i \in KeptOutBy(i) /\ WithDependants(KeptOutBy(i)) \subseteq KeptOutBy(i)
<1> DEFINE D == DOMAIN rs
           S == D \ {i}
           F == [X \in SUBSET S |-> D \ WithDependants(D \ X)]
           Solves(g) == g = [n \in Nat |-> IF n = 0 THEN {i} ELSE WithDependants(g[n - 1])]
           within == CHOOSE g : Solves(g)
<1>1. \A I \in SUBSET D : I \subseteq WithDependants(I) /\ WithDependants(I) \in SUBSET D
  BY DEF WithDependants
<1>2. /\ IsFiniteSet(S) /\ Len(rs) \in Nat /\ Cardinality(S) + 1 = Len(rs)
  <2>1. Len(rs) \in Nat /\ D = 1..Len(rs) /\ IsFiniteSet(D)
    BY SeqFacts
  <2>2. PICK n \in Nat : n = Len(rs)
    BY <2>1
  <2>3. Cardinality(1..n) = n
    BY FS_Interval
  <2>4. IsFiniteSet(D) /\ Cardinality(D) = n /\ i \in D
    BY <2>1, <2>2, <2>3
  <2>5. Cardinality(S) = n - 1 /\ IsFiniteSet(S)
    <3> HIDE DEF D
    <3> QED BY <2>4, FS_RemoveElement
  <2> QED BY <2>1, <2>2, <2>5
<1>3. KeptOutBy(i) = within[Len(rs)]
  BY DEF KeptOutBy
<1>4. /\ F \in [SUBSET S -> SUBSET S]
      /\ \A X \in SUBSET S : F[X] = D \ WithDependants(D \ X) /\ F[X] \subseteq X
  <2>1. \A X \in SUBSET S : i \in D \ X /\ D \ X \in SUBSET D
    OBVIOUS
  <2>2. \A X \in SUBSET S : D \ X \subseteq WithDependants(D \ X)
    BY <1>1, <2>1
  <2> QED BY <2>1, <2>2
<1> HIDE DEF F
<1>5. PICK h \in [Nat -> SUBSET S] : Iterates(h, F, S)
  <2>1. S \in SUBSET S
    OBVIOUS
  <2> HIDE DEF S
  <2> QED BY <1>4, <2>1, IterationExists
<1> DEFINE g == [n \in Nat |-> D \ h[n]]
<1>6. Solves(g)
  <2>1. ASSUME NEW n \in Nat
        PROVE  g[n] = IF n = 0 THEN {i} ELSE WithDependants(g[n - 1])
    <3>1. CASE n = 0
      BY <1>5, <3>1 DEF Iterates
    <3>2. CASE n # 0
      <4>1. n - 1 \in Nat /\ (n - 1) + 1 = n
        BY <3>2
      <4>2. h[n] = F[h[n - 1]] /\ h[n - 1] \in SUBSET S
        BY <1>5, <4>1 DEF Iterates
      <4>3. h[n] = D \ WithDependants(D \ h[n - 1]) /\ D \ h[n - 1] \in SUBSET D
        BY <1>4, <4>2
      <4>4. D \ h[n] = WithDependants(D \ h[n - 1])
        BY <1>1, <4>3
      <4> QED BY <3>2, <4>1, <4>4
    <3> QED BY <3>1, <3>2
  <2>2. g = [n \in Nat |-> g[n]]
    OBVIOUS
  <2> HIDE DEF g
  <2> QED BY <2>1, <2>2
<1>7. Solves(within)
  <2> HIDE DEF Solves, g
  <2> QED BY <1>6
<1> HIDE DEF within
<1>8. within[0] = {i} /\ \A n \in Nat : within[n + 1] = WithDependants(within[n])
  <2>1. \A n \in Nat : n + 1 # 0 /\ (n + 1) - 1 = n /\ n + 1 \in Nat
    OBVIOUS
  <2>2. \A n \in Nat : within[n] = IF n = 0 THEN {i} ELSE WithDependants(within[n - 1])
    BY <1>7
  <2> QED BY <2>1, <2>2
<1>9. \A n \in Nat : within[n] = D \ h[n]
  <2> DEFINE T == {n \in Nat : within[n] = D \ h[n]}
  <2>1. 0 \in T
    BY <1>5, <1>8 DEF Iterates
  <2>2. ASSUME NEW n \in Nat, n \in T PROVE n + 1 \in T
    <3>1. h[n + 1] = D \ WithDependants(D \ h[n]) /\ D \ h[n] \in SUBSET D
      BY <1>4, <1>5 DEF Iterates
    <3>2. D \ h[n + 1] = WithDependants(D \ h[n])
      BY <1>1, <3>1
    <3>3. within[n + 1] = WithDependants(within[n]) /\ within[n] = D \ h[n]
      BY <1>8, <2>2
    <3>4. within[n + 1] = D \ h[n + 1]
      BY <3>2, <3>3
    <3> QED BY <3>4
  <2>3. \A n \in Nat : n \in T
    <3> HIDE DEF T
    <3> QED BY <2>1, <2>2, NatSetInduction
  <2> QED BY <2>3
<1>10. F[h[Len(rs)]] = h[Len(rs)]
  <2> HIDE DEF S
  <2>1. F[h[Cardinality(S) + 1]] = h[Cardinality(S) + 1]
    BY <1>2, <1>4, <1>5, ShrinkingEnds
  <2> QED BY <1>2, <2>1
<1>11. within[Len(rs)] = D \ h[Len(rs)] /\ h[Len(rs)] \in SUBSET S
  BY <1>2, <1>9
<1>12. WithDependants(D \ h[Len(rs)]) \in SUBSET D
  BY <1>1, <1>11
<1>13. h[Len(rs)] = D \ WithDependants(D \ h[Len(rs)])
  BY <1>4, <1>10, <1>11
<1> QED BY <1>3, <1>11, <1>12, <1>13

-----------------------------------------------------------------------------
(* ---------------------------- containment ------------------------------ *)

\* A served route is taken along only if it is the mirror and a mirror that
\* duplicated the one taken out comes first.
LEMMA TakenAlong ==
  ASSUME IsSeq(rs), NEW p, NEW i \in DOMAIN rs \ Chosen, Moved(rs, p, i),
         NEW j \in Chosen, Elsewhere(i, j) \notin Accepted(p)
  PROVE  /\ rs[i].kind = "Mirror" /\ rs[j].kind = "Mirror"
         /\ \E m \in DOMAIN rs : /\ i < m /\ m < j
                                 /\ rs[m].kind = "Mirror" /\ rs[m].key = rs[i].key
                                 /\ Elsewhere(i, m) \in OneMirror(p)
<1> DEFINE stays == {m \in Chosen : Elsewhere(i, m) \in OneMirror(p)}
           moved == {Elsewhere(i, m) : m \in stays}
<1>1. /\ Chosen \subseteq OneMirror(rs) /\ OneMirror(rs) \subseteq Sound(rs)
      /\ Sound(rs) \subseteq DOMAIN rs /\ Pass(rs, Chosen) = Chosen
  BY OneMirrorFacts, AcceptedIsGreatest DEF Chosen
<1>2. \A m \in Chosen : rs[m].target # None => rs[m].target \in Fallbacks(rs, Chosen)
  BY <1>1, PassClosed
<1>3. \A m \in Chosen : m \in DOMAIN rs \ {i} /\ Elsewhere(i, m) \in Sound(p)
                        /\ p[Elsewhere(i, m)] = rs[m]
  <2> TAKE m \in Chosen
  <2>1. m \in DOMAIN rs \ {i} /\ m \in Sound(rs)
    BY <1>1
  <2>2. Fallbacks(rs, Chosen) \subseteq Fallbacks(rs, DOMAIN rs \ {i})
    BY <1>1 DEF Fallbacks
  <2> QED BY <1>2, <2>1, <2>2, MovedSound DEF Moved, StaysSound
<1>4. \A m \in Chosen \ stays : rs[m].kind = "Mirror"
  BY <1>3 DEF OneMirror, Mirrors
<1>5. moved \subseteq Accepted(p)
  <2>1. IsSeq(p) /\ moved \in SUBSET OneMirror(p)
    BY DEF Moved
  <2>2. stays \in SUBSET (DOMAIN rs \ {i})
    BY <1>3
  <2>3. Fallbacks(p, moved) = Fallbacks(rs, stays)
    BY <2>2, MovedFallbacks
  <2>4. Fallbacks(rs, stays) = Fallbacks(rs, Chosen)
    BY <1>4 DEF Fallbacks
  <2>5. \A n \in moved : p[n].target # None => p[n].target \in Fallbacks(p, moved)
    BY <1>2, <1>3, <2>3, <2>4
  <2> HIDE DEF moved
  <2>6. Pass(p, moved) = moved
    BY <2>5, PassClosed
  <2> QED BY <2>1, <2>6, OneMirrorFacts, AcceptedIsGreatest
<1>6. j \notin stays /\ rs[j].kind = "Mirror" /\ Elsewhere(i, j) \in Mirrors(p, Sound(p))
  <2>1. j \notin stays
    BY <1>5
  <2> QED BY <1>3, <1>4, <2>1 DEF Mirrors
<1> DEFINE M == Mirrors(p, Sound(p))
<1>7. PICK n \in M : \A k \in M : n <= k
  <2>1. M \subseteq DOMAIN p /\ \A k \in M : k \in Nat
    BY SeqFacts DEF Moved, Mirrors, Sound
  <2>2. M \subseteq Nat /\ M # {}
    BY <1>6, <2>1
  <2> HIDE DEF M
  <2> QED BY <2>2, LeastNatural
<1>8. n \in OneMirror(p) /\ n \in DOMAIN p /\ p[n].kind = "Mirror"
  BY <1>7 DEF OneMirror, Mirrors, Sound
<1>9. PICK m \in DOMAIN rs \ {i} : n = Elsewhere(i, m)
  BY <1>8 DEF Moved
<1>10. p[n] = rs[m] /\ Elsewhere(i, m) \in Sound(p)
  BY <1>7, <1>9 DEF Moved, Mirrors
<1>11. i \in Nat /\ j \in Nat \ {i} /\ m \in Nat \ {i}
  BY <1>1, <1>3, <1>9, SeqFacts
<1>12. m < j
  <2>1. Elsewhere(i, m) <= Elsewhere(i, j) /\ m # j
    BY <1>3, <1>6, <1>7, <1>8, <1>9
  <2> QED BY <1>11, <2>1, ElsewhereOrder
<1>13. m \notin Sound(rs)
  <2>1. m \in Sound(rs) => m \in Mirrors(rs, Sound(rs))
    BY <1>8, <1>10 DEF Mirrors
  <2>2. j \in Mirrors(rs, Sound(rs)) /\ j \in OneMirror(rs)
    BY <1>1, <1>6 DEF Mirrors
  <2>3. m \in Mirrors(rs, Sound(rs)) => j <= m
    BY <2>2 DEF OneMirror
  <2> QED BY <1>11, <1>12, <2>1, <2>3
<1>14. i < m /\ rs[i].kind = rs[m].kind /\ rs[i].key = rs[m].key
  BY <1>9, <1>10, <1>13, MovedSound DEF BecomesSound
<1> QED BY <1>6, <1>8, <1>9, <1>10, <1>12, <1>14

\* A route that comes back was kept out: those that come back otherwise could
\* have been served with the rest.
LEMMA BroughtBack ==
  ASSUME IsSeq(rs), NEW p, NEW i \in DOMAIN rs \ Chosen, Moved(rs, p, i),
         NEW back, back = {j \in DOMAIN rs \ {i} : Elsewhere(i, j) \in Accepted(p)},
         \A m, n \in MirrorsOffered : m = n
  PROVE  back \ Chosen \subseteq KeptOutBy(i)
<1> DEFINE K == KeptOutBy(i)
           free == back \ K
<1>1. /\ Chosen \subseteq OneMirror(rs) /\ OneMirror(rs) \subseteq Sound(rs)
      /\ Sound(rs) \subseteq DOMAIN rs /\ Pass(rs, Chosen) = Chosen
      /\ \A I \in SUBSET OneMirror(rs) : Pass(rs, I) = I => I \subseteq Chosen
  BY OneMirrorFacts, AcceptedIsGreatest DEF Chosen
<1>2. Accepted(p) \subseteq OneMirror(p) /\ OneMirror(p) \subseteq Sound(p) /\ Pass(p, Accepted(p)) = Accepted(p)
  BY OneMirrorFacts, AcceptedIsGreatest DEF Moved
<1>3. i \in K /\ WithDependants(K) \subseteq K
  BY KeptOutClosed
<1> HIDE DEF K
<1>4. \A j \in DOMAIN rs, m \in K :
        rs[m].kind = rs[j].kind /\ m < j /\ rs[m].key = rs[j].key => j \in K
  BY <1>3 DEF WithDependants
<1>5. \A j \in DOMAIN rs : rs[j].target \in Fallbacks(rs, K) => j \in K
  BY <1>3 DEF WithDependants
<1>6. \A j \in back : /\ j \in DOMAIN rs \ {i} /\ Elsewhere(i, j) \in OneMirror(p)
                      /\ Elsewhere(i, j) \in Sound(p) /\ p[Elsewhere(i, j)] = rs[j]
  BY <1>2 DEF Moved
<1>7. ASSUME NEW j \in free PROVE j \in Sound(rs)
  <2>1. j \in DOMAIN rs \ {i} /\ Elsewhere(i, j) \in Sound(p) /\ j \notin K
    BY <1>6
  <2>2. ~(i < j /\ rs[i].kind = rs[j].kind /\ rs[i].key = rs[j].key)
    BY <1>3, <1>4, <2>1
  <2> QED BY <2>1, <2>2, MovedSound DEF BecomesSound
<1>8. ASSUME NEW j \in free, rs[j].kind = "Mirror", NEW m \in Mirrors(rs, Sound(rs)) PROVE j <= m
  <2>1. m \in MirrorsOffered /\ j \in MirrorsOffered /\ j \in Nat
    BY <1>1, <1>6, <1>8, SeqFacts DEF Mirrors, MirrorsOffered
  <2> QED BY <2>1
<1>9. free \subseteq OneMirror(rs)
  BY <1>7, <1>8 DEF OneMirror, Mirrors
<1>10. ASSUME NEW j \in free, rs[j].target # None PROVE rs[j].target \in Fallbacks(rs, free)
  <2>1. Accepted(p) = {Elsewhere(i, m) : m \in back}
    <3>1. Accepted(p) \subseteq DOMAIN p
      BY <1>2 DEF Sound
    <3> QED BY <3>1 DEF Moved
  <2>2. back \in SUBSET (DOMAIN rs \ {i})
    OBVIOUS
  <2>3. Fallbacks(p, Accepted(p)) = Fallbacks(rs, back)
    BY <2>1, <2>2, MovedFallbacks
  <2>4. rs[j].target \in Fallbacks(rs, back)
    <3>1. p[Elsewhere(i, j)] = rs[j] /\ Elsewhere(i, j) \in Accepted(p)
      BY <1>6
    <3> QED BY <1>2, <1>10, <2>3, <3>1, PassClosed
  <2>5. j \in DOMAIN rs /\ j \notin K
    BY <1>6
  <2>6. rs[j].target \notin Fallbacks(rs, K)
    BY <1>5, <2>5
  <2> QED BY <2>4, <2>6 DEF Fallbacks
<1> DEFINE U == Chosen \cup free
<1>11. \A j \in U : rs[j].target # None => rs[j].target \in Fallbacks(rs, U)
  <2>1. \A j \in Chosen : rs[j].target # None => rs[j].target \in Fallbacks(rs, Chosen)
    BY <1>1, PassClosed
  <2>2. Fallbacks(rs, Chosen) \subseteq Fallbacks(rs, U) /\ Fallbacks(rs, free) \subseteq Fallbacks(rs, U)
    BY DEF Fallbacks
  <2> HIDE DEF free
  <2> QED BY <1>10, <2>1, <2>2
<1>12. U \in SUBSET OneMirror(rs)
  BY <1>1, <1>9
<1> HIDE DEF U
<1>13. Pass(rs, U) = U
  BY <1>11, PassClosed
<1>14. U \subseteq Chosen
  BY <1>1, <1>12, <1>13
<1> QED BY <1>14 DEF U, K

\* Whatever routes a snapshot with one mirror at most holds, a route that sanitize
\* drops costs the others nothing but what it kept out by key or by link, and no
\* route that is served depends on a dropped one (config.rs sanitize).
THEOREM FaultsContained == Spec => []FaultIsContained
<1>1. SnapshotInv => FaultIsContained
  <2> SUFFICES ASSUME SnapshotInv, \A m, n \in MirrorsOffered : m = n, NEW i \in DOMAIN rs \ Chosen
               PROVE  /\ Chosen \subseteq ServedWithout(i)
                      /\ ServedWithout(i) \ Chosen \subseteq KeptOutBy(i)
    BY DEF FaultIsContained
  <2> DEFINE p == Without(i)
             back == ServedWithout(i)
  <2>1. IsSeq(rs)
    BY DEF SnapshotInv, IsConfig, rs
  <2>2. Moved(rs, p, i)
    BY <2>1, RemovedMoved DEF Without
  <2>3. Chosen \subseteq DOMAIN rs \ {i}
    BY <2>1, OneMirrorFacts, AcceptedIsGreatest DEF Chosen
  <2>4. back = {j \in DOMAIN rs \ {i} : Elsewhere(i, j) \in Accepted(p)}
    BY DEF ServedWithout, Elsewhere
  <2> HIDE DEF p, back
  <2>5. ASSUME NEW j \in Chosen, j \notin back PROVE FALSE
    <3>1. Elsewhere(i, j) \notin Accepted(p)
      BY <2>3, <2>4, <2>5
    <3>2. rs[i].kind = "Mirror" /\ rs[j].kind = "Mirror"
      BY <2>1, <2>2, <3>1, TakenAlong
    <3>3. i \in MirrorsOffered /\ j \in MirrorsOffered /\ i # j
      BY <2>3, <3>2 DEF MirrorsOffered, Mirrors
    <3> QED BY <3>3
  <2>6. back \ Chosen \subseteq KeptOutBy(i)
    BY <2>1, <2>2, <2>4, BroughtBack
  <2> QED BY <2>5, <2>6 DEF back
<1> QED BY <1>1, SnapshotInvariant, PTL

-----------------------------------------------------------------------------
(* ------------------------ least, joined, flattened --------------------- *)

LEMMA MinFacts ==
  ASSUME NEW T, T \subseteq Nat, T # {}
  PROVE  Min(T) \in T /\ \A n \in T : Min(T) <= n
<1>1. \E m \in T : \A n \in T : m <= n
  BY LeastNatural
<1> QED BY <1>1 DEF Min

LEMMA MinIs ==
  ASSUME NEW T, T \subseteq Nat, NEW m \in T, \A n \in T : m <= n
  PROVE  Min(T) = m
<1>1. Min(T) \in T /\ Min(T) <= m
  BY MinFacts
<1>2. Min(T) \in Nat /\ m \in Nat /\ m <= Min(T)
  BY <1>1
<1> HIDE DEF Min
<1> QED BY <1>1, <1>2

LEMMA ConcatSeq ==
  ASSUME NEW s, NEW t, IsSeq(s), IsSeq(t)
  PROVE  /\ IsSeq(s \o t) /\ Len(s \o t) = Len(s) + Len(t)
         /\ \A i \in DOMAIN s : i \in DOMAIN (s \o t) /\ (s \o t)[i] = s[i]
         /\ \A i \in DOMAIN t : Len(s) + i \in DOMAIN (s \o t) /\ (s \o t)[Len(s) + i] = t[i]
         /\ \A i \in DOMAIN (s \o t) :
              i \notin DOMAIN s => i - Len(s) \in DOMAIN t /\ (s \o t)[i] = t[i - Len(s)]
<1> DEFINE X == Range(s) \cup Range(t)
           u == s \o t
<1>1. s \in Seq(X) /\ t \in Seq(X)
  <2>1. s \in [1..Len(s) -> Range(s)] /\ Len(s) \in Nat /\ t \in [1..Len(t) -> Range(t)] /\ Len(t) \in Nat
    BY DEF IsSeq
  <2>2. s \in [1..Len(s) -> X] /\ t \in [1..Len(t) -> X]
    BY <2>1
  <2> QED BY <2>1, <2>2
<1> HIDE DEF X
<1>2. u \in Seq(X) /\ Len(u) = Len(s) + Len(t) /\ Len(s) \in Nat /\ Len(t) \in Nat
  BY <1>1
<1>3. \A i \in 1..Len(s) : u[i] = s[i]
  BY <1>1
<1>4. \A i \in 1..Len(t) : u[Len(s) + i] = t[i]
  BY <1>1
<1>5. \A i \in 1..Len(u) : i \notin 1..Len(s) => i - Len(s) \in 1..Len(t) /\ Len(s) + (i - Len(s)) = i
  BY <1>2
<1>6. DOMAIN s = 1..Len(s) /\ DOMAIN t = 1..Len(t)
  BY SeqFacts
<1> HIDE DEF u
<1>7. DOMAIN u = 1..Len(u) /\ u \in [1..Len(u) -> X] /\ Len(u) \in Nat
  BY <1>2
<1>8. IsSeq(u)
  <2>1. u = [i \in 1..Len(u) |-> u[i]]
    BY <1>7
  <2> QED BY <1>7, <2>1, MadeSeq
<1>9. \A i \in DOMAIN s : i \in DOMAIN u /\ u[i] = s[i]
  BY <1>2, <1>3, <1>6, <1>7
<1>10. \A i \in DOMAIN t : Len(s) + i \in DOMAIN u /\ u[Len(s) + i] = t[i]
  BY <1>2, <1>4, <1>6, <1>7
<1>11. \A i \in DOMAIN u : i \notin DOMAIN s => i - Len(s) \in DOMAIN t /\ u[i] = t[i - Len(s)]
  <2> SUFFICES ASSUME NEW i \in DOMAIN u, i \notin DOMAIN s
               PROVE  i - Len(s) \in DOMAIN t /\ u[i] = t[i - Len(s)]
    OBVIOUS
  <2>1. i - Len(s) \in 1..Len(t) /\ Len(s) + (i - Len(s)) = i
    BY <1>5, <1>6, <1>7
  <2> QED BY <1>4, <1>6, <2>1
<1> QED BY <1>2, <1>8, <1>9, <1>10, <1>11 DEF u

\* Entry m of f comes from list row[m]: the first n lists of ss, one after another.
Rows(f, row, ss, n) ==
  /\ IsSeq(f) /\ row \in [DOMAIN f -> 1..n]
  /\ \A m \in DOMAIN f : f[m] \in Range(ss[row[m]])
  /\ \A m, k \in DOMAIN f : m <= k => row[m] <= row[k]
  /\ \A i \in 1..n : \A x \in Range(ss[i]) : \E m \in DOMAIN f : row[m] = i /\ f[m] = x

LEMMA RowsGrow ==
  ASSUME NEW ss, NEW n \in Nat, NEW f, NEW row, Rows(f, row, ss, n), IsSeq(ss[n + 1])
  PROVE  \E r : Rows(f \o ss[n + 1], r, ss, n + 1)
<1> DEFINE t == ss[n + 1]
           u == f \o t
           r == [m \in DOMAIN u |-> IF m \in DOMAIN f THEN row[m] ELSE n + 1]
<1>1. IsSeq(f) /\ IsSeq(t)
  BY DEF Rows
<1>2. /\ IsSeq(u) /\ Len(u) = Len(f) + Len(t)
      /\ \A i \in DOMAIN f : i \in DOMAIN u /\ u[i] = f[i]
      /\ \A i \in DOMAIN t : Len(f) + i \in DOMAIN u /\ u[Len(f) + i] = t[i]
      /\ \A i \in DOMAIN u : i \notin DOMAIN f => i - Len(f) \in DOMAIN t /\ u[i] = t[i - Len(f)]
  BY <1>1, ConcatSeq
<1>3. /\ DOMAIN f = 1..Len(f) /\ Len(f) \in Nat /\ DOMAIN t = 1..Len(t) /\ Len(t) \in Nat
      /\ DOMAIN u = 1..Len(u) /\ Len(u) \in Nat
  BY <1>1, <1>2, SeqFacts
<1>4. /\ row \in [DOMAIN f -> 1..n]
      /\ \A m \in DOMAIN f : f[m] \in Range(ss[row[m]])
      /\ \A m, k \in DOMAIN f : m <= k => row[m] <= row[k]
      /\ \A i \in 1..n : \A x \in Range(ss[i]) : \E m \in DOMAIN f : row[m] = i /\ f[m] = x
  BY DEF Rows
<1> HIDE DEF u
<1>5. DOMAIN r = DOMAIN u /\ \A m \in DOMAIN u : r[m] = IF m \in DOMAIN f THEN row[m] ELSE n + 1
  OBVIOUS
<1>6. r \in [DOMAIN u -> 1..(n + 1)]
  BY <1>4
<1> HIDE DEF r, t
<1>7. ASSUME NEW m \in DOMAIN u PROVE u[m] \in Range(ss[r[m]])
  <2>1. CASE m \in DOMAIN f
    BY <1>2, <1>4, <1>5, <2>1
  <2>2. CASE m \notin DOMAIN f
    <3>1. r[m] = n + 1 /\ m - Len(f) \in DOMAIN t /\ u[m] = t[m - Len(f)]
      BY <1>2, <1>5, <2>2
    <3>2. u[m] \in Range(t)
      BY <3>1 DEF Range
    <3> QED BY <3>1, <3>2 DEF t
  <2> QED BY <2>1, <2>2
<1>8. ASSUME NEW m \in DOMAIN u, NEW k \in DOMAIN u, m <= k PROVE r[m] <= r[k]
  <2>1. CASE k \in DOMAIN f
    <3>1. m \in DOMAIN f
      BY <1>3, <1>8, <2>1
    <3> QED BY <1>4, <1>5, <1>8, <2>1, <3>1
  <2>2. CASE k \notin DOMAIN f
    <3>1. r[k] = n + 1 /\ r[m] \in 1..(n + 1)
      BY <1>5, <1>6, <2>2
    <3> QED BY <3>1
  <2> QED BY <2>1, <2>2
<1>9. ASSUME NEW i \in 1..(n + 1), NEW x \in Range(ss[i])
      PROVE  \E m \in DOMAIN u : r[m] = i /\ u[m] = x
  <2>1. CASE i = n + 1
    <3>1. PICK k \in DOMAIN t : t[k] = x
      BY <2>1 DEF Range, t
    <3>2. Len(f) + k \in DOMAIN u /\ u[Len(f) + k] = x /\ Len(f) + k \notin DOMAIN f
      BY <1>2, <1>3, <3>1
    <3> QED BY <1>5, <2>1, <3>2
  <2>2. CASE i \in 1..n
    <3>1. PICK m \in DOMAIN f : row[m] = i /\ f[m] = x
      BY <1>4, <2>2
    <3> QED BY <1>2, <1>5, <3>1
  <2> QED BY <2>1, <2>2
<1>10. Rows(u, r, ss, n + 1)
  BY <1>2, <1>6, <1>7, <1>8, <1>9 DEF Rows
<1> QED BY <1>10 DEF u, t

\* FlattenSeq lists the entries of the lists, list by list.
LEMMA FlatRows ==
  ASSUME NEW ss, IsSeq(ss), \A n \in DOMAIN ss : IsSeq(ss[n])
  PROVE  \E row : Rows(FlattenSeq(ss), row, ss, Len(ss))
<1> DEFINE N == Len(ss)
           Solves(f, n) == f = [i \in 1..n |-> IF i = 1 THEN ss[i] ELSE f[i - 1] \o ss[i]]
           flatten == CHOOSE f : Solves(f, N)
<1>1. N \in Nat /\ DOMAIN ss = 1..N
  BY SeqFacts
<1>2. CASE N = 0
  <2>1. FlattenSeq(ss) = ss
    BY <1>2 DEF FlattenSeq
  <2>2. DOMAIN ss = {} /\ 1..N = {}
    BY <1>1, <1>2
  <2>3. Rows(ss, ss, ss, N)
    <3>1. ss \in [DOMAIN ss -> 1..N]
      <4>1. ss = [i \in DOMAIN ss |-> ss[i]]
        BY DEF IsSeq
      <4> QED BY <2>2, <4>1
    <3> HIDE DEF N
    <3> QED BY <2>2, <3>1 DEF Rows
  <2> QED BY <2>1, <2>3
<1>3. CASE N # 0
  <2>1. FlattenSeq(ss) = flatten[N]
    BY <1>3 DEF FlattenSeq
  <2> HIDE DEF N
  <2> DEFINE T == {n \in Nat : \E f : Solves(f, n)}
  <2>2. 0 \in T
    <3> DEFINE f == [i \in 1..0 |-> 0]
    <3>1. 1..0 = {}
      OBVIOUS
    <3>2. Solves(f, 0)
      BY <3>1
    <3> HIDE DEF Solves, f
    <3> QED BY <3>2
  <2>3. ASSUME NEW n \in Nat, n \in T PROVE n + 1 \in T
    <3>1. PICK f : Solves(f, n)
      BY <2>3
    <3> DEFINE h == [i \in 1..(n + 1) |-> IF i = 1 THEN ss[i] ELSE f[i - 1] \o ss[i]]
    <3>2. ASSUME NEW i \in 1..(n + 1)
          PROVE  h[i] = IF i = 1 THEN ss[i] ELSE h[i - 1] \o ss[i]
      <4>1. CASE i = 1
        BY <4>1
      <4>2. CASE i # 1
        <5>1. i - 1 \in 1..n /\ i - 1 \in 1..(n + 1)
          BY <4>2
        <5>2. f[i - 1] = IF i - 1 = 1 THEN ss[i - 1] ELSE f[(i - 1) - 1] \o ss[i - 1]
          BY <3>1, <5>1
        <5>3. h[i - 1] = f[i - 1]
          BY <5>1, <5>2
        <5> QED BY <4>2, <5>3
      <4> QED BY <4>1, <4>2
    <3>3. h = [i \in 1..(n + 1) |-> h[i]]
      OBVIOUS
    <3> HIDE DEF h
    <3>4. Solves(h, n + 1)
      BY <3>2, <3>3
    <3> HIDE DEF Solves
    <3> QED BY <3>4
  <2>4. \A n \in Nat : n \in T
    <3> HIDE DEF T
    <3> QED BY <2>2, <2>3, NatSetInduction
  <2>5. Solves(flatten, N)
    <3> HIDE DEF Solves
    <3> QED BY <1>1, <2>4
  <2> HIDE DEF flatten
  <2>6. \A i \in 1..N : flatten[i] = IF i = 1 THEN ss[i] ELSE flatten[i - 1] \o ss[i]
    BY <2>5
  <2> HIDE DEF T, Solves
  <2> DEFINE U == {n \in Nat : n + 1 <= N => \E row : Rows(flatten[n + 1], row, ss, n + 1)}
  <2>7. 0 \in U
    <3>1. 1 \in 1..N /\ IsSeq(ss[1]) /\ flatten[1] = ss[1]
      BY <1>1, <1>3, <2>6
    <3> DEFINE t == ss[1]
               r == [m \in DOMAIN t |-> 1]
    <3>2. \A m \in DOMAIN t : t[m] \in Range(ss[1]) /\ r[m] = 1
      BY DEF Range
    <3>3. r \in [DOMAIN t -> 1..1]
      OBVIOUS
    <3>4. \A x \in Range(ss[1]) : \E m \in DOMAIN t : r[m] = 1 /\ t[m] = x
      BY DEF Range
    <3>5. \A i \in 1..1 : i = 1
      OBVIOUS
    <3> HIDE DEF r
    <3>6. Rows(t, r, ss, 1)
      BY <3>1, <3>2, <3>3, <3>4, <3>5 DEF Rows
    <3>7. \E row : Rows(flatten[0 + 1], row, ss, 0 + 1)
      <4>1. 0 + 1 = 1
        OBVIOUS
      <4> QED BY <3>1, <3>6, <4>1
    <3> QED BY <3>7
  <2>8. ASSUME NEW n \in Nat, n \in U PROVE n + 1 \in U
    <3> SUFFICES ASSUME (n + 1) + 1 <= N
                 PROVE  \E row : Rows(flatten[(n + 1) + 1], row, ss, (n + 1) + 1)
      OBVIOUS
    <3>1. n + 1 <= N /\ (n + 1) + 1 \in 1..N /\ (n + 1) + 1 # 1 /\ ((n + 1) + 1) - 1 = n + 1 /\ n + 1 \in Nat
      BY <1>1
    <3>2. PICK row : Rows(flatten[n + 1], row, ss, n + 1)
      BY <2>8, <3>1
    <3>3. flatten[(n + 1) + 1] = flatten[n + 1] \o ss[(n + 1) + 1] /\ IsSeq(ss[(n + 1) + 1])
      BY <1>1, <2>6, <3>1
    <3> QED BY <3>1, <3>2, <3>3, RowsGrow
  <2>9. \A n \in Nat : n \in U
    <3> HIDE DEF U
    <3> QED BY <2>7, <2>8, NatSetInduction
  <2>10. N - 1 \in Nat /\ (N - 1) + 1 = N
    BY <1>1, <1>3
  <2>11. \E row : Rows(flatten[(N - 1) + 1], row, ss, (N - 1) + 1)
    <3>1. PICK n \in Nat : n = N - 1 /\ n + 1 <= N
      BY <1>1, <2>10
    <3>2. n \in U
      BY <2>9
    <3> QED BY <3>1, <3>2
  <2> QED BY <2>1, <2>10, <2>11 DEF N
<1> QED BY <1>2, <1>3

-----------------------------------------------------------------------------
(* ----------------------- the sections of the objects ------------------- *)

LEMMA KeptOf ==
  ASSUME NEW s, IsSeq(s), NEW J \in SUBSET DOMAIN s
  PROVE  LET k == Kept(s, J) IN
         /\ IsSeq(k) /\ DOMAIN k \subseteq Nat
         /\ \A n \in DOMAIN k : Position(J, n) \in J /\ k[n] = s[Position(J, n)]
         /\ \A n, m \in DOMAIN k : n < m => Position(J, n) < Position(J, m)
         /\ \A i \in J : \E n \in DOMAIN k : Position(J, n) = i /\ k[n] = s[i]
<1> DEFINE k == Kept(s, J)
<1>1. IsFiniteSet(J) /\ \A i \in J : i \in Int
  BY SeqFacts, FS_Subset
<1>2. /\ Cardinality(J) \in Nat /\ DOMAIN k = 1..Cardinality(J)
      /\ k = [n \in 1..Cardinality(J) |-> k[n]]
      /\ \A n \in DOMAIN k : Position(J, n) \in J /\ k[n] = s[Position(J, n)]
      /\ \A n, m \in DOMAIN k : n < m => Position(J, n) < Position(J, m)
      /\ \A i \in J : \E n \in DOMAIN k : Position(J, n) = i /\ k[n] = s[i]
  BY <1>1, KeptFacts
<1> HIDE DEF k
<1>3. IsSeq(k) /\ DOMAIN k \subseteq Nat
  BY <1>2, MadeSeq
<1> QED BY <1>2, <1>3 DEF k

LEMMA MappedSeq ==
  ASSUME NEW s, IsSeq(s), NEW t, t = [n \in DOMAIN s |-> t[n]]
  PROVE  IsSeq(t) /\ DOMAIN t = DOMAIN s /\ Len(t) = Len(s)
<1>1. Len(s) \in Nat /\ DOMAIN s = 1..Len(s)
  BY SeqFacts
<1> QED BY <1>1, MadeSeq

\* What a kind of object contributes.
LEMMA OfKind ==
  ASSUME NEW objs, IsSeq(objs), NEW kind
  PROVE  LET O == Of(objs, kind) IN
         /\ IsSeq(O)
         /\ \A n \in DOMAIN O : O[n].kind = kind /\ \E i \in DOMAIN objs : O[n] = objs[i]
<1> DEFINE J == {n \in DOMAIN objs : objs[n].kind = kind}
<1>1. Of(objs, kind) = Kept(objs, J)
  BY DEF Of, Filter
<1>2. J \in SUBSET DOMAIN objs /\ \A i \in J : objs[i].kind = kind
  OBVIOUS
<1> HIDE DEF J
<1> QED BY <1>1, <1>2, KeptOf

Listed(objs) == IsSeq(objs) /\ \A n \in DOMAIN objs : objs[n] \in Objects

LEMMA Bridges ==
  ASSUME NEW objs, Listed(objs)
  PROVE  LET B == mcpbridges(objs) IN
         /\ IsSeq(B)
         /\ \A n \in DOMAIN B : B[n] \in Objects /\ B[n].kind = "McpBridge" /\ BridgeOk(B[n])
<1> DEFINE O == Of(objs, "McpBridge")
           J == {n \in DOMAIN O : BridgeOk(O[n])}
<1>1. mcpbridges(objs) = Kept(O, J)
  BY DEF mcpbridges, Filter
<1>2. IsSeq(O) /\ \A n \in DOMAIN O : O[n] \in Objects /\ O[n].kind = "McpBridge"
  BY OfKind DEF Listed
<1>3. J \in SUBSET DOMAIN O /\ \A i \in J : BridgeOk(O[i])
  OBVIOUS
<1> HIDE DEF O, J
<1> QED BY <1>1, <1>2, <1>3, KeptOf

\* A registry entry of a bridge whose types are all known.
FromBridge(reg) ==
  \E o \in Objects : /\ o.kind = "McpBridge"
                     /\ \E k \in DOMAIN o.registries :
                          /\ reg = Registry(o.registries[k])
                          /\ o.registries[k].type \in ServiceType

LEMMA BuiltRegistries ==
  ASSUME NEW objs, Listed(objs)
  PROVE  LET R == build_config_data(objs).registries IN
         IsSeq(R) /\ \A n \in DOMAIN R : FromBridge(R[n])
<1> DEFINE B == mcpbridges(objs)
           ss == [n \in DOMAIN B |-> BridgeRegistries(B[n])]
           F == FlattenSeq(ss)
<1>1. build_config_data(objs).registries = F
  BY DEF build_config_data, Flatten, Map
<1>2. /\ IsSeq(B)
      /\ \A n \in DOMAIN B : B[n] \in Objects /\ B[n].kind = "McpBridge" /\ BridgeOk(B[n])
  BY Bridges
<1> HIDE DEF B
<1>3. ASSUME NEW o \in Objects, o.kind = "McpBridge", BridgeOk(o)
      PROVE  /\ IsSeq(BridgeRegistries(o))
             /\ \A x \in Range(BridgeRegistries(o)) : FromBridge(x)
  <2> DEFINE J == {n \in DOMAIN o.registries : Named(o.registries[n])}
             k == Kept(o.registries, J)
             t == [n \in DOMAIN k |-> Registry(k[n])]
  <2>1. BridgeRegistries(o) = t
    BY DEF BridgeRegistries, Map, Filter
  <2>2. IsSeq(o.registries)
    BY <1>3, ObjectShape
  <2>3. J \in SUBSET DOMAIN o.registries /\ \A i \in J : o.registries[i].type \in ServiceType
    BY <1>3 DEF BridgeOk
  <2> HIDE DEF J
  <2>4. IsSeq(k) /\ \A n \in DOMAIN k : \E i \in J : k[n] = o.registries[i]
    BY <2>2, <2>3, KeptOf
  <2> HIDE DEF k
  <2>5. t = [n \in DOMAIN k |-> t[n]] /\ \A n \in DOMAIN t : n \in DOMAIN k /\ t[n] = Registry(k[n])
    OBVIOUS
  <2> HIDE DEF t
  <2>6. IsSeq(t)
    BY <2>4, <2>5, MappedSeq
  <2>7. \A n \in DOMAIN t : FromBridge(t[n])
    <3> TAKE n \in DOMAIN t
    <3>1. PICK i \in J : k[n] = o.registries[i]
      BY <2>4, <2>5
    <3> QED BY <1>3, <2>3, <2>5, <3>1 DEF FromBridge
  <2> QED BY <2>1, <2>6, <2>7 DEF Range
<1>4. ss = [n \in DOMAIN B |-> ss[n]] /\ \A n \in DOMAIN B : ss[n] = BridgeRegistries(B[n])
  OBVIOUS
<1> HIDE DEF ss
<1>5. IsSeq(ss) /\ DOMAIN ss = DOMAIN B
  BY <1>2, <1>4, MappedSeq
<1>6. \A n \in DOMAIN ss : IsSeq(ss[n]) /\ \A x \in Range(ss[n]) : FromBridge(x)
  BY <1>2, <1>3, <1>4, <1>5
<1>7. PICK row : Rows(F, row, ss, Len(ss))
  BY <1>5, <1>6, FlatRows
<1> HIDE DEF F
<1>8. DOMAIN ss = 1..Len(ss)
  BY <1>5, SeqFacts
<1>9. IsSeq(F) /\ \A n \in DOMAIN F : row[n] \in DOMAIN ss /\ F[n] \in Range(ss[row[n]])
  BY <1>7, <1>8 DEF Rows
<1> QED BY <1>1, <1>6, <1>9

-----------------------------------------------------------------------------
(* ------------------------------ resolution ----------------------------- *)

LEMMA AddressFacts ==
  ASSUME NEW a \in Seq(STRING \cup Nat), NEW p \in Nat \cup {None}
  PROVE  /\ a # None /\ (p # None => Append(a, p) # None) /\ WithPort(a, p) # None
<1>1. a # None
  BY ObjectShape
<1>2. ASSUME p # None PROVE Append(a, p) # None
  <2>1. p \in STRING \cup Nat
    BY <1>2
  <2>2. Append(a, p) \in Seq(STRING \cup Nat)
    BY <2>1
  <2> QED BY <2>2, ObjectShape
<1> QED BY <1>1, <1>2 DEF WithPort

LEMMA ShortLists ==
  ASSUME NEW A, NEW a \in A, NEW b \in A
  PROVE  << >> \in Seq(A) /\ <<a>> \in Seq(A) /\ <<a>> # << >> /\ <<a, b>> \in Seq(A)
  OBVIOUS

LEMMA JoinedLists ==
  ASSUME NEW A, NEW s \in Seq(A), NEW t \in Seq(A)
  PROVE  s \o t \in Seq(A) /\ (s # << >> => s \o t # << >>)
  OBVIOUS

LEMMA Remainder == ASSUME NEW a \in Nat, NEW b \in Nat \ {0} PROVE a % b \in Nat
  OBVIOUS

LEMMA BareText ==
  ASSUME NEW d, IsDomain(d), d.host # ""
  PROVE  Bare(d) \in Seq(STRING \cup Nat) /\ Bare(d) # << >>
<1> DEFINE A == STRING \cup Nat
           x == IF d.port = None THEN << >> ELSE <<d.port>>
           y == IF d.path = None THEN << >> ELSE <<d.path>>
           h == <<d.host>>
<1>1. d.host \in A /\ (d.port # None => d.port \in A) /\ (d.path # None => d.path \in A)
  BY DEF IsDomain
<1>2. Bare(d) = (h \o x) \o y
  BY DEF Bare
<1> HIDE DEF A
<1>3. x \in Seq(A) /\ y \in Seq(A) /\ h \in Seq(A) /\ h # << >>
  BY <1>1, ShortLists
<1> HIDE DEF x, y, h
<1>4. PICK z \in Seq(A) : z = h \o x /\ z # << >>
  BY <1>3, JoinedLists
<1>5. z \o y \in Seq(A) /\ z \o y # << >>
  BY <1>3, <1>4, JoinedLists
<1> QED BY <1>2, <1>4, <1>5 DEF A

LEMMA GoodRegistryResolves ==
  ASSUME NEW reg, FromBridge(reg), NEW proxies, GoodRegistry(reg, proxies), reg.domain.host # ""
  PROVE  resolve(reg, proxies) # Unresolved
<1> DEFINE A == STRING \cup Nat
           d == reg.domain
           via == Where(proxies, LAMBDA p : p.name = reg.proxy)
           to(address, proxy) == IF address = None THEN Unresolved
                                 ELSE [https |-> d.scheme = "https", address |-> address, proxy |-> proxy]
<1>1. PICK o \in Objects :
        o.kind = "McpBridge" /\ \E k \in DOMAIN o.registries :
          reg = Registry(o.registries[k]) /\ o.registries[k].type \in ServiceType
  BY DEF FromBridge
<1>2. PICK k \in DOMAIN o.registries :
        reg = Registry(o.registries[k]) /\ o.registries[k].type \in ServiceType
  BY <1>1
<1> DEFINE r == o.registries[k]
<1>3. reg.id[2] = r.type /\ reg.domain = r.domain /\ reg.port = AsU16(r.port)
  BY <1>2 DEF Registry
<1>4. r.port \in Nat \cup {None} /\ (r.domain # None => IsDomain(r.domain))
  BY <1>1, <1>2, ObjectShape
<1>5. reg.id[2] \in ServiceType /\ IsDomain(d) /\ d.host # ""
  BY <1>2, <1>3, <1>4 DEF GoodRegistry
<1>6. reg.port \in Nat \cup {None}
  <2>1. \A n \in Nat : n % U16 \in Nat
    BY SnapshotConstants, Remainder
  <2> QED BY <1>3, <1>4, <2>1 DEF AsU16
<1> HIDE DEF d
<1>7. Bare(d) \in Seq(A) /\ Bare(d) # << >>
  BY <1>5, BareText
<1>8. \A address, proxy : address # None => to(address, proxy) # Unresolved
  BY DEF Unresolved
<1>9. /\ reg.id[2] = "static" => resolve(reg, proxies) = to(normalize_static_domain(d, reg.port), None)
      /\ reg.id[2] = "dns" => resolve(reg, proxies) =
           IF reg.port = None THEN Unresolved ELSE to(Append(Bare(d), reg.port), None)
      /\ reg.id[2] = "proxy" => resolve(reg, proxies) =
           IF via = {} THEN Unresolved ELSE to(WithPort(Bare(d), reg.port), proxies[Min(via)].address)
      /\ reg.id[2] = "tunnel" => resolve(reg, proxies) = to(WithPort(Bare(d), reg.port), None)
  BY <1>7 DEF resolve, d
<1>10. normalize_static_domain(d, reg.port) # None
  <2> DEFINE port == IF d.port # None THEN d.port ELSE IF reg.port = None THEN 80 ELSE reg.port
  <2>1. normalize_static_domain(d, reg.port) = <<d.host, port>>
    BY <1>5 DEF normalize_static_domain
  <2>2. d.host \in A /\ port \in A
    BY <1>5, <1>6 DEF IsDomain
  <2>3. <<d.host, port>> \in Seq(A)
    <3> HIDE DEF A, port
    <3> QED BY <2>2, ShortLists
  <2> QED BY <2>1, <2>3, ObjectShape
<1>11. (reg.port # None => Append(Bare(d), reg.port) # None) /\ WithPort(Bare(d), reg.port) # None
  BY <1>6, <1>7, AddressFacts
<1>12. (reg.id[2] = "dns" => reg.port # None) /\ (reg.id[2] = "proxy" => via # {})
  BY DEF GoodRegistry, Where
<1> HIDE DEF to, via
<1> QED BY <1>5, <1>8, <1>9, <1>10, <1>11, <1>12 DEF ServiceType

-----------------------------------------------------------------------------
\* What the objects say of everything but the routes is what the snapshot holds,
\* also when routes were handed over: then there are no objects.
SectionsInv ==
  /\ Listed(objects)
  /\ data.registries = build_config_data(objects).registries
  /\ data.proxies = build_config_data(objects).proxies
  /\ data.tokens = build_config_data(objects).tokens

LEMMA SectionsInvariant == Spec => []SectionsInv
<1>1. Init => SectionsInv
  <2> SUFFICES ASSUME Init PROVE SectionsInv
    OBVIOUS
  <2>1. objects = << >> /\ data = build_config_data(objects)
    BY DEF Init, Empty
  <2>2. IsSeq(objects) /\ DOMAIN objects = {}
    BY <2>1, EmptyIsSeq
  <2> QED BY <2>1, <2>2 DEF SectionsInv, Listed
<1>2. SectionsInv /\ SnapshotInv /\ [Next]_vars => SectionsInv'
  <2> SUFFICES ASSUME SectionsInv, SnapshotInv, [Next]_vars PROVE SectionsInv'
    OBVIOUS
  <2>1. ASSUME NEW o \in Objects, Apply(o) PROVE SectionsInv'
    <3>1. objects' = Append(objects, o) /\ data' = build_config_data(objects')
      BY <2>1 DEF Apply
    <3>2. IsSeq(objects') /\ IsSeq(objects)
      BY <3>1, AppendSeq DEF SectionsInv, Listed
    <3>3. \A n \in DOMAIN objects' : objects'[n] \in Objects
      <4>1. objects \in Seq(Objects)
        <5>1. objects \in [1..Len(objects) -> Range(objects)] /\ Len(objects) \in Nat
          BY <3>2 DEF IsSeq
        <5>2. objects \in [1..Len(objects) -> Objects]
          BY <5>1 DEF SectionsInv, Listed
        <5> QED BY <5>1, <5>2
      <4>2. objects' \in Seq(Objects)
        BY <3>1, <4>1
      <4> QED BY <4>2
    <3> QED BY <3>1, <3>2, <3>3 DEF SectionsInv, Listed
  <2>2. ASSUME NEW r, Offer(r) PROVE SectionsInv'
    <3>1. objects' = objects /\ data' = [data EXCEPT !.routes = Append(@, r)]
      BY <2>2 DEF Offer
    <3>2. data'.registries = data.registries /\ data'.proxies = data.proxies /\ data'.tokens = data.tokens
      <4>1. "registries" \in DOMAIN data /\ "proxies" \in DOMAIN data /\ "tokens" \in DOMAIN data
        BY DEF SnapshotInv, IsConfig, Empty, build_config_data
      <4> QED BY <3>1, <4>1
    <3> QED BY <3>1, <3>2 DEF SectionsInv
  <2>3. ASSUME UNCHANGED vars PROVE SectionsInv'
    BY <2>3 DEF vars, SectionsInv
  <2> QED BY <2>1, <2>2, <2>3 DEF Next
<1> QED BY <1>1, <1>2, SnapshotInvariant, PTL DEF Spec

\* Whatever bridges are listed, the index that rebuild precomputes answers every
\* destination as the direct resolver does, and no registry that validation lets
\* through is left without an address (registry.rs precompute_registries, resolve).
THEOREM AcceptedRegistriesResolve == Spec => []RegistriesResolve
<1>1. SnapshotInv /\ SectionsInv => RegistriesResolve
  <2> SUFFICES ASSUME SnapshotInv, SectionsInv PROVE RegistriesResolve
    OBVIOUS
  <2> DEFINE acc == sanitize(data)
             J == {n \in DOMAIN data.registries : GoodRegistry(data.registries[n], data.proxies)}
  <2>1. acc.registries = Kept(data.registries, J) /\ acc.proxies = data.proxies
    <3>1. /\ "routes" \in DOMAIN data /\ "registries" \in DOMAIN data
          /\ "tokens" \in DOMAIN data /\ "proxies" \in DOMAIN data
      BY DEF SnapshotInv, IsConfig, Empty, build_config_data
    <3> QED BY <3>1 DEF sanitize, Filter
  <2>2. IsSeq(data.registries) /\ \A n \in DOMAIN data.registries : FromBridge(data.registries[n])
    BY BuiltRegistries DEF SectionsInv
  <2>3. J \in SUBSET DOMAIN data.registries
        /\ \A n \in J : GoodRegistry(data.registries[n], data.proxies)
    OBVIOUS
  <2> HIDE DEF acc, J
  <2>4. ASSUME NEW n \in DOMAIN acc.registries, acc.registries[n].domain.host # ""
        PROVE  resolve(acc.registries[n], acc.proxies) # Unresolved
    <3>1. PICK i \in J : acc.registries[n] = data.registries[i]
      BY <2>1, <2>2, <2>3, KeptOf
    <3> QED BY <2>1, <2>2, <2>3, <2>4, <3>1, GoodRegistryResolves
  <2>5. ASSUME NEW d PROVE resolve_index(precompute_registries(acc), d) = resolve_destination(acc, d)
    <3> DEFINE id == service_name(d.service)
               at == RegistriesOf(acc, id)
               index == precompute_registries(acc)
    <3>1. DOMAIN index = RegistryIds(acc) /\ (id \in RegistryIds(acc) <=> at # {})
      BY DEF precompute_registries, RegistryIds, RegistriesOf, Where
    <3>2. id \in RegistryIds(acc) => index[id] = resolve(acc.registries[Min(at)], acc.proxies)
      BY DEF precompute_registries
    <3> HIDE DEF index, at
    <3>3. resolve_index(index, d) = resolve_destination(acc, d)
      BY <3>1, <3>2 DEF resolve_index, resolve_destination, at
    <3> QED BY <3>3 DEF index
  <2> QED BY <2>4, <2>5 DEF RegistriesResolve, acc
<1> QED BY <1>1, SnapshotInvariant, SectionsInvariant, PTL

-----------------------------------------------------------------------------
(* ----------------------------- plugin rules ---------------------------- *)

\* org maps T onto C and keeps the order.
Ordered(T, org, C) ==
  /\ T \subseteq Nat /\ \A m \in T : org[m] \in Nat /\ org[m] \in C
  /\ \A m, k \in T : m <= k => org[m] <= org[k]
  /\ \A c \in C : \E m \in T : org[m] = c

\* The least of a set leads to the least of its image under a map that keeps order.
LEMMA LeastOfImage ==
  ASSUME NEW T, NEW org, NEW C, Ordered(T, org, C)
  PROVE  /\ T # {} <=> C # {}
         /\ T # {} => Min(T) \in T /\ org[Min(T)] = Min(C)
<1>1. /\ T \subseteq Nat /\ \A m \in T : org[m] \in Nat /\ org[m] \in C
      /\ \A m, k \in T : m <= k => org[m] <= org[k]
      /\ \A c \in C : \E m \in T : org[m] = c
  BY DEF Ordered
<1> SUFFICES ASSUME T # {} PROVE Min(T) \in T /\ org[Min(T)] = Min(C)
  BY <1>1
<1>2. Min(T) \in T /\ \A n \in T : Min(T) <= n
  BY <1>1, MinFacts
<1>3. PICK k \in T : k = Min(T)
  BY <1>2
<1>4. C \subseteq Nat /\ org[k] \in C /\ \A c \in C : org[k] <= c
  BY <1>1, <1>2, <1>3
<1>5. Min(C) = org[k]
  <2> HIDE DEF Min
  <2> QED BY <1>4, MinIs
<1> QED BY <1>2, <1>3, <1>5

LEMMA ProxyPlugins ==
  ASSUME NEW objs, Listed(objs), NEW name
  PROVE  LET P == Filter(Of(objs, "WasmPlugin"), LAMBDA o : o.name = Whole(name)) IN
         /\ IsSeq(P)
         /\ \A n \in DOMAIN P : P[n] \in Objects /\ P[n].kind = "WasmPlugin" /\ P[n].name = Whole(name)
<1> DEFINE O == Of(objs, "WasmPlugin")
           J == {n \in DOMAIN O : O[n].name = Whole(name)}
           P == Filter(Of(objs, "WasmPlugin"), LAMBDA o : o.name = Whole(name))
<1>1. P = Kept(O, J)
  BY DEF Filter
<1>2. IsSeq(O) /\ \A n \in DOMAIN O : O[n] \in Objects /\ O[n].kind = "WasmPlugin"
  BY OfKind DEF Listed
<1>3. J \in SUBSET DOMAIN O /\ \A i \in J : O[i].name = Whole(name)
  OBVIOUS
<1> HIDE DEF O, J, P
<1>4. /\ IsSeq(P)
      /\ \A n \in DOMAIN P : P[n] \in Objects /\ P[n].kind = "WasmPlugin" /\ P[n].name = Whole(name)
  BY <1>1, <1>2, <1>3, KeptOf
<1> QED BY <1>4 DEF P

\* The entries of a flattened list are those of its lists.
LEMMA FlatRange ==
  ASSUME NEW ss, IsSeq(ss), \A n \in DOMAIN ss : IsSeq(ss[n])
  PROVE  /\ IsSeq(FlattenSeq(ss))
         /\ \A x \in Range(FlattenSeq(ss)) : \E n \in DOMAIN ss : x \in Range(ss[n])
         /\ \A n \in DOMAIN ss : \A x \in Range(ss[n]) : x \in Range(FlattenSeq(ss))
<1> DEFINE F == FlattenSeq(ss)
<1>1. PICK row : Rows(F, row, ss, Len(ss))
  BY FlatRows
<1>2. DOMAIN ss = 1..Len(ss)
  BY SeqFacts
<1> HIDE DEF F
<1>3. /\ IsSeq(F) /\ \A m \in DOMAIN F : row[m] \in DOMAIN ss /\ F[m] \in Range(ss[row[m]])
      /\ \A n \in DOMAIN ss : \A x \in Range(ss[n]) : \E m \in DOMAIN F : row[m] = n /\ F[m] = x
  BY <1>1, <1>2 DEF Rows
<1>4. \A x \in Range(F) : \E n \in DOMAIN ss : x \in Range(ss[n])
  BY <1>3 DEF Range
<1>5. \A n \in DOMAIN ss : \A x \in Range(ss[n]) : x \in Range(F)
  <2> TAKE n \in DOMAIN ss
  <2> TAKE x \in Range(ss[n])
  <2>1. PICK m \in DOMAIN F : F[m] = x
    BY <1>3
  <2> QED BY <2>1 DEF Range
<1> QED BY <1>3, <1>4, <1>5 DEF F

Entry(s, ing, tokens) == [service |-> s, scope |-> ing, tokens |-> tokens]
Blank == <<"", "">>

\* A rule gives its services, one by one, its provider's tokens in each scope.
LEMMA RuleTokensFacts ==
  ASSUME NEW o, NEW r, IsSeq(r.services), IsSeq(r.ingress)
  PROVE  LET X == RuleTokens(o, r)
             keys == ProviderTokens(o, r.active)
         IN /\ IsSeq(X)
            /\ \A x \in Range(X) : \E s \in Range(r.services), ing \in Range(Scopes(r)) :
                 s # Blank /\ x = Entry(s, ing, keys)
            /\ \A s \in Range(r.services), ing \in Range(Scopes(r)) :
                 s # Blank => Entry(s, ing, keys) \in Range(X)
<1> DEFINE keys == ProviderTokens(o, r.active)
           J == {n \in DOMAIN r.services : r.services[n] # Blank}
           S == Kept(r.services, J)
           scopes == Scopes(r)
           entries(s) == [k \in DOMAIN scopes |-> Entry(s, scopes[k], keys)]
           ss == [n \in DOMAIN S |-> entries(S[n])]
           X == RuleTokens(o, r)
<1>1. X = FlattenSeq(ss)
  BY DEF RuleTokens, Flatten, Map, Filter, Entry, Blank
<1>2. IsSeq(scopes)
  <2>1. CASE r.ingress = << >>
    <3>1. scopes = <<None>>
      BY <2>1 DEF Scopes
    <3>2. scopes = [i \in 1..1 |-> scopes[i]]
      BY <3>1
    <3> HIDE DEF scopes
    <3> QED BY <3>2, MadeSeq
  <2>2. CASE r.ingress # << >>
    BY <2>2 DEF Scopes
  <2> QED BY <2>1, <2>2
<1>3. J \in SUBSET DOMAIN r.services /\ \A i \in DOMAIN r.services : i \in J <=> r.services[i] # Blank
  OBVIOUS
<1> HIDE DEF J, X, scopes
<1>4. /\ IsSeq(S)
      /\ \A n \in DOMAIN S : S[n] # Blank /\ S[n] \in Range(r.services)
      /\ \A s \in Range(r.services) : s # Blank => \E n \in DOMAIN S : S[n] = s
  <2>1. /\ IsSeq(S)
        /\ \A n \in DOMAIN S : Position(J, n) \in J /\ S[n] = r.services[Position(J, n)]
        /\ \A i \in J : \E n \in DOMAIN S : S[n] = r.services[i]
    BY <1>3, KeptOf
  <2> HIDE DEF S
  <2> QED BY <1>3, <2>1 DEF Range
<1> HIDE DEF S, keys
<1>5. ASSUME NEW s
      PROVE  /\ IsSeq(entries(s))
             /\ \A x \in Range(entries(s)) : \E ing \in Range(scopes) : x = Entry(s, ing, keys)
             /\ \A ing \in Range(scopes) : Entry(s, ing, keys) \in Range(entries(s))
  <2> DEFINE t == entries(s)
  <2>1. t = [k \in DOMAIN scopes |-> t[k]] /\ \A k \in DOMAIN scopes : t[k] = Entry(s, scopes[k], keys)
    OBVIOUS
  <2> HIDE DEF t
  <2>2. IsSeq(t) /\ DOMAIN t = DOMAIN scopes
    BY <1>2, <2>1, MappedSeq
  <2>3. \A x \in Range(t) : \E ing \in Range(scopes) : x = Entry(s, ing, keys)
    BY <2>1, <2>2 DEF Range
  <2>4. \A ing \in Range(scopes) : Entry(s, ing, keys) \in Range(t)
    BY <2>1, <2>2 DEF Range
  <2> QED BY <2>2, <2>3, <2>4 DEF t
<1>6. ss = [n \in DOMAIN S |-> ss[n]] /\ \A n \in DOMAIN S : ss[n] = entries(S[n])
  OBVIOUS
<1> HIDE DEF ss, entries
<1>7. IsSeq(ss) /\ DOMAIN ss = DOMAIN S
  BY <1>4, <1>6, MappedSeq
<1>8. \A n \in DOMAIN ss : IsSeq(ss[n])
  BY <1>5, <1>6, <1>7
<1>9. /\ IsSeq(X)
      /\ \A x \in Range(X) : \E n \in DOMAIN ss : x \in Range(ss[n])
      /\ \A n \in DOMAIN ss : \A x \in Range(ss[n]) : x \in Range(X)
  BY <1>1, <1>7, <1>8, FlatRange
<1>10. ASSUME NEW x \in Range(X)
       PROVE  \E s \in Range(r.services), ing \in Range(scopes) : s # Blank /\ x = Entry(s, ing, keys)
  <2>1. PICK n \in DOMAIN S : x \in Range(entries(S[n]))
    BY <1>6, <1>7, <1>9
  <2>2. PICK ing \in Range(scopes) : x = Entry(S[n], ing, keys)
    BY <1>5, <2>1
  <2> QED BY <1>4, <2>2
<1>11. ASSUME NEW s \in Range(r.services), NEW ing \in Range(scopes), s # Blank
       PROVE  Entry(s, ing, keys) \in Range(X)
  <2>1. PICK n \in DOMAIN S : S[n] = s
    BY <1>4, <1>11
  <2>2. Entry(s, ing, keys) \in Range(ss[n])
    BY <1>5, <1>6, <2>1
  <2> QED BY <1>7, <1>9, <2>2
<1> QED BY <1>9, <1>10, <1>11 DEF X, scopes, keys

\* Token m of the list acc comes from rule org[m] of the plugin.
TokenRows(acc, org, o) ==
  LET key(n) == ProviderTokens(o, o.rules[n].active) IN
  /\ DOMAIN acc \subseteq Nat
  /\ \A m \in DOMAIN acc :
       /\ org[m] \in DOMAIN o.rules /\ key(org[m]) # << >>
       /\ \E s \in Range(o.rules[org[m]].services), ing \in Range(Scopes(o.rules[org[m]])) :
            acc[m] = Entry(s, ing, key(org[m]))
  /\ \A m, k \in DOMAIN acc : m <= k => org[m] <= org[k]
  /\ \A n \in DOMAIN o.rules : key(n) # << >> =>
       \A s \in Range(o.rules[n].services), ing \in Range(Scopes(o.rules[n])) :
         s # Blank => \E m \in DOMAIN acc : org[m] = n /\ acc[m] = Entry(s, ing, key(n))

LEMMA TokensFollow ==
  ASSUME NEW o \in Objects, o.kind = "WasmPlugin", o.name = Whole("gpustack-ai-proxy")
  PROVE  \E org : TokenRows(Filter(wasmplugin_ai_proxy(o), GoodToken), org, o)
<1> DEFINE key(n) == ProviderTokens(o, o.rules[n].active)
           K == {n \in DOMAIN o.rules : key(n) # << >>}
           R == Kept(o.rules, K)
           ss == [n \in DOMAIN R |-> RuleTokens(o, R[n])]
           F == FlattenSeq(ss)
           G == {m \in DOMAIN F : GoodToken(F[m])}
           acc == Kept(F, G)
<1>1. Filter(wasmplugin_ai_proxy(o), GoodToken) = acc
  BY DEF Filter, wasmplugin_ai_proxy, Flatten, Map
<1>2. IsSeq(o.rules) /\ \A n \in DOMAIN o.rules : IsSeq(o.rules[n].services) /\ IsSeq(o.rules[n].ingress)
  BY ObjectShape
<1>3. K \in SUBSET DOMAIN o.rules /\ \A n \in DOMAIN o.rules : n \in K <=> key(n) # << >>
  OBVIOUS
<1> HIDE DEF K
<1>4. /\ IsSeq(R) /\ DOMAIN R \subseteq Nat
      /\ \A n \in DOMAIN R : Position(K, n) \in K /\ R[n] = o.rules[Position(K, n)]
      /\ \A n, m \in DOMAIN R : n < m => Position(K, n) < Position(K, m)
      /\ \A i \in K : \E n \in DOMAIN R : Position(K, n) = i /\ R[n] = o.rules[i]
  BY <1>2, <1>3, KeptOf
<1> HIDE DEF R
<1>5. \A n \in DOMAIN R : IsSeq(R[n].services) /\ IsSeq(R[n].ingress)
  BY <1>2, <1>3, <1>4
<1>6. ss = [n \in DOMAIN R |-> ss[n]] /\ \A n \in DOMAIN R : ss[n] = RuleTokens(o, R[n])
  OBVIOUS
<1> HIDE DEF ss
<1>7. IsSeq(ss) /\ DOMAIN ss = DOMAIN R
  BY <1>4, <1>6, MappedSeq
<1>8. \A n \in DOMAIN ss :
        /\ IsSeq(ss[n])
        /\ \A x \in Range(ss[n]) : \E s \in Range(R[n].services), ing \in Range(Scopes(R[n])) :
             s # Blank /\ x = Entry(s, ing, ProviderTokens(o, R[n].active))
        /\ \A s \in Range(R[n].services), ing \in Range(Scopes(R[n])) :
             s # Blank => Entry(s, ing, ProviderTokens(o, R[n].active)) \in Range(ss[n])
  BY <1>5, <1>6, <1>7, RuleTokensFacts
<1>9. PICK row : Rows(F, row, ss, Len(ss))
  BY <1>7, <1>8, FlatRows
<1>10. DOMAIN ss = 1..Len(ss)
  BY <1>7, SeqFacts
<1> HIDE DEF F
<1>11. /\ IsSeq(F) /\ \A m \in DOMAIN F : row[m] \in DOMAIN R /\ F[m] \in Range(ss[row[m]])
       /\ \A m, k \in DOMAIN F : m <= k => row[m] <= row[k]
       /\ \A n \in DOMAIN R : \A x \in Range(ss[n]) : \E m \in DOMAIN F : row[m] = n /\ F[m] = x
  BY <1>7, <1>9, <1>10 DEF Rows
<1>12. G \in SUBSET DOMAIN F /\ \A m \in DOMAIN F : m \in G <=> GoodToken(F[m])
  OBVIOUS
<1> HIDE DEF G
<1>13. /\ IsSeq(acc) /\ DOMAIN acc \subseteq Nat
       /\ \A n \in DOMAIN acc : Position(G, n) \in G /\ acc[n] = F[Position(G, n)]
       /\ \A n, m \in DOMAIN acc : n < m => Position(G, n) < Position(G, m)
       /\ \A i \in G : \E n \in DOMAIN acc : Position(G, n) = i /\ acc[n] = F[i]
  BY <1>11, <1>12, KeptOf
<1> HIDE DEF acc
<1> DEFINE org == [m \in DOMAIN acc |-> Position(K, row[Position(G, m)])]
<1>14. \A m \in DOMAIN acc : org[m] = Position(K, row[Position(G, m)])
  OBVIOUS
<1> HIDE DEF org, key
<1>15. ASSUME NEW m \in DOMAIN acc
       PROVE  /\ org[m] \in DOMAIN o.rules /\ key(org[m]) # << >>
              /\ \E s \in Range(o.rules[org[m]].services), ing \in Range(Scopes(o.rules[org[m]])) :
                   acc[m] = Entry(s, ing, key(org[m]))
  <2>1. PICK p \in DOMAIN F : p = Position(G, m) /\ acc[m] = F[p]
    BY <1>12, <1>13
  <2>2. PICK n \in DOMAIN R : n = row[p] /\ F[p] \in Range(ss[n])
    BY <1>11
  <2>3. PICK i \in K : i = Position(K, n) /\ R[n] = o.rules[i]
    BY <1>4
  <2>4. org[m] = i /\ i \in DOMAIN o.rules /\ key(i) # << >> /\ ProviderTokens(o, R[n].active) = key(i)
    BY <1>3, <1>14, <2>1, <2>2, <2>3 DEF key
  <2>5. \E s \in Range(R[n].services), ing \in Range(Scopes(R[n])) :
          acc[m] = Entry(s, ing, ProviderTokens(o, R[n].active))
    <3>1. n \in DOMAIN ss /\ acc[m] \in Range(ss[n])
      BY <1>7, <2>1, <2>2
    <3>2. PICK s \in Range(R[n].services), ing \in Range(Scopes(R[n])) :
            acc[m] = Entry(s, ing, ProviderTokens(o, R[n].active))
      BY <1>8, <3>1
    <3> QED BY <3>2
  <2> QED BY <2>3, <2>4, <2>5
<1>16. \A a, b \in DOMAIN R : a <= b => Position(K, a) <= Position(K, b)
  <2> SUFFICES ASSUME NEW a \in DOMAIN R, NEW b \in DOMAIN R, a <= b
               PROVE  Position(K, a) <= Position(K, b)
    OBVIOUS
  <2>1. PICK x \in Nat, y \in Nat : x = Position(K, a) /\ y = Position(K, b)
    BY <1>2, <1>3, <1>4, SeqFacts
  <2>2. a \in Nat /\ b \in Nat /\ (a < b => x < y) /\ (a = b => x = y)
    BY <1>4, <2>1
  <2> QED BY <2>1, <2>2
<1>17. ASSUME NEW m \in DOMAIN acc, NEW k \in DOMAIN acc, m <= k PROVE org[m] <= org[k]
  <2>1. PICK p \in DOMAIN F, q \in DOMAIN F : p = Position(G, m) /\ q = Position(G, k)
    BY <1>12, <1>13
  <2>2. p \in Nat /\ q \in Nat /\ m \in Nat /\ k \in Nat
    BY <1>11, <1>13, SeqFacts
  <2>3. p <= q
    <3>1. CASE m = k
      BY <2>1, <2>2, <3>1
    <3>2. CASE m < k
      BY <1>13, <2>1, <2>2, <3>2
    <3> QED BY <1>17, <2>2, <3>1, <3>2
  <2>4. PICK a \in DOMAIN R, b \in DOMAIN R : a = row[p] /\ b = row[q] /\ a <= b
    BY <1>11, <2>3
  <2> QED BY <1>14, <1>16, <2>1, <2>4
<1>18. ASSUME NEW n \in DOMAIN o.rules, key(n) # << >>,
              NEW s \in Range(o.rules[n].services), NEW ing \in Range(Scopes(o.rules[n])), s # Blank
       PROVE  \E m \in DOMAIN acc : org[m] = n /\ acc[m] = Entry(s, ing, key(n))
  <2>1. n \in K
    BY <1>3, <1>18
  <2>2. PICK i \in DOMAIN R : Position(K, i) = n /\ R[i] = o.rules[n]
    BY <1>4, <2>1
  <2> DEFINE x == Entry(s, ing, key(n))
  <2>3. x \in Range(ss[i])
    BY <1>7, <1>8, <1>18, <2>2 DEF key
  <2>4. GoodToken(x)
    BY <1>18 DEF GoodToken, Entry, Blank
  <2> HIDE DEF x
  <2>5. PICK p \in DOMAIN F : row[p] = i /\ F[p] = x
    BY <1>11, <2>3
  <2>6. p \in G
    BY <1>12, <2>4, <2>5
  <2>7. PICK m \in DOMAIN acc : Position(G, m) = p /\ acc[m] = F[p]
    BY <1>13, <2>6
  <2> QED BY <1>14, <2>2, <2>5, <2>7 DEF x
<1>19. TokenRows(acc, org, o)
  BY <1>13, <1>15, <1>17, <1>18 DEF TokenRows, key
<1> QED BY <1>1, <1>19

LEMMA EntryFields ==
  ASSUME NEW s, NEW ing, NEW tokens
  PROVE  /\ Entry(s, ing, tokens).service = s /\ Entry(s, ing, tokens).scope = ing
         /\ Entry(s, ing, tokens).tokens = tokens
  BY DEF Entry

\* The tokens for a service in a scope, and the rules of the plugin that give one.
Fit(acc, s, scope) ==
  {m \in DOMAIN acc : acc[m].service = s /\ acc[m].tokens # << >> /\ acc[m].scope = scope}
FittingRules(o, s, scope) ==
  {n \in DOMAIN o.rules : /\ s \in Range(o.rules[n].services)
                          /\ ProviderTokens(o, o.rules[n].active) # << >>
                          /\ scope \in Range(Scopes(o.rules[n]))}

\* The first token of a service in a scope is that of the first rule for both.
LEMMA FirstToken ==
  ASSUME NEW o \in Objects, IsSeq(o.rules), NEW acc, NEW org, TokenRows(acc, org, o),
         NEW s, s # Blank, NEW scope
  PROVE  LET fit == Fit(acc, s, scope)
             from == FittingRules(o, s, scope)
         IN /\ fit # {} <=> from # {}
            /\ fit # {} => acc[Min(fit)].tokens = ProviderTokens(o, o.rules[Min(from)].active)
<1> DEFINE fit == Fit(acc, s, scope)
           from == FittingRules(o, s, scope)
           key(n) == ProviderTokens(o, o.rules[n].active)
<1>1. /\ DOMAIN acc \subseteq Nat
      /\ \A m \in DOMAIN acc :
           /\ org[m] \in DOMAIN o.rules /\ key(org[m]) # << >>
           /\ \E x \in Range(o.rules[org[m]].services), ing \in Range(Scopes(o.rules[org[m]])) :
                acc[m] = Entry(x, ing, key(org[m]))
      /\ \A m, k \in DOMAIN acc : m <= k => org[m] <= org[k]
      /\ \A n \in DOMAIN o.rules : key(n) # << >> =>
           \A x \in Range(o.rules[n].services), ing \in Range(Scopes(o.rules[n])) :
             x # Blank => \E m \in DOMAIN acc : org[m] = n /\ acc[m] = Entry(x, ing, key(n))
  BY DEF TokenRows
<1>2. /\ \A m : m \in fit <=> /\ m \in DOMAIN acc /\ acc[m].service = s
                               /\ acc[m].tokens # << >> /\ acc[m].scope = scope
      /\ \A n : n \in from <=> /\ n \in DOMAIN o.rules /\ s \in Range(o.rules[n].services)
                                /\ key(n) # << >> /\ scope \in Range(Scopes(o.rules[n]))
  BY DEF Fit, FittingRules
<1> HIDE DEF key, fit, from
<1>3. ASSUME NEW m \in fit PROVE m \in DOMAIN acc /\ org[m] \in from /\ acc[m].tokens = key(org[m])
  <2>1. m \in DOMAIN acc /\ acc[m].service = s /\ acc[m].scope = scope
    BY <1>2
  <2>2. PICK x \in Range(o.rules[org[m]].services), ing \in Range(Scopes(o.rules[org[m]])) :
          acc[m] = Entry(x, ing, key(org[m]))
    BY <1>1, <2>1
  <2>3. x = s /\ ing = scope /\ acc[m].tokens = key(org[m])
    BY <2>1, <2>2, EntryFields
  <2> QED BY <1>1, <1>2, <2>1, <2>2, <2>3
<1>4. ASSUME NEW n \in from PROVE \E m \in fit : org[m] = n
  <2>1. /\ n \in DOMAIN o.rules /\ s \in Range(o.rules[n].services)
        /\ key(n) # << >> /\ scope \in Range(Scopes(o.rules[n]))
    BY <1>2
  <2>2. PICK m \in DOMAIN acc : org[m] = n /\ acc[m] = Entry(s, scope, key(n))
    BY <1>1, <2>1
  <2>3. acc[m].service = s /\ acc[m].tokens # << >> /\ acc[m].scope = scope
    BY <2>1, <2>2, EntryFields
  <2> QED BY <1>2, <2>2, <2>3
<1>5. Ordered(fit, org, from)
  <2>1. \A m \in fit : org[m] \in Nat /\ org[m] \in from
    BY <1>2, <1>3, SeqFacts
  <2>2. fit \subseteq Nat /\ \A m, k \in fit : m <= k => org[m] <= org[k]
    BY <1>1, <1>3
  <2> QED BY <1>4, <2>1, <2>2 DEF Ordered
<1>6. /\ fit # {} <=> from # {}
      /\ fit # {} => Min(fit) \in fit /\ org[Min(fit)] = Min(from)
  BY <1>5, LeastOfImage
<1>7. fit # {} => acc[Min(fit)].tokens = key(Min(from))
  BY <1>3, <1>6
<1> QED BY <1>6, <1>7 DEF key, fit, from

LEMMA BearerOf ==
  ASSUME NEW o \in Objects, o.kind = "WasmPlugin", o.name = Whole("gpustack-ai-proxy"),
         NEW acc, NEW org, TokenRows(acc, org, o), NEW s, s # Blank, NEW ing, ing # None
  PROVE  LET key(n) == ProviderTokens(o, o.rules[n].active)
             counts == {n \in DOMAIN o.rules : InSeq(s, o.rules[n].services) /\ key(n) # << >>}
             scoped == {n \in counts : InSeq(ing, o.rules[n].ingress)}
             global == {n \in counts : o.rules[n].ingress = << >>}
         IN provider_bearer(acc, s, ing) = IF scoped # {} THEN Head(key(Min(scoped)))
                                           ELSE IF global # {} THEN Head(key(Min(global))) ELSE None
<1> DEFINE key(n) == ProviderTokens(o, o.rules[n].active)
           counts == {n \in DOMAIN o.rules : InSeq(s, o.rules[n].services) /\ key(n) # << >>}
           scoped == {n \in counts : InSeq(ing, o.rules[n].ingress)}
           global == {n \in counts : o.rules[n].ingress = << >>}
           fit(scope) == Fit(acc, s, scope)
           from(scope) == FittingRules(o, s, scope)
<1>2. /\ IsSeq(o.rules)
      /\ \A n \in DOMAIN o.rules : \A k \in DOMAIN o.rules[n].ingress : o.rules[n].ingress[k] # None
  BY ObjectShape
<1>3. \A scope : /\ fit(scope) # {} <=> from(scope) # {}
                 /\ fit(scope) # {} => acc[Min(fit(scope))].tokens = key(Min(from(scope)))
  <2> TAKE scope
  <2> QED BY <1>2, FirstToken
<1>4. ASSUME NEW n \in DOMAIN o.rules
      PROVE  /\ ing \in Range(Scopes(o.rules[n])) <=> InSeq(ing, o.rules[n].ingress)
             /\ None \in Range(Scopes(o.rules[n])) <=> o.rules[n].ingress = << >>
  <2>1. CASE o.rules[n].ingress = << >>
    <3>1. Scopes(o.rules[n]) = <<None>>
      BY <2>1 DEF Scopes
    <3>2. Range(<<None>>) = {None}
      BY DEF Range
    <3>3. DOMAIN o.rules[n].ingress = {}
      BY <2>1, EmptyIsSeq
    <3> QED BY <2>1, <3>1, <3>2, <3>3 DEF InSeq
  <2>2. CASE o.rules[n].ingress # << >>
    <3>1. Scopes(o.rules[n]) = o.rules[n].ingress
      BY <2>2 DEF Scopes
    <3> QED BY <1>2, <2>2, <3>1 DEF InSeq, Range
  <2> QED BY <2>1, <2>2
<1>5. \A n \in DOMAIN o.rules : s \in Range(o.rules[n].services) <=> InSeq(s, o.rules[n].services)
  BY DEF InSeq, Range
<1>6. from(ing) = scoped /\ from(None) = global
  BY <1>4, <1>5 DEF FittingRules
<1>7. provider_bearer(acc, s, ing) =
        IF fit(ing) # {} THEN Head(acc[Min(fit(ing))].tokens)
        ELSE IF fit(None) # {} THEN Head(acc[Min(fit(None))].tokens) ELSE None
  BY DEF provider_bearer, Where, Fit
<1> HIDE DEF fit, from, scoped, global, counts
<1>8. provider_bearer(acc, s, ing) = IF scoped # {} THEN Head(key(Min(scoped)))
                                     ELSE IF global # {} THEN Head(key(Min(global))) ELSE None
  BY <1>3, <1>6, <1>7
<1> QED BY <1>8 DEF scoped, global, counts

LEMMA NoEntries == ASSUME NEW s, IsSeq(s) PROVE DOMAIN s = {} <=> s = << >>
<1>1. ASSUME DOMAIN s = {} PROVE s = << >>
  <2>1. s \in Seq(Range(s)) /\ Len(s) \in Nat /\ DOMAIN s = 1..Len(s)
    BY SeqFacts DEF IsSeq
  <2>2. Len(s) = 0
    BY <1>1, <2>1
  <2> QED BY <2>1, <2>2
<1> QED BY <1>1, EmptyIsSeq

LEMMA ServicesNamed ==
  ASSUME SnapshotInv, objects # << >>, NEW s \in Services
  PROVE  s # Blank
<1>1. data = build_config_data(objects) /\ IsSeq(objects)
  BY DEF SnapshotInv
<1>2. PICK i \in DOMAIN rs : s \in {service_name(rs[i].dests[n].service) : n \in DOMAIN rs[i].dests}
  BY DEF Services
<1>3. PICK n \in DOMAIN rs[i].dests : s = service_name(rs[i].dests[n].service)
  BY <1>2
<1>4. PICK k \in DOMAIN objects : Routed(objects, k) /\ MadeFrom(objects, rs[i], objects[k])
  BY <1>1, BuiltRoutes DEF rs
<1>5. rs[i].dests = objects[k].dests /\ Translatable(objects[k])
  BY <1>4 DEF MadeFrom, Routed
<1>6. service_ref_ok(rs[i].dests[n].service)
  BY <1>5 DEF Translatable
<1> QED BY <1>3, <1>6 DEF service_ref_ok, service_name, Blank

LEMMA BearerFollows ==
  ASSUME SnapshotInv, SectionsInv
  PROVE  BearerFollowsRules
<1> SUFFICES ASSUME NEW s \in Services, NEW ing \in Ingresses
             PROVE  LET bearer == provider_bearer(sanitize(data).tokens, s, ing)
                        rules == IF Plugin("gpustack-ai-proxy") = << >> THEN << >>
                                 ELSE Last(Plugin("gpustack-ai-proxy")).rules
                        key(n) == ProviderTokens(Last(Plugin("gpustack-ai-proxy")), rules[n].active)
                        counts == {n \in DOMAIN rules : InSeq(s, rules[n].services) /\ key(n) # << >>}
                        scoped == {n \in counts : InSeq(ing, rules[n].ingress)}
                        global == {n \in counts : rules[n].ingress = << >>}
                    IN bearer = IF scoped # {} THEN Head(key(Min(scoped)))
                                ELSE IF global # {} THEN Head(key(Min(global))) ELSE None
  BY DEF BearerFollowsRules
<1> DEFINE P == Plugin("gpustack-ai-proxy")
           M == [n \in DOMAIN P |-> wasmplugin_ai_proxy(P[n])]
           G == {m \in DOMAIN data.tokens : GoodToken(data.tokens[m])}
           acc == sanitize(data).tokens
<1>1. PICK k \in DOMAIN objects : ing = objects[k].name
  BY DEF Ingresses
<1>2. objects # << >> /\ ing # None
  <2>1. ing # None
    BY <1>1, ObjectShape DEF SectionsInv, Listed
  <2> QED BY <1>1, <2>1, EmptyIsSeq
<1>3. s # Blank
  BY <1>2, ServicesNamed
<1>4. acc = Filter(data.tokens, GoodToken)
  <2>1. "routes" \in DOMAIN data /\ "registries" \in DOMAIN data /\ "tokens" \in DOMAIN data
    BY DEF SnapshotInv, IsConfig, Empty, build_config_data
  <2> QED BY <2>1 DEF sanitize
<1>5. data.tokens = IF M = << >> THEN << >> ELSE Last(M)
  BY DEF SectionsInv, build_config_data, LastOr, Map, Plugin
<1>6. /\ IsSeq(P)
      /\ \A n \in DOMAIN P : /\ P[n] \in Objects /\ P[n].kind = "WasmPlugin"
                             /\ P[n].name = Whole("gpustack-ai-proxy")
  BY ProxyPlugins DEF SectionsInv, Plugin
<1> HIDE DEF P
<1>7. M = [n \in DOMAIN P |-> M[n]] /\ \A n \in DOMAIN P : M[n] = wasmplugin_ai_proxy(P[n])
  OBVIOUS
<1> HIDE DEF M, acc
<1>8. IsSeq(M) /\ DOMAIN M = DOMAIN P /\ Len(M) = Len(P)
  BY <1>6, <1>7, MappedSeq
<1>9. M = << >> <=> P = << >>
  BY <1>6, <1>8, NoEntries
<1>10. CASE P = << >>
  <2>1. data.tokens = << >>
    BY <1>5, <1>9, <1>10
  <2>2. DOMAIN data.tokens = {}
    BY <2>1, EmptyIsSeq
  <2>3. acc = Kept(data.tokens, {})
    BY <1>4, <2>2 DEF Filter
  <2>4. DOMAIN acc = {}
    <3>1. IsFiniteSet({}) /\ Cardinality({}) = 0
      BY FS_EmptySet
    <3>2. DOMAIN acc = 1..0
      BY <2>3, <3>1 DEF Kept
    <3> QED BY <3>2
  <2>5. provider_bearer(acc, s, ing) = None
    BY <2>4 DEF provider_bearer, Where
  <2>6. DOMAIN << >> = {}
    BY EmptyIsSeq
  <2> QED BY <1>10, <2>5, <2>6 DEF P, acc
<1>11. CASE P # << >>
  <2>1. DOMAIN P # {} /\ DOMAIN P = 1..Len(P) /\ Len(P) \in Nat
    BY <1>6, <1>11, NoEntries, SeqFacts
  <2>2. Len(P) \in DOMAIN P
    BY <2>1
  <2> DEFINE o == P[Len(P)]
  <2>3. o \in Objects /\ o.kind = "WasmPlugin" /\ o.name = Whole("gpustack-ai-proxy")
    BY <1>6, <2>2
  <2>4. Last(P) = o
    BY DEF Last
  <2>5. data.tokens = wasmplugin_ai_proxy(o)
    BY <1>5, <1>7, <1>8, <1>9, <1>11, <2>2 DEF Last
  <2> HIDE DEF o
  <2>6. PICK org : TokenRows(acc, org, o)
    <3>1. \E org : TokenRows(Filter(wasmplugin_ai_proxy(o), GoodToken), org, o)
      BY <2>3, TokensFollow
    <3>2. acc = Filter(wasmplugin_ai_proxy(o), GoodToken)
      BY <1>4, <2>5
    <3> QED BY <3>1, <3>2
  <2> DEFINE key(n) == ProviderTokens(o, o.rules[n].active)
             counts == {n \in DOMAIN o.rules : InSeq(s, o.rules[n].services) /\ key(n) # << >>}
             scoped == {n \in counts : InSeq(ing, o.rules[n].ingress)}
             global == {n \in counts : o.rules[n].ingress = << >>}
  <2>7. provider_bearer(acc, s, ing) = IF scoped # {} THEN Head(key(Min(scoped)))
                                       ELSE IF global # {} THEN Head(key(Min(global))) ELSE None
    BY <1>2, <1>3, <2>3, <2>6, BearerOf
  <2> QED BY <1>11, <2>4, <2>7 DEF P, acc
<1> QED BY <1>10, <1>11

-----------------------------------------------------------------------------
(* ------------------------------ model mapping -------------------------- *)

LEMMA MapperRulesFacts ==
  ASSUME NEW objs, Listed(objs)
  PROVE  /\ IsSeq(MapperRules(objs))
         /\ \A n \in DOMAIN MapperRules(objs) : IsSeq(MapperRules(objs)[n].services)
<1> DEFINE O == Of(objs, "WasmPlugin")
           ss == [n \in DOMAIN O |-> wasmplugin_model_mapping(O[n])]
           R == MapperRules(objs)
<1>1. R = FlattenSeq(ss)
  BY DEF MapperRules, Flatten, Map
<1>2. IsSeq(O) /\ \A n \in DOMAIN O : O[n] \in Objects /\ O[n].kind = "WasmPlugin"
  BY OfKind DEF Listed
<1> HIDE DEF O, R
<1>3. ASSUME NEW o \in Objects, o.kind = "WasmPlugin"
      PROVE  /\ IsSeq(wasmplugin_model_mapping(o))
             /\ \A x \in Range(wasmplugin_model_mapping(o)) : IsSeq(x.services)
  <2> DEFINE J == {n \in DOMAIN o.rules : o.rules[n].model \notin {None, ""} /\ o.rules[n].services # << >>}
             w == wasmplugin_model_mapping(o)
  <2>1. w = IF o.name # Whole("gpustack-model-mapper") THEN << >> ELSE Kept(o.rules, J)
    BY DEF wasmplugin_model_mapping, Filter
  <2>2. IsSeq(o.rules) /\ \A n \in DOMAIN o.rules : IsSeq(o.rules[n].services)
    BY <1>3, ObjectShape
  <2>3. J \in SUBSET DOMAIN o.rules
    OBVIOUS
  <2> HIDE DEF J, w
  <2>4. IsSeq(w) /\ \A n \in DOMAIN w : IsSeq(w[n].services)
    <3>1. CASE w = << >>
      BY <3>1, EmptyIsSeq
    <3>2. CASE w = Kept(o.rules, J)
      <4>1. IsSeq(w) /\ \A n \in DOMAIN w : \E i \in DOMAIN o.rules : w[n] = o.rules[i]
        BY <2>2, <2>3, <3>2, KeptOf
      <4> QED BY <2>2, <4>1
    <3> QED BY <2>1, <3>1, <3>2
  <2> QED BY <2>4 DEF Range, w
<1>4. ss = [n \in DOMAIN O |-> ss[n]] /\ \A n \in DOMAIN O : ss[n] = wasmplugin_model_mapping(O[n])
  OBVIOUS
<1> HIDE DEF ss
<1>5. IsSeq(ss) /\ DOMAIN ss = DOMAIN O
  BY <1>2, <1>4, MappedSeq
<1>6. \A n \in DOMAIN ss : IsSeq(ss[n]) /\ \A x \in Range(ss[n]) : IsSeq(x.services)
  BY <1>2, <1>3, <1>4, <1>5
<1>7. IsSeq(R) /\ \A x \in Range(R) : \E n \in DOMAIN ss : x \in Range(ss[n])
  BY <1>1, <1>5, <1>6, FlatRange
<1>8. \A n \in DOMAIN R : R[n] \in Range(R)
  BY DEF Range
<1>9. \A n \in DOMAIN R : IsSeq(R[n].services)
  BY <1>6, <1>7, <1>8
<1> QED BY <1>7, <1>9 DEF R

\* Pair p comes from rule org[p], a rule of the ingress.
PairRows(pairs, org, ingress, rules) ==
  /\ IsSeq(pairs)
  /\ \A p \in DOMAIN pairs :
       /\ org[p] \in DOMAIN rules /\ ingress \in rules[org[p]].ingress
       /\ pairs[p][1] \in Range(rules[org[p]].services) /\ pairs[p][2] = rules[org[p]].model
  /\ \A p, q \in DOMAIN pairs : p <= q => org[p] <= org[q]
  /\ \A n \in DOMAIN rules : ingress \in rules[n].ingress =>
       \A s \in Range(rules[n].services) : \E p \in DOMAIN pairs : org[p] = n /\ pairs[p][1] = s

LEMMA PairsFollow ==
  ASSUME NEW rules, IsSeq(rules), \A n \in DOMAIN rules : IsSeq(rules[n].services), NEW ingress
  PROVE  \E org : PairRows(PairsOf(ingress, rules), org, ingress, rules)
<1> DEFINE K == {n \in DOMAIN rules : ingress \in rules[n].ingress}
           R == Kept(rules, K)
           ss == [n \in DOMAIN R |-> MappingPairs(R[n])]
           F == FlattenSeq(ss)
<1>1. PairsOf(ingress, rules) = F
  BY DEF PairsOf, RulesOf, Flatten, Map
<1>2. K \in SUBSET DOMAIN rules /\ \A n \in DOMAIN rules : n \in K <=> ingress \in rules[n].ingress
  OBVIOUS
<1> HIDE DEF K
<1>3. /\ IsSeq(R) /\ DOMAIN R \subseteq Nat
      /\ \A n \in DOMAIN R : Position(K, n) \in K /\ R[n] = rules[Position(K, n)]
      /\ \A n, m \in DOMAIN R : n < m => Position(K, n) < Position(K, m)
      /\ \A i \in K : \E n \in DOMAIN R : Position(K, n) = i /\ R[n] = rules[i]
  BY <1>2, KeptOf
<1> HIDE DEF R
<1>4. ASSUME NEW r, IsSeq(r.services)
      PROVE  /\ IsSeq(MappingPairs(r))
             /\ \A x \in Range(MappingPairs(r)) : x[1] \in Range(r.services) /\ x[2] = r.model
             /\ \A s \in Range(r.services) : \E x \in Range(MappingPairs(r)) : x[1] = s
  <2> DEFINE t == MappingPairs(r)
  <2>1. t = [k \in DOMAIN r.services |-> <<r.services[k], r.model>>]
    BY DEF MappingPairs, Map
  <2> HIDE DEF t
  <2>2. t = [k \in DOMAIN r.services |-> t[k]]
        /\ \A k \in DOMAIN r.services : t[k][1] = r.services[k] /\ t[k][2] = r.model
    BY <2>1
  <2>3. IsSeq(t) /\ DOMAIN t = DOMAIN r.services
    BY <1>4, <2>2, MappedSeq
  <2>4. \A x \in Range(t) : x[1] \in Range(r.services) /\ x[2] = r.model
    BY <2>2, <2>3 DEF Range
  <2>5. \A s \in Range(r.services) : \E x \in Range(t) : x[1] = s
    BY <2>2, <2>3 DEF Range
  <2> QED BY <2>3, <2>4, <2>5 DEF t
<1>5. ss = [n \in DOMAIN R |-> ss[n]] /\ \A n \in DOMAIN R : ss[n] = MappingPairs(R[n])
  OBVIOUS
<1> HIDE DEF ss
<1>6. IsSeq(ss) /\ DOMAIN ss = DOMAIN R
  BY <1>3, <1>5, MappedSeq
<1>7. \A n \in DOMAIN R :
        /\ IsSeq(ss[n])
        /\ \A x \in Range(ss[n]) : x[1] \in Range(R[n].services) /\ x[2] = R[n].model
        /\ \A s \in Range(R[n].services) : \E x \in Range(ss[n]) : x[1] = s
  <2> TAKE n \in DOMAIN R
  <2>1. IsSeq(R[n].services) /\ ss[n] = MappingPairs(R[n])
    BY <1>2, <1>3, <1>5
  <2> QED BY <1>4, <2>1
<1>8. PICK row : Rows(F, row, ss, Len(ss))
  BY <1>6, <1>7, FlatRows
<1>9. DOMAIN ss = 1..Len(ss)
  BY <1>6, SeqFacts
<1> HIDE DEF F
<1>10. /\ IsSeq(F) /\ \A m \in DOMAIN F : row[m] \in DOMAIN R /\ F[m] \in Range(ss[row[m]])
       /\ \A m, k \in DOMAIN F : m <= k => row[m] <= row[k]
       /\ \A n \in DOMAIN R : \A x \in Range(ss[n]) : \E m \in DOMAIN F : row[m] = n /\ F[m] = x
  BY <1>6, <1>8, <1>9 DEF Rows
<1> DEFINE org == [m \in DOMAIN F |-> Position(K, row[m])]
<1>11. \A m \in DOMAIN F : org[m] = Position(K, row[m])
  OBVIOUS
<1> HIDE DEF org
<1>12. ASSUME NEW m \in DOMAIN F
       PROVE  /\ org[m] \in DOMAIN rules /\ ingress \in rules[org[m]].ingress
              /\ F[m][1] \in Range(rules[org[m]].services) /\ F[m][2] = rules[org[m]].model
  <2>1. PICK n \in DOMAIN R : n = row[m] /\ F[m] \in Range(ss[n])
    BY <1>10
  <2>2. PICK i \in K : i = Position(K, n) /\ R[n] = rules[i]
    BY <1>3
  <2>3. org[m] = i /\ F[m][1] \in Range(R[n].services) /\ F[m][2] = R[n].model
    BY <1>7, <1>11, <2>1, <2>2
  <2> QED BY <1>2, <2>2, <2>3
<1>13. \A a, b \in DOMAIN R : a <= b => Position(K, a) <= Position(K, b)
  <2> SUFFICES ASSUME NEW a \in DOMAIN R, NEW b \in DOMAIN R, a <= b
               PROVE  Position(K, a) <= Position(K, b)
    OBVIOUS
  <2>1. PICK x \in Nat, y \in Nat : x = Position(K, a) /\ y = Position(K, b)
    BY <1>2, <1>3, SeqFacts
  <2>2. a \in Nat /\ b \in Nat /\ (a < b => x < y) /\ (a = b => x = y)
    BY <1>3, <2>1
  <2> QED BY <2>1, <2>2
<1>14. \A m, k \in DOMAIN F : m <= k => org[m] <= org[k]
  BY <1>10, <1>11, <1>13
<1>15. ASSUME NEW n \in DOMAIN rules, ingress \in rules[n].ingress, NEW s \in Range(rules[n].services)
       PROVE  \E m \in DOMAIN F : org[m] = n /\ F[m][1] = s
  <2>1. PICK i \in DOMAIN R : Position(K, i) = n /\ R[i] = rules[n]
    BY <1>2, <1>3, <1>15
  <2>2. PICK x \in Range(ss[i]) : x[1] = s
    BY <1>7, <2>1
  <2>3. PICK m \in DOMAIN F : row[m] = i /\ F[m] = x
    BY <1>10
  <2> QED BY <1>11, <2>1, <2>2, <2>3
<1>16. PairRows(F, org, ingress, rules)
  BY <1>10, <1>12, <1>14, <1>15 DEF PairRows
<1> QED BY <1>1, <1>16

\* The mapping keeps the first pair of a service, which is of the first rule for it.
LEMMA LookupFollows ==
  ASSUME NEW rules, IsSeq(rules), NEW ingress, NEW pairs, NEW org, PairRows(pairs, org, ingress, rules),
         NEW s, NEW mine, mine = {n \in DOMAIN rules : ingress \in rules[n].ingress
                                                       /\ s \in Range(rules[n].services)}
  PROVE  lookup(Kept(pairs, FirstOf(pairs)), s) = IF mine = {} THEN None ELSE rules[Min(mine)].model
<1> DEFINE T == {p \in DOMAIN pairs : pairs[p][1] = s}
           J == FirstOf(pairs)
           M == Kept(pairs, J)
           at == {n \in DOMAIN M : M[n][1] = s}
<1>1. /\ IsSeq(pairs)
      /\ \A p \in DOMAIN pairs :
           /\ org[p] \in DOMAIN rules /\ ingress \in rules[org[p]].ingress
           /\ pairs[p][1] \in Range(rules[org[p]].services) /\ pairs[p][2] = rules[org[p]].model
      /\ \A p, q \in DOMAIN pairs : p <= q => org[p] <= org[q]
      /\ \A n \in DOMAIN rules : ingress \in rules[n].ingress =>
           \A x \in Range(rules[n].services) : \E p \in DOMAIN pairs : org[p] = n /\ pairs[p][1] = x
  BY DEF PairRows
<1>2. DOMAIN pairs = 1..Len(pairs) /\ Len(pairs) \in Nat /\ \A p \in DOMAIN pairs : p \in Nat
  BY <1>1, SeqFacts
<1>3. lookup(M, s) = IF at = {} THEN None ELSE M[Min(at)][2]
  BY DEF lookup, Where
<1>4. /\ \A p : p \in T <=> p \in DOMAIN pairs /\ pairs[p][1] = s
      /\ \A n : n \in at <=> n \in DOMAIN M /\ M[n][1] = s
      /\ \A n : n \in mine <=> /\ n \in DOMAIN rules /\ ingress \in rules[n].ingress
                               /\ s \in Range(rules[n].services)
  OBVIOUS
<1>5. J \in SUBSET DOMAIN pairs
      /\ \A p \in DOMAIN pairs : p \in J <=> \A k \in 1..(p - 1) : pairs[k][1] # pairs[p][1]
  BY DEF FirstOf
<1> HIDE DEF T, J, at
<1>6. /\ IsSeq(M) /\ DOMAIN M \subseteq Nat
      /\ \A n \in DOMAIN M : Position(J, n) \in J /\ M[n] = pairs[Position(J, n)]
      /\ \A i \in J : \E n \in DOMAIN M : Position(J, n) = i /\ M[n] = pairs[i]
  BY <1>1, <1>5, KeptOf
<1> HIDE DEF M
<1>7. Ordered(T, org, mine)
  <2>1. \A m \in T : m \in Nat /\ org[m] \in Nat /\ org[m] \in mine
    BY <1>1, <1>2, <1>4, SeqFacts
  <2>2. \A c \in mine : \E m \in T : org[m] = c
    BY <1>1, <1>4
  <2>3. \A m, k \in T : m <= k => org[m] <= org[k]
    BY <1>1, <1>4
  <2> QED BY <2>1, <2>2, <2>3 DEF Ordered
<1>8. /\ T # {} <=> mine # {}
      /\ T # {} => Min(T) \in T /\ org[Min(T)] = Min(mine)
  BY <1>7, LeastOfImage
<1>9. T # {} => \A n \in T : Min(T) <= n
  <2>1. T \subseteq Nat
    BY <1>2, <1>4
  <2> QED BY <2>1, MinFacts
<1>10. CASE T = {}
  <2>1. at = {}
    BY <1>4, <1>5, <1>6, <1>10
  <2> QED BY <1>3, <1>8, <1>10, <2>1 DEF M, J
<1>11. CASE T # {}
  <2>1. PICK p \in T : p = Min(T)
    BY <1>8, <1>11
  <2>2. p \in DOMAIN pairs /\ pairs[p][1] = s /\ p \in Nat
    BY <1>2, <1>4
  <2>3. p \in J
    <3>1. ASSUME NEW k \in 1..(p - 1), pairs[k][1] = s PROVE FALSE
      <4>1. k \in Nat /\ k < p /\ k \in DOMAIN pairs
        BY <1>2, <2>2
      <4>2. k \in T
        BY <1>4, <3>1, <4>1
      <4>3. p <= k
        BY <1>9, <1>11, <2>1, <4>2
      <4> QED BY <2>2, <4>1, <4>3
    <3> QED BY <1>5, <2>2, <3>1
  <2>4. PICK n \in DOMAIN M : Position(J, n) = p /\ M[n] = pairs[p]
    BY <1>6, <2>3
  <2>5. at # {} /\ at \subseteq Nat
    BY <1>4, <1>6, <2>2, <2>4
  <2>6. Min(at) \in at
    BY <2>5, MinFacts
  <2>7. ASSUME NEW m \in at PROVE M[m] = pairs[p]
    <3>1. PICK q \in J : M[m] = pairs[q] /\ pairs[q][1] = s
      BY <1>4, <1>6
    <3>2. q \in DOMAIN pairs /\ q \in Nat /\ q \in T
      BY <1>2, <1>4, <1>5, <3>1
    <3>3. p <= q
      BY <1>9, <2>1, <3>2
    <3>4. ~(p < q)
      <4>1. p \in 1..(q - 1) => pairs[p][1] # pairs[q][1]
        BY <1>5, <3>2
      <4>2. p \in 1..Len(pairs)
        BY <1>2, <2>2
      <4>3. p < q => p \in 1..(q - 1)
        BY <2>2, <3>2, <4>2
      <4> QED BY <2>2, <3>1, <4>1, <4>3
    <3>5. p = q
      BY <2>2, <3>2, <3>3, <3>4
    <3> QED BY <3>1, <3>5
  <2>8. M[Min(at)][2] = rules[org[p]].model
    BY <1>1, <2>2, <2>6, <2>7
  <2>9. org[p] = Min(mine) /\ mine # {}
    BY <1>8, <1>11, <2>1
  <2> QED BY <1>3, <2>5, <2>8, <2>9 DEF M, J
<1> QED BY <1>10, <1>11

LEMMA MappingFollows ==
  ASSUME SnapshotInv, SectionsInv
  PROVE  MappingFollowsRules
<1> SUFFICES ASSUME objects # << >>, NEW i \in DOMAIN rs, NEW s \in Services
             PROVE  LET rules == Flatten(Of(objects, "WasmPlugin"), wasmplugin_model_mapping)
                        mine == Where(rules, LAMBDA r : rs[i].ingress \in r.ingress /\ InSeq(s, r.services))
                    IN lookup(rs[i].mapping, s) = IF mine = {} THEN None ELSE rules[Min(mine)].model
  BY DEF MappingFollowsRules
<1> DEFINE rules == MapperRules(objects)
           ing == rs[i].ingress
           mine == {n \in DOMAIN rules : ing \in rules[n].ingress /\ s \in Range(rules[n].services)}
           pairs == PairsOf(ing, rules)
<1>1. data = build_config_data(objects) /\ IsSeq(objects)
  BY DEF SnapshotInv
<1>2. PICK k \in DOMAIN objects : MadeFrom(objects, rs[i], objects[k])
  BY <1>1, BuiltRoutes DEF rs
<1>3. rs[i].mapping = Kept(pairs, FirstOf(pairs))
  BY <1>2 DEF MadeFrom, MappingOf
<1>4. IsSeq(rules) /\ \A n \in DOMAIN rules : IsSeq(rules[n].services)
  BY MapperRulesFacts DEF SectionsInv
<1> HIDE DEF rules, ing
<1>5. PICK org : PairRows(pairs, org, ing, rules)
  BY <1>4, PairsFollow
<1> HIDE DEF pairs
<1>6. lookup(rs[i].mapping, s) = IF mine = {} THEN None ELSE rules[Min(mine)].model
  BY <1>3, <1>4, <1>5, LookupFollows
<1>7. Where(rules, LAMBDA r : ing \in r.ingress /\ InSeq(s, r.services)) = mine
  BY DEF Where, InSeq, Range
<1> HIDE DEF mine
<1> QED BY <1>6, <1>7 DEF rules, MapperRules, ing

\* However many plugins and rules overlap, a route gets the bearer and the model
\* of the first rule that is for its service and its ingress: no token scoped to
\* another route, no model of another ingress (provider_bearer, merge_model_mapping).
THEOREM PluginRulesFollowed == Spec => []PluginRulesAreFollowed
<1>1. SnapshotInv /\ SectionsInv => PluginRulesAreFollowed
  BY BearerFollows, MappingFollows DEF PluginRulesAreFollowed
<1> QED BY <1>1, SnapshotInvariant, SectionsInvariant, PTL
=============================================================================
