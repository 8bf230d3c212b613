-------------------------------- MODULE Swrr --------------------------------
(***************************************************************************)
(* Smooth weighted round-robin over shared state: swrr::order              *)
(* (hygress-core/src/swrr.rs), its caller order_route                      *)
(* (hygress-gateway/src/pipeline/swrr_select.rs) and the hot reload        *)
(* SharedConfig::store (hygress-core/src/config.rs), which prunes the      *)
(* group states before it swaps the snapshot in.  Requests go on using the *)
(* snapshot they loaded.  The 64-bit digest of a group's service ids is    *)
(* modelled as injective: the set of the ids itself.                       *)
(***************************************************************************)
EXTENDS Integers, Sequences, FiniteSets, Functions, FiniteSetsExt

CONSTANTS
  Requests,   \* concurrent requests
  Tables,     \* snapshots the control plane may publish: functions from
              \* route ids to [key, candidates], a candidate being [id, weight]
  NoTable

VARIABLES
  live,     \* the snapshot in the ArcSwap
  pruned,   \* the snapshot a running store is about to swap in
  states,   \* swrr_states: group key -> (service id -> current_weight)
  held,     \* the snapshot each request loaded
  hist      \* ghost: selections of each steady group since it appeared, up to a cycle

swrrVars == <<live, pruned, states, held, hist>>

Ids(cs) == {cs[i].id : i \in DOMAIN cs}
Weights(cs) == [i \in DOMAIN cs |-> cs[i].weight]
Total(cs) == SumFunction(Weights(cs))

\* The weight of an id, all its entries together.
Share(cs, d) == SumFunctionOnSet(Weights(cs), {i \in DOMAIN cs : cs[i].id = d})

\* group_key: neither the weights nor the kind of the route are part of it.
group_key(route) == <<route.key, Ids(route.candidates)>>
valid_group_keys(table) == {group_key(table[r]) : r \in DOMAIN table}

Routes == UNION {Range(t) : t \in Tables}
Weighted == {r \in Routes : Len(r.candidates) > 1}

\* The weights of its group are the same in every snapshot.
Steady(r) == \A x \in Weighted : group_key(x) = group_key(r) => x = r

\* sanitize accepts only weighted routes whose weights sum to 100 and gives the
\* others 100 each, so the `total <= 0` return of swrr::order is not reached.
ASSUME SanitizedTables ==
  /\ IsFiniteSet(Tables) /\ \A t \in Tables : IsFiniteSet(DOMAIN t)
  /\ NoTable \notin Tables
  /\ \A r \in Routes : /\ r.candidates \in Seq(Range(r.candidates))
                       /\ \A c \in Range(r.candidates) : c.weight \in Nat
                       /\ Len(r.candidates) > 0 /\ Total(r.candidates) > 0

(* --------------------------- one SWRR round ---------------------------- *)

Zeros(cs) == [d \in Ids(cs) |-> 0]

\* Step 1: every entry advances by its weight (twice for an id listed twice).
Advanced(cs, cur) == [d \in DOMAIN cur |-> cur[d] + Share(cs, d)]

\* Steps 2-3: the largest current weight, the first one on ties.
Picked(cs, cur) ==
  CHOOSE p \in DOMAIN cs :
    \A i \in DOMAIN cs : \/ cur[cs[i].id] < cur[cs[p].id]
                         \/ cur[cs[i].id] = cur[cs[p].id] /\ p <= i

\* Step 4: the picked entry pays the total (mutant: it pays one).
Charged_Unpaid(cur, d, total) == [cur EXCEPT ![d] = @ - 1]
Charged(cur, d, total) == [cur EXCEPT ![d] = @ - total]

\* What the group's entry holds when the round starts (or_default).
Entry(g, cs) == IF g \in DOMAIN states THEN states[g] ELSE Zeros(cs)

(* ------------------------------- actions ------------------------------- *)

SwrrInit ==
  /\ live \in Tables
  /\ pruned = NoTable
  /\ states = << >>
  /\ held = [q \in Requests |-> NoTable]
  /\ hist = << >>

Load(q) ==
  /\ held[q] = NoTable
  /\ held' = [held EXCEPT ![q] = live]
  /\ UNCHANGED <<live, pruned, states, hist>>

Finish(q) ==
  /\ held[q] # NoTable
  /\ held' = [held EXCEPT ![q] = NoTable]
  /\ UNCHANGED <<live, pruned, states, hist>>

\* f with the value v for g, whether or not it had one.
With(f, g, v) == [x \in {g} \cup DOMAIN f |-> IF x = g THEN v ELSE f[x]]

\* Ghost: a group's selections, restarted after each full cycle.
Since(g, cs) ==
  IF g \in DOMAIN hist /\ hist[g].rounds < Total(cs)
  THEN hist[g] ELSE [rounds |-> 0, picks |-> Zeros(cs)]

\* One round under the group's shard lock; the group is created on first use. A
\* single destination is returned without touching the shared state.
OrderRoute(q, r) ==
  /\ held[q] # NoTable /\ r \in DOMAIN held[q]
  /\ Len(held[q][r].candidates) > 1
  /\ LET cs == held[q][r].candidates
         g == group_key(held[q][r])
         cur == Advanced(cs, Entry(g, cs))
         c == cs[Picked(cs, cur)]
         h == Since(g, cs)
     IN /\ states' = With(states, g, Charged(cur, c.id, Total(cs)))
        /\ hist' = IF ~Steady(held[q][r]) THEN hist
                   ELSE With(hist, g, [rounds |-> h.rounds + 1,
                                       picks |-> [h.picks EXCEPT ![c.id] = @ + 1]])
  /\ UNCHANGED <<live, pruned, held>>

\* Mutant: every store forgets all groups.
Retained_None(groups, table) == {}

\* The groups a store keeps.
Retained(groups, table) == groups \cap valid_group_keys(table)

StorePrune(t) ==
  /\ pruned = NoTable
  /\ pruned' = t
  /\ states' = Restrict(states, Retained(DOMAIN states, t))
  /\ hist' = Restrict(hist, DOMAIN hist \cap valid_group_keys(t))
  /\ UNCHANGED <<live, held>>

StoreSwap ==
  /\ pruned # NoTable
  /\ live' = pruned
  /\ pruned' = NoTable
  /\ UNCHANGED <<states, held, hist>>

SwrrNext ==
  \/ \E q \in Requests :
       \/ Load(q) \/ Finish(q)
       \/ \E r \in UNION {DOMAIN t : t \in Tables} : OrderRoute(q, r)
  \/ \E t \in Tables : StorePrune(t)
  \/ StoreSwap

SwrrSpec == SwrrInit /\ [][SwrrNext]_swrrVars

(* ------------------------------ properties ----------------------------- *)

GroupTotals(g) == {Total(r.candidates) : r \in {x \in Weighted : group_key(x) = g}}

\* The shape of the state: every group holds one weight for each of its ids.
SwrrTypeOK ==
  /\ live \in Tables
  /\ pruned \in Tables \cup {NoTable}
  /\ held \in [Requests -> Tables \cup {NoTable}]
  /\ \A g \in DOMAIN states :
       g \in {group_key(r) : r \in Weighted} /\ states[g] \in [g[2] -> Int]
  /\ DOMAIN hist = {g \in DOMAIN states : \E r \in Weighted : Steady(r) /\ group_key(r) = g}

\* The current weights of a group (swrr::order steps 1 and 4) sum to zero and
\* stay within the totals that ever applied to it, whatever interleaving of
\* requests on old and new snapshots and whatever reloads of the weights: the
\* i32 of swrr.rs:58 cannot drift to an overflow and no candidate can build up
\* an unbounded credit or debt.
WeightsBounded ==
  \A g \in DOMAIN states :
    LET top == Max(GroupTotals(g)) IN
    /\ SumFunction(states[g]) = 0
    /\ \A d \in g[2] : /\ -top < states[g][d]
                       /\ states[g][d] < (Cardinality(g[2]) - 1) * top + 1

\* While a group's weights stay the same, no candidate is ever a whole selection
\* ahead of its share of the group's selections, at any point of the cycle and
\* over all requests together, the others can make it wait for no more than they
\* may be ahead, and after a full cycle each has received exactly its weight;
\* stores that keep the group do not disturb the sequence (swrr.rs order, shared
\* through order_route; store's retain).
Smooth ==
  \A r \in {x \in Weighted : Steady(x)} :
    LET g == group_key(r)
        cs == r.candidates
        total == Total(cs)
    IN g \in DOMAIN hist => \A d \in Ids(cs) :
         LET owed == hist[g].rounds * Share(cs, d) - hist[g].picks[d] * total
         IN /\ -total < owed /\ owed <= (Cardinality(Ids(cs)) - 1) * (total - 1)
            /\ hist[g].rounds = total => owed = 0
=============================================================================
