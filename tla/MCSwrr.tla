------------------------------- MODULE MCSwrr -------------------------------
EXTENDS Swrr, TLC

Cand(id, w) == [id |-> id, weight |-> w]
Route(key, cs) == [key |-> key, candidates |-> cs]

\* Uneven weights and a zero weight, never changed; a single destination.
R1 == Route("k1", <<Cand("z", 0), Cand("a", 3), Cand("b", 2), Cand("c", 1)>>)
R3 == Route("k3", <<Cand("a", 100)>>)

\* The weights of this group change, and a main and a fallback route with the
\* same key and destinations may share it.
W(z, a, b) == Route("k2", <<Cand("z", z), Cand("a", a), Cand("b", b)>>)

\* Groups come and go.
SomeTables == {("r1" :> R1 @@ "r3" :> R3),
               ("r1" :> R1 @@ "r2" :> W(2, 1, 1)),
               ("r2" :> W(1, 2, 1) @@ "r3" :> W(0, 1, 3))}

Symmetric == Permutations(Requests)
=============================================================================
