--------------------------- MODULE MCQuotaEngine ---------------------------
(***************************************************************************)
(* Small instances of QuotaEngine: a policy file that is reloaded between  *)
(* two window lengths, and a fixed policy with one infinite window.        *)
(***************************************************************************)
EXTENDS QuotaEngine, TLC

CONSTANTS r1, r2, r3

MCRequests == {r1, r2, r3}
MCSymmetry == Permutations(MCRequests)

ShortWindow == [window |-> 2, soft |-> {}, hard |-> {4}]
LongWindow == [window |-> 3, soft |-> {}, hard |-> {}]
NoWindow == [window |-> 0, soft |-> {}, hard |-> {5}]

Reloaded == {ShortWindow, LongWindow}
OneInfinite == {NoWindow}

\* The fixed policy is an instance of the hypotheses of the exactness theorems.
ASSUME ExactInstance == Specs = OneInfinite => FixedBudget /\ OneSpec

=============================================================================
