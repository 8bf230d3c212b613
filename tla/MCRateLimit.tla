---------------------------- MODULE MCRateLimit ----------------------------
EXTENDS RateLimit

S(r, b) == [rps |-> r, burst |-> b]

\* One spec per key: a token per tick, and two tokens in three ticks; both
\* refill their burst within the idle threshold.
OneSpec == [k \in Keys |-> IF k = "ip" THEN S(3, 2) ELSE S(2, 1)]
OneSpecEach == [k \in Keys |-> {OneSpec[k]}]

ASSUME SteadyInstance == SteadySpecs
=============================================================================
