----------------------------- MODULE MCTraffic -----------------------------
(***************************************************************************)
(* The token buckets, the weighted round robin and the relay of a response *)
(* in one run. They share no variable, so a behaviour moves one of them,   *)
(* chosen at the start, and leaves the others at their first state: what   *)
(* is reached of each is what it reaches alone.                            *)
(***************************************************************************)
EXTENDS MCRateLimit, MCSwrr, MCRelay

VARIABLE stage

TrafficInit ==
  /\ stage \in {"limit", "select", "relay"}
  /\ Init /\ SwrrInit /\ RelayInit
  /\ stage # "select" => live = CHOOSE t \in Tables : TRUE
  /\ stage # "relay" => body = (CHOOSE b \in Bodies : TRUE) /\ ~metered

TrafficNext ==
  /\ UNCHANGED stage
  /\ \/ stage = "limit" /\ Next /\ UNCHANGED <<swrrVars, relayVars>>
     \/ stage = "select" /\ SwrrNext /\ UNCHANGED <<vars, relayVars>>
     \/ stage = "relay" /\ RelayNext /\ UNCHANGED <<vars, swrrVars>>

TrafficSpec == TrafficInit /\ [][TrafficNext]_<<stage, vars, swrrVars, relayVars>>
=============================================================================
