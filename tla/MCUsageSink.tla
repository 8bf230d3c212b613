---------------------------- MODULE MCUsageSink ----------------------------
(***************************************************************************)
(* A small instance of UsageSink: more rows than the channel holds.        *)
(***************************************************************************)
EXTENDS UsageSink
=============================================================================
