---------------------------- MODULE MCAgentGraph ----------------------------
(* AgentGraph for TLC: two tools with two contents each. *)
EXTENDS AgentGraph, TLC

CONSTANTS m1, m2, c1, c2
MCSource == [o \in Observation |-> IF o \in {m1, m2} THEN "read_metrics" ELSE "read_source_code"]
Symmetry == Permutations({m1, m2}) \cup Permutations({c1, c2})
=============================================================================
