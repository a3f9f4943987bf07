----------------------------- MODULE ToolCalls ------------------------------
(***************************************************************************)
(* What ToolGateway.call (tools/gateway.py) promises the agent: the calls  *)
(* it makes to a handler are bounded by the retries of the tool and by the *)
(* budget that is left, and the result reports how many were made.         *)
(* ToolGateway shows that the retry loop keeps this promise; AgentGraph    *)
(* builds on it.                                                           *)
(***************************************************************************)
EXTENDS Integers

CONSTANT MaxTries       \* max_retries + 1 of a tool

ASSUME TriesAssumption == MaxTries \in Nat \ {0}

\* A call that is denied or fails validation makes no try.
Results(left) == [ok : {FALSE}, tries : {0}]
                 \cup [ok : BOOLEAN, tries : {n \in 1 .. MaxTries : n <= left}]
=============================================================================
