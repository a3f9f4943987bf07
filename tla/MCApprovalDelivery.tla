------------------------- MODULE MCApprovalDelivery -------------------------
(* ApprovalDelivery for TLC. *)
EXTENDS ApprovalDelivery

\* GitHub and the database give the client no final refusal: what it gives up, it
\* gives up by its own checks.
NoRefusal ==
    \A a \in Attempt : pc[a] # "refused" /\ pc'[a] = "refused" =>
        CheckBase(a) \/ ReadRef(a) \/ Verify(a) \/ Compare(a) \/ Reconcile(a)
=============================================================================
