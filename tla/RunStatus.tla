----------------------------- MODULE RunStatus -----------------------------
(***************************************************************************)
(* The status column of an agent run and the transition table declared     *)
(* beside it (models/enums.py).  "ABSENT" stands for a run whose row has   *)
(* not been inserted yet.                                                  *)
(***************************************************************************)

\* Statuses no run ever leaves.
Terminal == {"INVESTIGATION_COMPLETE", "RESOLVED", "INSUFFICIENT_EVIDENCE",
             "NEEDS_HUMAN_INTERVENTION", "FAILED"}

RowStatus == {"PENDING", "RUNNING", "WAITING_APPROVAL"} \cup Terminal

Status == {"ABSENT"} \cup RowStatus

\* The pairs <<from, to>> the code declares legal.
RunTransitions ==
    ({"PENDING"} \X {"RUNNING", "FAILED"})
    \cup ({"RUNNING"} \X ({"RUNNING", "PENDING", "WAITING_APPROVAL"} \cup Terminal))
    \cup ({"WAITING_APPROVAL"} \X {"PENDING", "RUNNING", "NEEDS_HUMAN_INTERVENTION"})
    \cup {<<s, s>> : s \in Terminal}

\* A human decision is "NONE" until the approvals row exists.
Decision == {"NONE", "APPROVE", "REJECT"}

\* Final statuses the investigation half of the graph can end with.  It parks
\* ("WAITING_APPROVAL") when it has a patch to propose.
WorkflowOutcome == {"INVESTIGATION_COMPLETE", "INSUFFICIENT_EVIDENCE",
                    "NEEDS_HUMAN_INTERVENTION", "FAILED", "WAITING_APPROVAL"}

\* Final statuses of the half that runs after an approval.
ResumeOutcome == {"RESOLVED", "FAILED"}
=============================================================================
