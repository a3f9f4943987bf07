---------------------------- MODULE RunLifecycle ----------------------------
(***************************************************************************)
(* What an incident run promises to its users, without workers, leases or  *)
(* databases: a run is admitted once, is worked on in episodes, is decided *)
(* by a human at most once, reaches RESOLVED only through an approval, and *)
(* never leaves a terminal status.  LeaseQueue and EmbeddedExecutor        *)
(* implement this module, and the rows of AgentGraph and ApprovalDelivery  *)
(* move along it.                                                          *)
(***************************************************************************)
EXTENDS RunStatus

CONSTANTS Run,
          Embedded   \* runs are tasks of the API process, not claims of workers

VARIABLES status,      \* the run's public status
          decision     \* the human decision recorded for it

vars == <<status, decision>>

Init == /\ status = [r \in Run |-> "ABSENT"]
        /\ decision = [r \in Run |-> "NONE"]

Become(r, s) == status' = [status EXCEPT ![r] = s]

\* POST /incidents was accepted.
Admit(r) == /\ status[r] = "ABSENT"
            /\ Become(r, "PENDING")
            /\ UNCHANGED decision

\* Somebody starts an episode of work.
Start(r) == /\ status[r] = "PENDING"
            /\ Become(r, "RUNNING")
            /\ UNCHANGED decision

\* The episode failed and the run goes back to the queue.
Requeue(r) == /\ status[r] = "RUNNING"
              /\ Become(r, "PENDING")
              /\ UNCHANGED decision

\* The investigation ends; only an undecided run investigates.
Investigated(r) == /\ status[r] = "RUNNING"
                   /\ decision[r] = "NONE"
                   /\ \E s \in WorkflowOutcome : Become(r, s)
                   /\ UNCHANGED decision

\* The approved change is delivered, or delivery fails for good.
Delivered(r) == /\ status[r] = "RUNNING"
                /\ decision[r] = "APPROVE"
                /\ \E s \in ResumeOutcome : Become(r, s)
                /\ UNCHANGED decision

\* The run is handed to a human: attempts, time or inputs are exhausted.
Escalate(r) == /\ status[r] = "RUNNING"
               /\ Become(r, "NEEDS_HUMAN_INTERVENTION")
               /\ UNCHANGED decision

\* The one human decision.
Decide(r) == /\ status[r] = "WAITING_APPROVAL"
             /\ decision[r] = "NONE"
             /\ \/ /\ decision' = [decision EXCEPT ![r] = "APPROVE"]
                   /\ Become(r, "PENDING")
                \/ /\ decision' = [decision EXCEPT ![r] = "REJECT"]
                   /\ Become(r, "NEEDS_HUMAN_INTERVENTION")

\* A task that never got to RUNNING gives its run up.
HaltQueued(r) == /\ Embedded
                 /\ status[r] = "PENDING"
                 /\ Become(r, "FAILED")
                 /\ UNCHANGED decision

\* The task that parked the run times out in its last statements.
HaltParked(r) == /\ Embedded
                 /\ status[r] = "WAITING_APPROVAL"
                 /\ Become(r, "NEEDS_HUMAN_INTERVENTION")
                 /\ UNCHANGED decision

Step(r) == \/ Admit(r) \/ Start(r) \/ Requeue(r) \/ Investigated(r)
           \/ Delivered(r) \/ Escalate(r) \/ Decide(r)
           \/ HaltQueued(r) \/ HaltParked(r)

\* Several exhausted runs may be escalated by one statement.
EscalateAll == \E E \in SUBSET Run :
    /\ \A r \in E : status[r] = "RUNNING"
    /\ status' = [r \in Run |-> IF r \in E THEN "NEEDS_HUMAN_INTERVENTION" ELSE status[r]]
    /\ UNCHANGED decision

Next == EscalateAll \/ \E r \in Run : Step(r)

Spec == Init /\ [][Next]_vars

\* ------------------------------------------------------------------------
\* What everything that implements the life cycle inherits.

\* Types of the status and of the decision.
TypeOK == status \in [Run -> Status] /\ decision \in [Run -> Decision]

\* The status tells what was decided: an investigation that ended without a
\* proposal was never decided, RESOLVED is approved, a rejection stays with a human.
StatusTellsDecision ==
    \A r \in Run :
        /\ status[r] \in {"ABSENT", "WAITING_APPROVAL", "INVESTIGATION_COMPLETE",
                          "INSUFFICIENT_EVIDENCE"} => decision[r] = "NONE"
        /\ status[r] = "RESOLVED" => decision[r] = "APPROVE"
        /\ decision[r] = "REJECT" => status[r] = "NEEDS_HUMAN_INTERVENTION"

\* A decision is made once, about a run that waits for it, and never withdrawn.
DecidedOnce ==
    [][\A r \in Run : decision'[r] # decision[r] =>
           status[r] = "WAITING_APPROVAL" /\ decision[r] = "NONE"]_vars

\* A status changes along RUN_TRANSITIONS only.
LegalTransitions ==
    [][\A r \in Run : status[r] \notin {"ABSENT", status'[r]} =>
           <<status[r], status'[r]>> \in RunTransitions]_vars

\* No run leaves a terminal status.
TerminalIsFinal ==
    [][\A r \in Run : status[r] \in Terminal => status'[r] = status[r]]_vars

\* Once a run is decided nothing proposes another change for it: it never waits for
\* a human again, and a rejected run is not touched any more.
DecidedNeverAsksAgain ==
    [][\A r \in Run : decision[r] # "NONE" =>
           /\ status'[r] # "WAITING_APPROVAL"
           /\ decision[r] = "REJECT" => status'[r] = status[r]]_vars
=============================================================================
