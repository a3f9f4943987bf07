------------------------- MODULE RunLifecycleProofs -------------------------
(***************************************************************************)
(* What the life cycle of a run promises, for any set of runs, with and    *)
(* without workers.  LeaseQueueProofs and EmbeddedExecutorProofs show that *)
(* the two executors implement it, and inherit these theorems.             *)
(***************************************************************************)
EXTENDS RunLifecycle, TLAPS

Inv == TypeOK /\ StatusTellsDecision

\* A step of one run leaves the status and the decision of the others alone, and what
\* it does to its own is one of these changes.
LEMMA StepChanges ==
    ASSUME TypeOK, NEW r \in Run, Step(r)
    PROVE  /\ \A q \in Run \ {r} : status'[q] = status[q] /\ decision'[q] = decision[q]
           /\ TypeOK'
           /\ \/ /\ decision'[r] = decision[r]
                 /\ \/ status[r] = "ABSENT" /\ status'[r] = "PENDING"
                    \/ status[r] = "PENDING" /\ status'[r] \in {"RUNNING", "FAILED"}
                    \/ status[r] = "RUNNING" /\ status'[r] \in {"PENDING", "NEEDS_HUMAN_INTERVENTION"}
                    \/ status[r] = "RUNNING" /\ decision[r] = "NONE" /\ status'[r] \in WorkflowOutcome
                    \/ status[r] = "RUNNING" /\ decision[r] = "APPROVE" /\ status'[r] \in ResumeOutcome
                    \/ status[r] = "WAITING_APPROVAL" /\ status'[r] = "NEEDS_HUMAN_INTERVENTION"
              \/ /\ status[r] = "WAITING_APPROVAL" /\ decision[r] = "NONE"
                 /\ \/ decision'[r] = "APPROVE" /\ status'[r] = "PENDING"
                    \/ decision'[r] = "REJECT" /\ status'[r] = "NEEDS_HUMAN_INTERVENTION"
<1> USE DEF TypeOK, Become, Status, RowStatus, Terminal, Decision, WorkflowOutcome, ResumeOutcome
<1>1. CASE Admit(r) \/ Start(r) \/ Requeue(r)
  BY <1>1 DEF Admit, Start, Requeue
<1>2. CASE Investigated(r)
  BY <1>2 DEF Investigated
<1>3. CASE Delivered(r)
  BY <1>3 DEF Delivered
<1>4. CASE Escalate(r) \/ HaltQueued(r) \/ HaltParked(r)
  BY <1>4 DEF Escalate, HaltQueued, HaltParked
<1>5. CASE Decide(r)
  BY <1>5 DEF Decide
<1>6. QED
  BY <1>1, <1>2, <1>3, <1>4, <1>5 DEF Step

\* A statement that escalates several runs changes nothing but RUNNING statuses.
LEMMA EscalateAllChanges ==
    ASSUME TypeOK, EscalateAll
    PROVE  /\ TypeOK' /\ decision' = decision
           /\ \A r \in Run : \/ status'[r] = status[r]
                             \/ /\ status[r] = "RUNNING"
                                /\ status'[r] = "NEEDS_HUMAN_INTERVENTION"
  BY DEF EscalateAll, TypeOK, Status, RowStatus, Terminal

LEMMA InitInv == Init => Inv
  BY DEF Init, Inv, TypeOK, StatusTellsDecision, Status, Decision

LEMMA NextInv == Inv /\ [Next]_vars => Inv'
<1> SUFFICES ASSUME Inv, [Next]_vars PROVE Inv'
  OBVIOUS
<1>1. CASE EscalateAll
  BY <1>1, EscalateAllChanges DEF Inv, StatusTellsDecision
<1>2. ASSUME NEW r \in Run, Step(r) PROVE Inv'
  <2>1. TypeOK'
    BY <1>2, StepChanges DEF Inv
  <2>2. ASSUME NEW q \in Run \ {r}
        PROVE  status'[q] = status[q] /\ decision'[q] = decision[q]
    BY <1>2, StepChanges DEF Inv
  <2>3. /\ status'[r] \in {"ABSENT", "WAITING_APPROVAL", "INVESTIGATION_COMPLETE",
                           "INSUFFICIENT_EVIDENCE"} => decision'[r] = "NONE"
        /\ status'[r] = "RESOLVED" => decision'[r] = "APPROVE"
        /\ decision'[r] = "REJECT" => status'[r] = "NEEDS_HUMAN_INTERVENTION"
    BY <1>2, StepChanges
       DEF Inv, TypeOK, StatusTellsDecision, WorkflowOutcome, ResumeOutcome, Decision
  <2>4. QED
    BY <2>1, <2>2, <2>3 DEF Inv, StatusTellsDecision
<1>3. CASE UNCHANGED vars
  BY <1>3 DEF vars, Inv, TypeOK, StatusTellsDecision
<1>4. QED
  BY <1>1, <1>2, <1>3 DEF Next

\* In every reachable state the status of a run tells what was decided about it.
THEOREM StatusesTellDecisions == Spec => [](TypeOK /\ StatusTellsDecision)
<1>1. QED
  BY InitInv, NextInv, PTL DEF Spec, Inv

\* Every step, seen from one run.
LEMMA RunChanges ==
    ASSUME Inv, [Next]_vars, NEW r \in Run
    PROVE  /\ status'[r] \notin {status[r]} /\ status[r] # "ABSENT" =>
                  <<status[r], status'[r]>> \in RunTransitions
           /\ status[r] \in Terminal => status'[r] = status[r]
           /\ decision'[r] # decision[r] => status[r] = "WAITING_APPROVAL" /\ decision[r] = "NONE"
           /\ decision[r] # "NONE" => /\ status'[r] # "WAITING_APPROVAL"
                                      /\ decision[r] = "REJECT" => status'[r] = status[r]
<1> USE DEF Inv, StatusTellsDecision
<1>1. CASE EscalateAll
  BY <1>1, EscalateAllChanges DEF RunTransitions, Terminal
<1>2. CASE Step(r)
  BY <1>2, StepChanges DEF RunTransitions, Terminal, WorkflowOutcome, ResumeOutcome
<1>3. CASE (\E q \in Run \ {r} : Step(q)) \/ UNCHANGED vars
  BY <1>3, StepChanges DEF vars
<1>4. QED
  BY <1>1, <1>2, <1>3 DEF Next

\* A decision is made once, about a run that waits for it, and never withdrawn.
THEOREM DecisionsAreMadeOnce == Spec => DecidedOnce
<1>1. Inv /\ [Next]_vars => [\A r \in Run : decision'[r] # decision[r] =>
          status[r] = "WAITING_APPROVAL" /\ decision[r] = "NONE"]_vars
  BY RunChanges
<1>2. QED
  BY <1>1, InitInv, NextInv, PTL DEF Spec, DecidedOnce

\* The life cycle moves along RUN_TRANSITIONS (models/enums.py) only.
THEOREM TransitionsAreLegal == Spec => LegalTransitions
<1>1. Inv /\ [Next]_vars => [\A r \in Run : status[r] \notin {"ABSENT", status'[r]} =>
          <<status[r], status'[r]>> \in RunTransitions]_vars
  BY RunChanges
<1>2. QED
  BY <1>1, InitInv, NextInv, PTL DEF Spec, LegalTransitions

\* No run ever leaves a terminal status.
THEOREM TerminalRunsStay == Spec => TerminalIsFinal
<1>1. Inv /\ [Next]_vars => [\A r \in Run : status[r] \in Terminal => status'[r] = status[r]]_vars
  BY RunChanges
<1>2. QED
  BY <1>1, InitInv, NextInv, PTL DEF Spec, TerminalIsFinal

\* After a decision no other change is proposed, and a rejected run is left alone.
THEOREM DecidedRunsNeverAskAgain == Spec => DecidedNeverAsksAgain
<1>1. Inv /\ [Next]_vars => [\A r \in Run : decision[r] # "NONE" =>
           /\ status'[r] # "WAITING_APPROVAL"
           /\ decision[r] = "REJECT" => status'[r] = status[r]]_vars
  BY RunChanges
<1>2. QED
  BY <1>1, InitInv, NextInv, PTL DEF Spec, DecidedNeverAsksAgain
=============================================================================
