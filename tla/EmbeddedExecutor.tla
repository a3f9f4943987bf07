-------------------------- MODULE EmbeddedExecutor --------------------------
(***************************************************************************)
(* The executor embedded in the API process of development and test        *)
(* deployments (agent/executor.py, the submitting half of api/app.py and   *)
(* the writes of services/incidents.py made without a claim).  There is no *)
(* lease: the only record that somebody works on a run is an asyncio task  *)
(* of this one process, which a restart loses and recover_non_terminal()   *)
(* must make again from the database.                                      *)
(*                                                                         *)
(* A run has at most two tasks: "run" investigates it and "resume"         *)
(* delivers it after an approval.  The approval may arrive while the task  *)
(* that parked the run still has its last statements to execute, so the    *)
(* two tasks of one run can be alive together.                             *)
(***************************************************************************)
EXTENDS RunStatus, Naturals, FiniteSets

CONSTANTS Run,          \* runs that may ever be submitted
          MaxCrashes    \* crashes of the API process (bound of the model)

ASSUME CrashAssumption == MaxCrashes \in Nat

VARIABLES
    \* the database
    status, decision,
    effect,      \* external_side_effects.status of the delivery
    checkpoint,  \* a LangGraph checkpoint exists for the run's thread
    durable,     \* checkpoints are PostgreSQL's, not SQLite's MemorySaver; never changes
    \* the process
    up,          \* it serves requests
    crashes,
    request,     \* where the request that must still create a task is
    phase,       \* where each task of the run is
    seen,        \* the status _halt() has read and compares with
    entry,       \* the task _tasks[run_id] names
    stranded     \* runs somebody gave up without anything left to serve them

dbVars == <<status, decision, effect, checkpoint>>
processVars == <<durable, up, crashes>>
taskVars == <<phase, seen, entry, stranded>>
vars == <<status, decision, effect, checkpoint, durable, up, crashes, request,
          phase, seen, entry, stranded>>

Task == {"run", "resume"}
Unread == "UNREAD"
NoTask == "none"

\* Phases inside the wait_for() of execute() and of resume().
Working(t) == IF t = "run" THEN {"created", "graph", "persisted", "marked"}
                           ELSE {"resuming", "calling", "recorded", "refused"}
Halting == {"timedOut", "crashed"}
Live == {"created"} \cup Working("run") \cup Working("resume") \cup Halting
Phase == {"none"} \cup Live

\* Statuses recover_non_terminal() selects: somebody ought to work on the run.
Active == {"PENDING", "RUNNING"}

\* The task a run of this decision needs; the other one may still be ending.
NeededTask(r) == IF decision[r] = "NONE" THEN "run" ELSE "resume"

Served(r) == request[r] # "none" \/ phase[r][NeededTask(r)] \in Live

Init == /\ status = [r \in Run |-> "ABSENT"]
        /\ decision = [r \in Run |-> "NONE"]
        /\ effect = [r \in Run |-> "NONE"]
        /\ checkpoint = [r \in Run |-> FALSE]
        /\ durable \in BOOLEAN
        /\ up = TRUE
        /\ crashes = 0
        /\ request = [r \in Run |-> "none"]
        /\ phase = [r \in Run |-> [t \in Task |-> "none"]]
        /\ seen = [r \in Run |-> [t \in Task |-> Unread]]
        /\ entry = [r \in Run |-> NoTask]
        /\ stranded = {}

\* ------------------------------------------------------------------------
\* Effects the actions share.

SetStatus(r, s) == status' = [status EXCEPT ![r] = s]
SetPhase(r, t, p) == phase' = [phase EXCEPT ![r][t] = p]

\* create_task(): the new task takes the run's one slot in _tasks.
Create(r, t) == /\ SetPhase(r, t, "created")
                /\ entry' = [entry EXCEPT ![r] = t]

\* Variant: the finally clause is missing.
FinishListed(r, t) == /\ SetPhase(r, t, "none")
                      /\ seen' = [seen EXCEPT ![r][t] = Unread]
                      /\ UNCHANGED entry

\* The task is over; finally: _tasks.pop(run_id), whoever holds the slot.
Finish(r, t) == /\ SetPhase(r, t, "none")
                /\ seen' = [seen EXCEPT ![r][t] = Unread]
                /\ entry' = [entry EXCEPT ![r] = NoTask]

\* The task the run needs ends without settling it.
GiveUp(r, t) == stranded' = IF status[r] \in Active /\ t = NeededTask(r)
                            THEN stranded \cup {r} ELSE stranded

\* ------------------------------------------------------------------------
\* Requests.

\* POST /incidents committed the incident and its PENDING run.
Admit(r) == /\ up
            /\ status[r] = "ABSENT"
            /\ SetStatus(r, "PENDING")
            /\ request' = [request EXCEPT ![r] = "admitted"]
            /\ UNCHANGED <<decision, effect, checkpoint, processVars, taskVars>>

\* The rest of the request: submit(), or submit_resume() after an approval.
Submit(r) == /\ request[r] # "none"
             /\ Create(r, IF request[r] = "admitted" THEN "run" ELSE "resume")
             /\ request' = [request EXCEPT ![r] = "none"]
             /\ UNCHANGED <<dbVars, processVars, seen, stranded>>

\* The request is cancelled, or the update of the incident fails, between the
\* commit and the submission.
RequestDies(r) == /\ request[r] # "none"
                  /\ request' = [request EXCEPT ![r] = "none"]
                  /\ stranded' = stranded \cup {r}
                  /\ UNCHANGED <<dbVars, processVars, phase, seen, entry>>

\* ApprovalService.decide() committed; only an approval has a task to submit.
Decide(r, d) ==
    /\ up
    /\ status[r] = "WAITING_APPROVAL"
    /\ decision' = [decision EXCEPT ![r] = d]
    /\ SetStatus(r, IF d = "REJECT" THEN "NEEDS_HUMAN_INTERVENTION" ELSE "PENDING")
    /\ request' = IF d = "REJECT" THEN request ELSE [request EXCEPT ![r] = "approved"]
    /\ UNCHANGED <<effect, checkpoint, processVars, taskVars>>

\* ------------------------------------------------------------------------
\* Both tasks.

\* RunService.mark_running() without a claim: any PENDING or RUNNING row.
MarkRunning(r, t) ==
    /\ phase[r][t] = "created"
    /\ status[r] \in Active
    /\ SetStatus(r, "RUNNING")
    /\ SetPhase(r, t, IF t = "run" THEN "graph" ELSE "resuming")
    /\ UNCHANGED <<decision, effect, checkpoint, processVars, request, seen, entry, stranded>>

\* Something raises: the database, a tool session, a missing checkpoint, a status
\* that changed under mark_status(), a transient answer of GitHub.
Fail(r, t) == /\ phase[r][t] \in Working(t) \cup {"created"}
              /\ SetPhase(r, t, "crashed")
              /\ UNCHANGED <<dbVars, processVars, request, seen, entry, stranded>>

\* wait_for() expires; resume() calls mark_running() before it.
TimeOut(r, t) == /\ phase[r][t] \in Working(t)
                 /\ SetPhase(r, t, "timedOut")
                 /\ UNCHANGED <<dbVars, processVars, request, seen, entry, stranded>>

HaltTarget(r, t) == IF t = "run" /\ phase[r][t] = "crashed"
                    THEN "FAILED" ELSE "NEEDS_HUMAN_INTERVENTION"

\* _halt() reads the row; the table may forbid the target from there.
HaltRead(r, t) ==
    /\ phase[r][t] \in Halting
    /\ seen[r][t] = Unread
    /\ IF <<status[r], HaltTarget(r, t)>> \in RunTransitions
       THEN /\ seen' = [seen EXCEPT ![r][t] = status[r]]
            /\ UNCHANGED <<phase, entry, stranded>>
       ELSE Finish(r, t) /\ GiveUp(r, t)
    /\ UNCHANGED <<dbVars, processVars, request>>

\* Variant: the UPDATE of mark_status() does not compare the status.
HaltWriteBlind(r, t) ==
    /\ seen[r][t] # Unread
    /\ SetStatus(r, HaltTarget(r, t))
    /\ Finish(r, t)
    /\ UNCHANGED <<decision, effect, checkpoint, processVars, request, stranded>>

\* mark_status() from _halt(): UPDATE ... WHERE status = the one read.
HaltWrite(r, t) ==
    /\ seen[r][t] # Unread
    /\ status[r] = seen[r][t]
    /\ SetStatus(r, HaltTarget(r, t))
    /\ Finish(r, t)
    /\ UNCHANGED <<decision, effect, checkpoint, processVars, request, stranded>>

\* _halt() itself raises: another writer was faster or the database failed.
\* After a timeout the outer handler halts once more; its own error ends the task.
HaltRaises(r, t) ==
    /\ phase[r][t] \in Halting
    /\ IF phase[r][t] = "timedOut"
       THEN /\ SetPhase(r, t, "crashed")
            /\ seen' = [seen EXCEPT ![r][t] = Unread]
            /\ UNCHANGED <<entry, stranded>>
       ELSE Finish(r, t) /\ GiveUp(r, t)
    /\ UNCHANGED <<dbVars, processVars, request>>

\* ------------------------------------------------------------------------
\* The investigation: run_agent_workflow().

\* The graph ended or parked; its artifacts are committed.
PersistArtifacts(r) ==
    /\ phase[r]["run"] = "graph"
    /\ SetPhase(r, "run", "persisted")
    /\ checkpoint' = [checkpoint EXCEPT ![r] = TRUE]
    /\ UNCHANGED <<status, decision, effect, processVars, request, seen, entry, stranded>>

\* mark_status() with the status the graph ended with.
MarkOutcome(r) ==
    /\ phase[r]["run"] = "persisted"
    /\ status[r] = "RUNNING"
    /\ \E s \in WorkflowOutcome : SetStatus(r, s)
    /\ SetPhase(r, "run", "marked")
    /\ UNCHANGED <<decision, effect, checkpoint, processVars, request, seen, entry, stranded>>

\* record_audit(), then the task returns.
Audit(r) == /\ phase[r]["run"] = "marked"
            /\ Finish(r, "run")
            /\ UNCHANGED <<dbVars, processVars, request, stranded>>

\* ------------------------------------------------------------------------
\* The delivery: resume_agent_workflow() and resume_after_approval().

\* The checkpoint is found, the row is RUNNING; a completed effect is not repeated.
EnterDelivery(r) ==
    /\ phase[r]["resume"] = "resuming"
    /\ checkpoint[r]
    /\ status[r] = "RUNNING"
    /\ IF effect[r] = "COMPLETED"
       THEN SetPhase(r, "resume", "recorded") /\ UNCHANGED effect
       ELSE /\ SetPhase(r, "resume", "calling")
            /\ effect' = [effect EXCEPT ![r] = "IN_PROGRESS"]
    /\ UNCHANGED <<status, decision, checkpoint, processVars, request, seen, entry, stranded>>

\* GitHub answered: done, refused for good, or refused for now (raises).
Answer(r) == \E a \in {"recorded", "refused", "crashed"} :
    /\ phase[r]["resume"] = "calling"
    /\ SetPhase(r, "resume", a)
    /\ effect' = [effect EXCEPT ![r] = IF a = "recorded" THEN "COMPLETED" ELSE "FAILED"]
    /\ UNCHANGED <<status, decision, checkpoint, processVars, request, seen, entry, stranded>>

\* Variant: the workflow state is written into the status column.
MarkDeliveredState(r) ==
    /\ phase[r]["resume"] \in {"recorded", "refused"}
    /\ status[r] = "RUNNING"
    /\ SetStatus(r, IF phase[r]["resume"] = "recorded" THEN "CREATE_PULL_REQUEST" ELSE "FAILED")
    /\ Finish(r, "resume")
    /\ UNCHANGED <<decision, effect, checkpoint, processVars, request, stranded>>

\* mark_status(RESOLVED) or mark_status(FAILED) after the answer.
MarkDelivered(r) ==
    /\ phase[r]["resume"] \in {"recorded", "refused"}
    /\ status[r] = "RUNNING"
    /\ SetStatus(r, IF phase[r]["resume"] = "recorded" THEN "RESOLVED" ELSE "FAILED")
    /\ Finish(r, "resume")
    /\ UNCHANGED <<decision, effect, checkpoint, processVars, request, stranded>>

\* ------------------------------------------------------------------------
\* The process.

\* Every task, request and memory checkpoint is lost.
Crash == /\ up
         /\ crashes < MaxCrashes
         /\ up' = FALSE
         /\ crashes' = crashes + 1
         /\ request' = [r \in Run |-> "none"]
         /\ phase' = [r \in Run |-> [t \in Task |-> "none"]]
         /\ seen' = [r \in Run |-> [t \in Task |-> Unread]]
         /\ entry' = [r \in Run |-> NoTask]
         /\ checkpoint' = IF durable THEN checkpoint ELSE [r \in Run |-> FALSE]
         /\ UNCHANGED <<status, decision, effect, durable, stranded>>

\* Variants: the recorded approval is not consulted; queued runs are left to
\* the request that admitted them.
RecoveryTaskRun(r) == IF status[r] \in Active THEN "run" ELSE NoTask
RecoveryTaskRunning(r) ==
    IF status[r] # "RUNNING" THEN NoTask
    ELSE IF decision[r] = "APPROVE" THEN "resume" ELSE "run"

\* approved_decision(): an approved run resumes, any other is submitted again.
RecoveryTask(r) ==
    IF status[r] \notin Active THEN NoTask
    ELSE IF decision[r] = "APPROVE" THEN "resume" ELSE "run"

\* lifespan(): recover_non_terminal() before the first request is served.
Start == /\ ~up
         /\ up' = TRUE
         /\ entry' = [r \in Run |-> RecoveryTask(r)]
         /\ phase' = [r \in Run |-> [t \in Task |->
                          IF t = RecoveryTask(r) THEN "created" ELSE "none"]]
         /\ stranded' = {}
         /\ UNCHANGED <<dbVars, durable, crashes, request, seen>>

\* ------------------------------------------------------------------------

Halt(r, t) == HaltRead(r, t) \/ HaltWrite(r, t) \/ HaltRaises(r, t)

TaskStep(r, t) == MarkRunning(r, t) \/ Fail(r, t) \/ TimeOut(r, t) \/ Halt(r, t)

Investigate(r) == PersistArtifacts(r) \/ MarkOutcome(r) \/ Audit(r)

Deliver(r) == EnterDelivery(r) \/ Answer(r) \/ MarkDelivered(r)

Serve(r) == \/ Admit(r) \/ Submit(r) \/ RequestDies(r)
            \/ \E d \in {"APPROVE", "REJECT"} : Decide(r, d)

Next == \/ Crash
        \/ Start
        \/ \E r \in Run : Serve(r) \/ Investigate(r) \/ Deliver(r)
        \/ \E r \in Run, t \in Task : TaskStep(r, t)

Spec == Init /\ [][Next]_vars

\* A process that is down is started again, a request ends, and a task cannot stay
\* for ever: wait_for() bounds both workflows.  Nobody has to approve or restart.
Fairness ==
    /\ WF_vars(Start)
    /\ \A r \in Run : /\ WF_vars(Submit(r) \/ RequestDies(r))
                      /\ WF_vars(TaskStep(r, "run") \/ Investigate(r))
                      /\ WF_vars(TaskStep(r, "resume") \/ Deliver(r))

FairSpec == Spec /\ Fairness

\* ------------------------------------------------------------------------
\* Properties.

\* An investigation that has not written its result yet.
Early == {"created", "graph", "persisted"}

\* Types of the columns and of the process's memory.
TypeOK ==
    /\ status \in [Run -> Status]
    /\ decision \in [Run -> Decision]
    /\ effect \in [Run -> {"NONE", "IN_PROGRESS", "FAILED", "COMPLETED"}]
    /\ checkpoint \in [Run -> BOOLEAN]
    /\ durable \in BOOLEAN
    /\ up \in BOOLEAN
    /\ crashes \in 0 .. MaxCrashes
    /\ request \in [Run -> {"none", "admitted", "approved"}]
    /\ phase \in [Run -> [Task -> Phase]]
    /\ seen \in [Run -> [Task -> RowStatus \cup {Unread}]]
    /\ entry \in [Run -> Task \cup {NoTask}]
    /\ stranded \subseteq Run

ServedRun(r) == up /\ status[r] \in Active => Served(r) \/ r \in stranded

\* While the process is up, a PENDING or RUNNING run has the task its decision calls for, or a
\* request that will create it, unless it was stranded: its request died between the commit and
\* submit(), or _halt() could not write.  A restart leaves none without a task.
ActiveRunIsServed == \A r \in Run : ServedRun(r)

DecisionRespectedBy(r) ==
    /\ phase[r]["run"] \in Early => decision[r] = "NONE"
    /\ phase[r]["resume"] \in Live \/ effect[r] # "NONE" => decision[r] = "APPROVE"

\* An approved run is never investigated again, whatever restarts come between the
\* approval and its delivery (approved_decision()); nor does an undecided or
\* rejected run reach the delivery.
TasksRespectDecision == \A r \in Run : DecisionRespectedBy(r)

TableSound(r) ==
    /\ entry[r] # NoTask => phase[r][entry[r]] \in Live
    /\ phase[r]["run"] \in Early => entry[r] = "run"
    /\ phase[r]["resume"] \in Live /\ entry[r] = NoTask => phase[r]["run"] \notin Live

\* The one slot _tasks[run_id]: it never names a task that ended, an investigation
\* that may still write results is always in it, and a delivery is missing from it
\* only once the task that parked the run has popped the slot (executor.py:100).
TaskTableSound == \A r \in Run : TableSound(r)

\* A run is RESOLVED only with its delivery recorded, and a run whose delivery is
\* recorded is RUNNING, RESOLVED or stopped by a halt, never queued for another.
ResolvedIsDelivered ==
    \A r \in Run :
        /\ status[r] = "RESOLVED" => effect[r] = "COMPLETED"
        /\ effect[r] = "COMPLETED" => status[r] \in {"RUNNING", "RESOLVED", "FAILED",
                                                     "NEEDS_HUMAN_INTERVENTION"}

\* Whichever of the two tasks of a run writes last, and however old the status it
\* has read, a status changes only along RUN_TRANSITIONS; terminal is absorbing.
LegalTransitions ==
    [][\A r \in Run : status[r] \notin {"ABSENT", status'[r]} =>
           <<status[r], status'[r]>> \in RunTransitions]_vars

\* How far a task has come.
Rank(p) == CASE p = "none" -> 0
             [] p = "created" -> 1
             [] p \in {"graph", "resuming"} -> 2
             [] p \in {"persisted", "calling"} -> 3
             [] p \in {"marked", "recorded", "refused"} -> 4
             [] p = "timedOut" -> 5
             [] OTHER -> 6

\* No task is replaced or started twice: submit(), submit_resume() and the recovery put a
\* task only where none is alive, and a task that is alive goes on or ends.  Nothing in
\* submit() itself looks for an earlier task of the run.
TasksAreNotReplaced ==
    [][\A r \in Run, t \in Task : phase'[r][t] \in {"none", phase[r][t]}
                               \/ Rank(phase[r][t]) < Rank(phase'[r][t])]_vars

\* A recorded delivery stays recorded, although a task that timed out in its request and
\* the one that a restart makes write the same row.
CompletedIsFinal ==
    [][\A r \in Run : effect[r] = "COMPLETED" => effect'[r] = "COMPLETED"]_vars

\* Without workers and leases it is the same life cycle, but for a task that gives up
\* its run before it is RUNNING or after it was parked.
Lifecycle == INSTANCE RunLifecycle WITH Embedded <- TRUE
ImplementsLifecycle == Lifecycle!Spec

\* A run somebody works on settles: it waits for a human or is terminal, across
\* restarts, unless it is stranded until the next one.
ActiveRunSettles ==
    \A r \in Run : status[r] \in Active
                   ~> status[r] \in {"WAITING_APPROVAL"} \cup Terminal \/ r \in stranded

\* ------------------------------------------------------------------------
\* The inductive invariant, a conjunction over runs.

Idle(r) == \A t \in Task : phase[r][t] = "none" /\ seen[r][t] = Unread

\* A process that is down has nothing in memory.
DownIsEmpty(r) == ~up => request[r] = "none" /\ entry[r] = NoTask /\ Idle(r)

\* What a halt has read leads to its target.
HaltsAreLegal(r) ==
    \A t \in Task : \/ seen[r][t] = Unread
                    \/ /\ phase[r][t] \in Halting
                       /\ seen[r][t] \in RowStatus
                       /\ <<seen[r][t], HaltTarget(r, t)>> \in RunTransitions

\* Who may still decide, and what each decision leaves of the run.
DecisionAgrees(r) ==
    /\ status[r] = "ABSENT" => decision[r] = "NONE" /\ request[r] = "none" /\ Idle(r)
    /\ request[r] = "admitted" => decision[r] = "NONE" /\ status[r] = "PENDING" /\ Idle(r)
    /\ request[r] = "approved" => decision[r] = "APPROVE" /\ phase[r]["resume"] = "none"
    /\ decision[r] = "REJECT" => status[r] \in Terminal
    /\ status[r] = "WAITING_APPROVAL" => decision[r] = "NONE" /\ phase[r]["run"] \notin Early
    /\ phase[r]["run"] = "marked" /\ decision[r] = "NONE" => status[r] \notin Active

\* How far the delivery is, in the effect and in the status.
DeliveryAgrees(r) ==
    /\ phase[r]["resume"] = "calling" => effect[r] = "IN_PROGRESS"
    /\ phase[r]["resume"] = "recorded" => effect[r] = "COMPLETED"
    /\ effect[r] # "NONE" \/ phase[r]["resume"] \in Working("resume") =>
           status[r] \in {"RUNNING", "RESOLVED", "FAILED", "NEEDS_HUMAN_INTERVENTION"}
    /\ status[r] = "RESOLVED" => effect[r] = "COMPLETED"

RunInv(r) == /\ DownIsEmpty(r) /\ HaltsAreLegal(r) /\ DecisionAgrees(r) /\ DeliveryAgrees(r)
             /\ ServedRun(r) /\ DecisionRespectedBy(r) /\ TableSound(r)

Inv == TypeOK /\ \A r \in Run : RunInv(r)
=============================================================================
